SPECIFICATION Spec
CONSTANTS
  Calls <- MCTwoDefectsCalls
  Request <- MCTwoDefects
  Processes = {p}
  LockName <- MCLockName
  StoredName <- MCStoredName
  MaxCrashes = 0
  Nil = Nil
CHECK_DEADLOCK FALSE
INVARIANT
  SuccessMeansApplied
