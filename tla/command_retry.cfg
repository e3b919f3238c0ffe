SPECIFICATION FairSpec
CONSTANTS
  Calls <- MCRetriesCalls
  Request <- MCRetries
  Processes = {p}
  LockName <- MCLockName
  StoredName <- MCStoredName
  MaxCrashes = 1
  Nil = Nil
CHECK_DEADLOCK FALSE
INVARIANTS
  BaseFresh
  StoreOpens
  SuccessMeansApplied
PROPERTIES
  RetryNeverConflicts
  Answered
