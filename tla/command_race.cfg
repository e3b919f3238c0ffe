SPECIFICATION Spec
CONSTANTS
  Calls <- MCRivalsCalls
  Request <- MCRivals
  Processes = {p, q}
  LockName <- MCLockName
  StoredName <- MCStoredName
  MaxCrashes = 1
  Nil = Nil
CHECK_DEADLOCK FALSE
SYMMETRY MCSymmetry
INVARIANTS
  TypeOK
  ChainMatchesCase
PROPERTY
  KeepsExactlyOnce
