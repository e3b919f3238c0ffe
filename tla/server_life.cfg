SPECIFICATION FairSpec
CONSTANTS
  Processes = {p, q}
  q = q
  Flags <- MCFlags
  Handlers = {1}
  Statements = 2
  InitialFiles <- MCInitialFiles
  SchemaVersion = 2
  ClockMayStepBack = TRUE
  MaxStarts = 3
  MaxCommits = 2
  MaxCrashes = 1
  Nil = Nil
CHECK_DEADLOCK FALSE
INVARIANTS
  ServesOnlyCurrentSchema
  RefusedOnlyForCause
  CleanExitLosesNothing
PROPERTY
  Settles
