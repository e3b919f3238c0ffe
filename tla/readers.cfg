SPECIFICATION Spec
CONSTANTS
  Numbers = {1, 2, 3}
  Legacy = {3}
  OpenDefects <- MCOpenDefects
  Suffix <- MCSuffix
  TicksPerDay = 1
  MaxTime = 1
  MaxCommits = 2
  MaxOpen = 2
  Queries <- MCQueries
  Any = Any
  DefaultLimit = 2
  MaxLimit = 3
  Nil = Nil
CHECK_DEADLOCK FALSE
INVARIANTS
  TypeOK
  NoneTwice
  NoneSkipped
  CountsAgree
  FilterMeansSummary
  GenuineIsValid
  ValidMeansGenuine
