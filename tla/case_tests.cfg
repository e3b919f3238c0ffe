SPECIFICATION StoredSpec
CONSTANTS
  Actors <- MCTwoPeople
  NormalizeText <- MCNormalizeText
  FoldName <- MCFoldName
  RawCodes <- MCOneCode
  NormalizeCode <- MCNormalizeCode
  Loads = {100}
  TestKinds = {"dynamic_load", "limit_trigger"}
  Contents <- MCContents
  ObservedSeverities = {}
  Instants = {1}
  ClockMayStepBack = FALSE
  MaxBatch = 1
  MaxVersion = 15
  MaxAssets = 1
  MaxTests = 3
  MaxDefects = 2
  MaxEvidence = 2
  Nil = Nil
CHECK_DEADLOCK FALSE
INVARIANTS
  Reloadable
  FailureStaysVisible
  ReleaseEarned
  EveryCommandStored
  ViewValid
