SPECIFICATION Spec
CONSTANTS
  Actors <- MCTwoPeople
  NormalizeText <- MCNormalizeText
  FoldName <- MCFoldName
  RawCodes <- MCOneCode
  NormalizeCode <- MCNormalizeCode
  Loads = {100}
  TestKinds = {"brake_distance"}
  Contents <- MCContents
  ObservedSeverities = {}
  Instants = {1, 2}
  ClockMayStepBack = TRUE
  MaxBatch = 1
  MaxVersion = 6
  MaxAssets = 1
  MaxTests = 2
  MaxDefects = 1
  MaxEvidence = 1
  Nil = Nil
CHECK_DEADLOCK FALSE
INVARIANT
  Reloadable
