SPECIFICATION Spec
CONSTANTS
  Actors <- MCTwoSpaces
  NormalizeText <- MCNormalizeText
  FoldName <- MCFoldName
  RawCodes <- MCOneCode
  NormalizeCode <- MCNormalizeCode
  Loads = {100}
  TestKinds = {"brake_distance"}
  Contents <- MCContents
  ObservedSeverities = {}
  Instants = {1}
  ClockMayStepBack = FALSE
  MaxBatch = 1
  MaxVersion = 14
  MaxAssets = 1
  MaxTests = 3
  MaxDefects = 1
  MaxEvidence = 1
  Nil = Nil
CHECK_DEADLOCK FALSE
INVARIANT
  SomeoneIndependent
