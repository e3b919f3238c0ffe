SPECIFICATION Spec
CONSTANTS
  Actors <- MCActors
  NormalizeText <- MCNormalizeText
  FoldName <- MCFoldName
  RawCodes <- MCRawCodes
  NormalizeCode <- MCNormalizeCode
  Loads = {0, 100}
  TestKinds = {"brake_distance"}
  Contents <- MCContents
  ObservedSeverities = {}
  Instants = {1, 2}
  ClockMayStepBack = FALSE
  MaxBatch = 2
  MaxVersion = 10
  MaxAssets = 2
  MaxTests = 3
  MaxDefects = 1
  MaxEvidence = 1
  Nil = Nil
CHECK_DEADLOCK FALSE
INVARIANTS
  TypeOK
  Reloadable
  ApproverIndependent
