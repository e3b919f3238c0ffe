SPECIFICATION Spec
CONSTANTS
  Actors <- MCTwoPeople
  NormalizeText <- MCNormalizeText
  FoldName <- MCFoldName
  RawCodes <- MCOneCode
  NormalizeCode <- MCNormalizeCode
  Loads = {100}
  TestKinds = {"brake_distance"}
  Contents <- MCContents
  ObservedSeverities = {"minor"}
  Instants = {1}
  ClockMayStepBack = FALSE
  MaxBatch = 1
  MaxVersion = 17
  MaxAssets = 1
  MaxTests = 3
  MaxDefects = 2
  MaxEvidence = 2
  Nil = Nil
CHECK_DEADLOCK FALSE
INVARIANTS
  ReviewCanFinish
  ReleaseEarned
  JudgedOnce
PROPERTIES
  HistoryAppendOnly
  KeepsLifecycle
