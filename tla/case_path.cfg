SPECIFICATION Spec
CONSTANTS
  CaseNumbers <- MCCaseNumbers
  DefectIds = {"defect"}
  Nil = Nil
CHECK_DEADLOCK FALSE
INVARIANT
  ServesNoOtherCase
