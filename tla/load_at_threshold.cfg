SPECIFICATION Spec
CONSTANT
  MaxTens = 30
CHECK_DEADLOCK FALSE
INVARIANT
  EnoughPasses
