CONSTANTS
  MaxInt = 3
  MaxParts = 3
  Sizes = {0, 1, 2, 3}
  Caps = {1, 2}
SPECIFICATION Spec
CHECK_DEADLOCK FALSE
INVARIANTS
  WholeOrRefused
  PartsInPlace
  AnswerIsFirstFailure
