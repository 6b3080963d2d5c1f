CONSTANTS
  MaxInt = 3
  MaxParts = 2
  Sizes = {0, 1, 2, 3}
  Caps = {3}
SPECIFICATION Spec
CHECK_DEADLOCK FALSE
INVARIANTS
  WholeOrRefused
