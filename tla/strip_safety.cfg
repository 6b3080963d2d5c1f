CONSTANTS
  MaxPieces = 5
SPECIFICATION StripSpec
CHECK_DEADLOCK FALSE
INVARIANTS
  HeaderClean
  PixelsKept
  OkMeansWhole
