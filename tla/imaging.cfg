CONSTANTS
  MaxInt = 15
  CardDigits = {2, 3}
  IbanLengths = {6}
  Families <- SomeFamilies
SPECIFICATION Spec
CHECK_DEADLOCK FALSE
INVARIANTS
  PixelCapExact
  BoxesAreComponents
  MaskCoversRegions
  ChecksumCatchesSlips
