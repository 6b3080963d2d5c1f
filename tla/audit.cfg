CONSTANTS
  w1 = w1
  w2 = w2
  Writers = {w1, w2}
  MaxSeq = 2
  MaxRuns = 2
  MaxClock = 3
SPECIFICATION FairSpec
CHECK_DEADLOCK FALSE
INVARIANTS
  UniqueLabels
  AckedInOnePiece
  RealTimeOrder
PROPERTIES
  RecordReturns
