CONSTANTS
  w1 = w1
  w2 = w2
  Workers = {w1, w2}
  Reasons <- TwoReasons
  MaxItems = 3
  MaxScrapes = 2
SPECIFICATION MetricsSpec
SYMMETRY Sym
CHECK_DEADLOCK FALSE
INVARIANTS
  BreakdownTracksTotal
  ScrapeLagBounded
