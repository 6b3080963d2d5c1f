CONSTANTS
  r1 = r1
  Requests = {r1}
  MaxParts = 2
  PoolSize = 1
  HasTimeout = TRUE
  MaxRegions = 1
  Kinds = {"text", "jpeg"}
  Routes <- BusyRoutes
SPECIFICATION Spec
INVARIANTS
  PeakBuffersBounded
