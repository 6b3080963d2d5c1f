CONSTANTS
  c1 = c1
  c2 = c2
  c3 = c3
  d1 = d1
  d2 = d2
  Callers = {c1, c2, c3}
  Drainers = {d1, d2}
  Size = 2
  HasTimeout = TRUE
SPECIFICATION RunSpec
INVARIANTS
  SlotAccounting
  BoundedConcurrency
  DrainNilMeansQuiet
PROPERTIES
  ClosedAdmitsNoJob
  ImplementsSlotPool
  AcquireReturns
  DrainReturns
