CONSTANTS
  r1 = r1
  Requests = {r1}
  MaxParts = 2
  PoolSize = 1
  HasTimeout = TRUE
  MaxRegions = 2
  Kinds = {"text", "jpeg", "png", "gif", "corrupt", "bomb"}
  Routes <- DataRoutes
SPECIFICATION FairSpec
INVARIANTS
  OriginSeesOnlySanitized
  AuditedBeforeForward
  AuditTruthful
  DisconnectNeverFailsOpen
  BlockedMeansNothingSent
  HeaderMatchesAudit
  SlotsAreJobs
PROPERTIES
  RequestsEnd
