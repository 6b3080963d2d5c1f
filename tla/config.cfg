CONSTANTS
  MaxInt = 7
  DefaultPool = 2
  DefaultMaxBytes = 3
  DefaultMaxPixels = 4
  DefaultCeiling = 6
  Families <- SomeFamilies
  Paths <- CleanPaths
SPECIFICATION Spec
CHECK_DEADLOCK FALSE
INVARIANTS
  TidyLongestSegmentWins
  OrderIndependent
  SettingsFollowRoute
  CeilingExact
