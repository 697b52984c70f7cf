SPECIFICATION FairSpec
CONSTANTS
  Requests = {r1, r2}
  r1 = r1
  r2 = r2
  NoOne = NoOne
  Asks <- SmallAsks
  FirstRoutes <- SmallRoutes
  LateRoutes <- SmallLateRoutes
  Configs <- SmallConfigs
  MaxTargets = 1
  Depth = 2
INVARIANTS TypeOK ComponentKeysKept OneProfile
PROPERTIES ResultsReachTheClient RoutesStay EveryRequestAnswered
