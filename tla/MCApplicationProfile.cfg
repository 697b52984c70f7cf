SPECIFICATION Spec
CONSTANTS
  Requests = {r1, r2}
  r1 = r1
  r2 = r2
  NoOne = NoOne
  Asks <- SmallAsks
  FirstRoutes <- SmallRoutes
  LateRoutes <- SmallLateRoutes
  Configs <- AllOn
  MaxTargets = 2
  Depth = 2
INVARIANT ProfileOnlyWatches
