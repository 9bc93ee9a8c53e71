SPECIFICATION Spec
CONSTANTS
  p1 = p1
  p2 = p2
  gw = gw
  Routes <- MCRoutes
  Gateway = gw
  Metrics = {0, 100}
  Tables <- MCMetricTables
  Policies = {"takeover", "fail", "skip"}
INVARIANT AllOrNothing
