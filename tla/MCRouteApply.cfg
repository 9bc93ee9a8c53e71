SPECIFICATION Spec
CONSTANTS
  p1 = p1
  p2 = p2
  gw = gw
  Routes <- MCRoutes
  Gateway = gw
  Metrics = {0, 100}
  Tables <- MCTables
  Policies = {"takeover", "fail", "skip"}
INVARIANTS
  OthersUntouched
  UpMeansRouted
  ChecklistComplete
PROPERTIES
  NothingBesideLive
  KeepsPromise
