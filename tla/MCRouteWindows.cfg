SPECIFICATION WindowsSpec
CONSTANTS
  p1 = "p1"
  p2 = "p2"
  Routes <- MCRoutes
  Neighbours <- MCNeighbours
  MaxSessions = 2
INVARIANTS
  UpMeansSeen
  Accounted
PROPERTIES
  NothingBesideLive
  OthersUntouched
  KeepsPromise
