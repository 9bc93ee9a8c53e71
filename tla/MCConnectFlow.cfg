SPECIFICATION Spec
CONSTANTS
    g1 = g1
    g2 = g2
    stray = stray
    NoGateway = NoGateway
    Gateways <- MCGateways
    Options <- MCOptions
    Strays <- MCStrays
INVARIANTS
    SessionBelongsTogether
PROPERTIES
    PeopleAreLeftAlone
    AdaptersInUseSpared
    StallsAreTold
CHECK_DEADLOCK FALSE
