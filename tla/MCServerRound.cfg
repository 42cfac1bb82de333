SPECIFICATION ServerSpec
CONSTANTS
    c1 = c1
    c2 = c2
    Clients <- MCClients
    InitialVersions = {0, 2}
    MaxCalls = 3
SYMMETRY MCSymmetry
CHECK_DEADLOCK FALSE
INVARIANTS
    ServerTypeOK
    HistoryIsLineage
    WeightsFollowVersion
PROPERTIES
    RefusedForever
