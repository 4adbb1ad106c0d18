CONSTANTS
    root = root
    tap = tap
    leaf = leaf
    s1 = s1
    s2 = s2
    g = g
    early = early
    SearchNode <- MCSearchNode
    RouteNode <- MCWire
    RouteNodeOf <- MCRouteNodeOf
    TreeNodes <- MCTree
    Roots = {root}
    Problems <- MCProblems
    NoNode = none
    clk1 = clk1
    clk2 = clk2
    net1 = net1
    net2 = net2
    w1 = w1
    w2 = w2
    w3 = w3
    none = none
    nobody = nobody
    Nets <- MCNets
    SyntheticGclk <- MCSynthetic
    Node <- MCNode
    OccupancyKey <- MCOccupancyKey
    LocalArc <- MCLocalArc
    Paths <- MCPaths
    NoWire = none
    NoNet = nobody
    Tiles <- MCTiles
    GuidedNets <- MCGuidedNets
    Entries <- MCEntries
    Capacity = 8
    Nothing = Nothing
    EscapeNets <- MCEscapeNets
    Exits <- MCExits
    RequestLists <- MCRequestLists
    Nobody = nobody
SPECIFICATION PartsSpec
INVARIANTS
    ParentsAcyclic
    FoundPathLegal
    NothingMissed
    IndexInverse
    OveruseIsConflict
    BlockedIsExact
    GuidesHold
    AttemptsWiden
    ReservationsComplete
PROPERTIES
    Returns
    ClaimsAreImmutable
    ImplementsQueue
