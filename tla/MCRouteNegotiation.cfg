CONSTANTS
    a = a
    b = b
    k = k
    u = u
    none = none
    nobody = nobody
    noimage = noimage
    ra = ra
    rb = rb
    rk = rk
    m = m
    w = w
    d = d
    e = e
    ga = ga
    ha = ha
    gb = gb
    gk = gk
    Nets <- MCNets
    Node <- MCNode
    OccupancyKey <- MCKey
    LocalArc <- MCLocalArc
    StitchArc <- MCStitchArc
    Paths <- MCPaths
    NetOrder <- MCOrder
    Roots <- MCRoots
    SinkGroups <- MCSinks
    Escapes <- MCEscapes
    DedicatedClock <- MCDedicatedClock
    ClockSink <- MCClockSink
    BlockRamClockSink <- MCClockSink
    ClockRoute <- MCClockRoute
    DedicatedClockWire <- MCDedicatedClockWire
    SyntheticGclk <- MCSynthetic
    Routed <- MCRouted
    NoWire = none
    NoNet = nobody
    NoImage = noimage
    MaxPasses = 3
    FactorCap = 8
SPECIFICATION Spec
INVARIANTS
    KeptRoutesLegal
    ClaimsMatchRoutes
    RoutesAreTrees
    BlockedWiresAvoided
    NegotiationFailuresAreStructural
PROPERTIES
    OnlyContestedRoutesDropped
    DeliversLegalRouting
