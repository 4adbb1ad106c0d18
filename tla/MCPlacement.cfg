CONSTANTS
  LogicClusters <- MCLogicClusters
  BramClusters <- MCBramClusters
  Fixed <- MCFixed
  LogicSites <- MCLogicSites
  BramSites <- MCBramSites
  SlicesPerTile = 2
  Requests <- MCRequests
  FocusOrder <- MCFocusOrder
  None = None
  Cost <- MCCost
  Iterations = 4
  MinCompletion = 2
  StallLimit = 1
  PassLimit = 2
  Absent = Absent
  c1 = c1
  c2 = c2
  c3 = c3
  n1 = n1
  n2 = n2
  n3 = n3
  Width = 3
  GridClusters <- MCClusters
  Nets <- MCNets
  Driver <- MCDriver
  Sinks <- MCSinks
  Neighbors <- MCNeighbors
  Points <- MCPoints
  WireCost <- MCWireCost
  TimingCost <- MCTimingCost
  CellLoad <- MCCellLoad
  OverflowScore <- MCOverflowScore
  LocalityCost <- MCLocalityCost
SPECIFICATION PartsSpec
INVARIANTS
    PlacementLegal
    StateCurrent
    EvaluatorTrue
    FailsOnlyIfInfeasible
    NoCheaperRamSite
PROPERTIES
    NeverWorse
