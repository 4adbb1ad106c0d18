CONSTANTS
  CellCount = 3
  Starts <- MCStarts
  Ends <- MCEnds
  Launch <- MCLaunch
  EndDriver <- MCEndDriver
  CellDelay <- MCCellDelay
  NetDelay <- MCNetDelay
  Requirement <- MCRequirement
  Designs <- MCDesigns
  TimedProjects <- MCTimedProjects
  NoNet = NoNet
SPECIFICATION TimingSpec
INVARIANT
    MetIsComplete
