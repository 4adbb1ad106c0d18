CONSTANTS
  Netlists <- SmallNetlists
  LutSize = 4
  SiteInputs = 4
  NoDriver = NoDriver
  NoInit = NoInit
  None = None
  CellCount = 10
  Kind <- MCKind
  k1 = k1
  k2 = k2
  ControlSets = {k1, k2}
  Designs <- MCDesigns
SPECIFICATION PartsSpec
INVARIANTS
  DesignKept
  ClustersFitSlice
  PackingComplete
