SPECIFICATION Spec
CONSTANTS
  None = None
  Off = Off
  Projects <- MCFanout
  LogicSites <- MCLogicSites
  RamSites <- MCRamSites
INVARIANT UnpairedDataRouted
