CONSTANTS
  Netlists <- SmallNetlists
  LutSize = 4
  SiteInputs = 4
  NoDriver = NoDriver
  NoInit = NoInit
SPECIFICATION Spec
INVARIANT
  SitesComputeTheirLuts
CHECK_DEADLOCK FALSE
