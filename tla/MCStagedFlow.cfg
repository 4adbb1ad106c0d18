SPECIFICATION Spec
CONSTANTS
  None = None
  Off = Off
  Projects <- MCProjects
  LogicSites <- MCLogicSites
  RamSites <- MCRamSites
INVARIANTS
  StagedProgramMatches
  DecisionsAgree
