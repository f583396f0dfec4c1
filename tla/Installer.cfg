SPECIFICATION Spec
CONSTANTS
  N = 2
  Chains <- MCChains
  Bandwidth = "bandwidth"
  Envs = {"auto", "off", "typo"}
  Valid = {"auto", "off"}
  Absent = Absent
  Torn = Torn
  NoPlugins = NoPlugins
  MaxWrites = 2
  MaxFaults = 1
  MaxRollouts = 1
INVARIANTS
  TypeOK
  SiblingsAreChained
  DoneMeansChained
PROPERTIES
  NoDetour
  NoIdleReload
  InstallEnds
CHECK_DEADLOCK FALSE
