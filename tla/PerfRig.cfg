SPECIFICATION Spec
CONSTANTS
  Substrates = {"k3d", "lima"}
  Rates = {"10M", "1G"}
  Samples = 2
  Profiles <- MCProfiles
  NPods = 2
  Tries = 2
  MaxFaults = 2
INVARIANTS
  TypeOK
  SamplesFitThePhase
  NothingRunsOn
  ReportIsWhole
  LeavesNoCluster
PROPERTIES
  RigEnds
CHECK_DEADLOCK FALSE
