SPECIFICATION Spec
CONSTANTS
  cpu1 = cpu1
  cpu2 = cpu2
  None = None
  CPUs <- MCCPUs
  Lens = {2, 6, 7}
  Rate = 11
  Burst = 6
  Edt = TRUE
  Micro = 2
  PerSecond = 2
  PaceBits = 1
  MaxEdtDelay = 3
  Word = 32
  Skew = 1
  MaxClock = 6
  MaxPackets = 3
SYMMETRY CPUSymmetry
INVARIANTS
  TypeOK
  RateCap
  DeparturesSpaced
  QueueDepthBounded
PROPERTIES
  ImplementsContract
CHECK_DEADLOCK FALSE
