SPECIFICATION Spec
CONSTANTS
  cpu1 = cpu1
  cpu2 = cpu2
  None = None
  CPUs <- MCOneCPU
  Lens = {1}
  Rate = 4
  Burst = 1
  Edt = TRUE
  Micro = 2
  PerSecond = 2
  PaceBits = 8
  MaxEdtDelay = 20
  Word = 4096
  Skew = 0
  MaxClock = 2
  MaxPackets = 4
PROPERTIES
  PacedAtRate
CHECK_DEADLOCK FALSE
