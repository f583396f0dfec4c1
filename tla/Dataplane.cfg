SPECIFICATION Spec
CONSTANTS
  cpu1 = cpu1
  cpu2 = cpu2
  elephant = elephant
  mouse = mouse
  NoFlow = NoFlow
  None = None
  Cols <- MCCols
  CellBits = 4
  Micro = 1
  PerSecond = 2
  PaceBits = 1
  Word = 4096
  CPUs <- MCCPUs
  Flows <- MCFlows
  Depth = 2
  Hash <- MCSharedHash
  Lens = {1, 3}
  Rate = 3
  Burst = 1
  Edt = TRUE
  MaxEdtDelay = 3
  Threshold = 1
  Interval = 2
  Skew = 0
  MaxClock = 2
  MaxPackets = 2
INVARIANTS
  OneOwner
  MiceAreNeverCharged
  StatsBalance
PROPERTIES
  DrivesBucket
  DrivesSketch
  EveryPacketGetsVerdict
CHECK_DEADLOCK FALSE
