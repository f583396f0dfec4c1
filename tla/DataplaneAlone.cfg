SPECIFICATION Spec
CONSTANTS
  cpu1 = cpu1
  cpu2 = cpu2
  elephant = elephant
  mouse = mouse
  NoFlow = NoFlow
  None = None
  Cols <- MCCols
  CellBits = 4
  Micro = 1
  PerSecond = 2
  PaceBits = 1
  Word = 4096
  CPUs <- MCOneCPU
  Flows <- MCFlows
  Depth = 2
  Hash <- MCSharedHash
  Lens = {1, 3}
  Rate = 3
  Burst = 1
  Edt = FALSE
  MaxEdtDelay = 3
  Threshold = 2
  Interval = 2
  Skew = 0
  MaxClock = 4
  MaxPackets = 3
PROPERTIES
  NoElephantPasses
CHECK_DEADLOCK FALSE
