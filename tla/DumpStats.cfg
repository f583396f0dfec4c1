SPECIFICATION DumpSpec
CONSTANTS
  cpu1 = cpu1
  cpu2 = cpu2
  elephant = elephant
  NoFlow = NoFlow
  None = None
  CPUs <- MCCPUs
  Flows <- MCFlows
  Depth = 1
  Cols <- MCCols
  Hash <- MCHash
  CellBits = 4
  Lens = {1}
  Rate = 1
  Burst = 1
  Edt = TRUE
  Micro = 1
  PerSecond = 1
  PaceBits = 1
  MaxEdtDelay = 1
  Word = 4096
  Threshold = 0
  Interval = 1
  Skew = 0
  MaxClock = 0
  MaxPackets = 3
  Live = "egress"
  ValueBytes = 32
  BufferBytes = 24
SYMMETRY CPUSymmetry
INVARIANTS
  DumpShowsTheCounters
CHECK_DEADLOCK FALSE
