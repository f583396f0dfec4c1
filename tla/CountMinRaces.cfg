SPECIFICATION Spec
CONSTANTS
  cpu1 = cpu1
  cpu2 = cpu2
  elephant = elephant
  mouse = mouse
  NoFlow = NoFlow
  CPUs <- MCCPUs
  Flows <- MCFlows
  Depth = 2
  Cols <- MCCols
  Hash <- MCHash
  Lens = {1, 2}
  CellBits = 4
  IdxLag = 1
  MaxIdx = 1
  MaxPackets = 3
INVARIANTS
  NeverOvercounts
CHECK_DEADLOCK FALSE
