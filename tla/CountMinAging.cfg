SPECIFICATION Spec
CONSTANTS
  cpu1 = cpu1
  cpu2 = cpu2
  elephant = elephant
  mouse = mouse
  NoFlow = NoFlow
  CPUs <- MCOneCPU
  Flows <- MCFlows
  Depth = 2
  Cols <- MCCols
  Hash <- MCHash
  Lens = {1, 3}
  CellBits = 4
  IdxLag = 0
  MaxIdx = 5
  MaxPackets = 4
INVARIANTS
  EstimateCoversFlow
PROPERTIES
  ImplementsEager
CHECK_DEADLOCK FALSE
