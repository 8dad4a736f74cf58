SPECIFICATION Spec
CONSTANTS
  Threads = {x1, x2, x3}
  QBLK = 2
  KBLK = 3
  Heads = 2
  MaxSeq = 5
  Score <- MCScore
  NotStored = NotStored
  Sentinel <- MCSentinel
  Under = 5
SYMMETRY Symmetry
INVARIANTS TypeOK NoSharedRow RowsCorrect
PROPERTY ImplementsParallelFor
