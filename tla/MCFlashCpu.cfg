SPECIFICATION Spec
CONSTANTS
  TILE_N = 3
  Heads = 2
  MaxSeq = 7
  Score <- MCScore
  Junk = 50
  NotStored = NotStored
  Sentinel <- MCSentinel
  Under = 5
INVARIANTS TypeOK RowsCorrect
PROPERTIES ImplementsOnline
