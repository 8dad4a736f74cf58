SPECIFICATION FairSpec
CONSTANTS
  BLOCK_M = 4
  BLOCK_N = 2
  WARP = 4
  DIM4 = 2
  MaxSeq = 5
  Calls <- MCCalls
  Score <- MCScore
  Garbage = 50
  NotStored = NotStored
  Sentinel <- MCSentinel
  Under = 5
INVARIANTS TypeOK NoTileRace Converge RowsCorrect
PROPERTIES ImplementsOnline Terminates
