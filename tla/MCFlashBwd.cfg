SPECIFICATION BlockSpec
CONSTANTS
  BLOCK_M = 4
  BLOCK_N = 2
  WARP = 4
  DIM4 = 2
  MaxSeq = 5
  NotStored = NotStored
INVARIANTS BlockTypeOK NoTileRace Converge GradientsCorrect
