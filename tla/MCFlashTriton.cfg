SPECIFICATION GridSpec
CONSTANTS
  Configs <- MCConfigs
  Heads = 2
  MaxSeq = 5
  Score <- MCScore
  NegInf = NegInf
  NaN = NaN
  NotStored = NotStored
  Sentinel <- MCSentinel
  Under = 5
INVARIANTS GridTypeOK GridRowsCorrect
PROPERTY LanesImplementOnline
