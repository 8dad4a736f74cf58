SPECIFICATION FairSpec
CONSTANTS
  Workers = {w1, w2}
  Caller = main
  NoOne = NoOne
  MaxN = 3
  MinChunks = {1}
  MaxCalls = 2
PROPERTIES CallReturns ShutdownCompletes
