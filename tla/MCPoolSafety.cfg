SPECIFICATION Spec
CONSTANTS
  Workers = {w1, w2, w3}
  Caller = main
  NoOne = NoOne
  MaxN = 5
  MinChunks = {0, 2}
  MaxCalls = 2
SYMMETRY Symmetry
INVARIANTS TypeOK ExactlyOnce NoOverlap FnAlive ActiveCount NoLostWakeup
PROPERTIES JobStable ImplementsParallelFor
