SPECIFICATION Spec
CONSTANTS
  Layers = 2
  Heads = 2
  KvHeads = 2
  SeqLen = 6
  Piece <- MCPiece
  Merit <- MCMerit
  Floor <- MCFloor
  Texts <- MCTexts
  Samples <- MCSamples
  MaxSteps = 3
  Dot <- MCDot
  NoRow = NoRow
  Sentinel <- MCSentinel
  Under = 5
INVARIANTS TypeOK CacheLayout SampledFromText TextPrinted
