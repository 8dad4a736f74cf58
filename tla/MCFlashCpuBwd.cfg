SPECIFICATION Spec
CONSTANTS
  TILE_N = 3
  Heads = 2
  MaxSeq = 7
INVARIANTS TypeOK SumsExact
PROPERTIES ImplementsReference
