SPECIFICATION Spec
CONSTANTS
  Calls = {c1, c2}
  Streams = {s1, s2}
  Blocks <- MCBlocks
  Wrong = Wrong
SYMMETRY Symmetry
INVARIANT ContractSuffices
