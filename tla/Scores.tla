------------------------------- MODULE Scores -------------------------------
(***************************************************************************)
(* What a forward over several heads is given: Score[h][t][k] is the       *)
(* scaled dot product of row t's query and row k's key in head h. The      *)
(* numbers of heads (batch * heads) and rows are bounded.                  *)
(***************************************************************************)
EXTENDS Softmax

CONSTANTS Heads,
          MaxSeq,       \* bound on seq
          Score,
          NotStored     \* an element of the output that was not written
=============================================================================
