---------------------------- MODULE OnlineSoftmax ----------------------------
(***************************************************************************)
(* What every streaming implementation of a row promises: after folding    *)
(* the keys of a set, in whatever portions, its running m, l and acc are   *)
(* the softmax of src/reference.cpp over exactly that set; and it stores   *)
(* its result once, when that set is all the keys the row attends to.      *)
(***************************************************************************)
EXTENDS Softmax

CONSTANTS NotStored     \* the output has not been written

VARIABLES score,        \* the row's scores, fixed
          visible,      \* the keys the row attends to, fixed
          folded,       \* the keys folded in so far
          m, l, acc,    \* the running statistics
          out           \* what has been stored

vars == <<score, visible, folded, m, l, acc, out>>

Init ==
  /\ folded = {}
  /\ m = Sentinel
  /\ l = {} /\ acc = {}
  /\ out = NotStored

Fold(S) ==
  /\ out = NotStored
  /\ S # {} /\ S \subseteq visible \ folded
  /\ folded' = folded \cup S
  /\ IsMax(m', score, folded')
  /\ l' = Weights(score, folded', m')
  /\ acc' = l'
  /\ UNCHANGED <<score, visible, out>>

Store ==
  /\ out = NotStored
  /\ folded = visible
  /\ out' = Result(acc, l, m)
  /\ UNCHANGED <<score, visible, folded, m, l, acc>>

FoldSome == \E S \in SUBSET (visible \ folded) : Fold(S)

Next == FoldSome \/ Store

Spec == Init /\ [][Next]_vars
=============================================================================
