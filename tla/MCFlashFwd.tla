----------------------------- MODULE MCFlashFwd -----------------------------
(* A small instance of FlashFwd: scores that rise, fall and tie along a    *)
(* row, so that the running maximum moves, and far enough apart that some  *)
(* weights underflow.                                                      *)
EXTENDS FlashFwd

MCScore == [t \in 0 .. MaxSeq - 1 |-> [k \in 0 .. MaxSeq - 1 |->
              ((t * 2 + k * 3) % 5) * 2 - 4]]

(* Partial and full tiles, with dead rows in the first block and in the    *)
(* second, with and without lse.                                           *)
MCCalls == {[seq |-> n, causal |-> c, lse |-> (c <=> n = 5)] :
              n \in {3, 5}, c \in BOOLEAN}

MCSentinel == -100
=============================================================================
