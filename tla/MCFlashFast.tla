---------------------------- MODULE MCFlashFast ----------------------------
(* A small instance of FlashFast; scores rise, fall and tie along a row.   *)
(* The threads are interchangeable.                                        *)
EXTENDS FlashFast, TLC

MCScore == [i \in 0 .. Heads - 1 |->
             [r \in 0 .. MaxSeq - 1 |-> [k \in 0 .. MaxSeq - 1 |->
               ((i + r * 2 + k * 3) % 5) * 2 - 4]]]

MCSentinel == -100

Symmetry == Permutations(Threads)
=============================================================================
