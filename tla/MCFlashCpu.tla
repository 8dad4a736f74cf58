----------------------------- MODULE MCFlashCpu -----------------------------
(* A small instance of FlashCpu: the scores of a row rise, fall and tie,   *)
(* within and across tiles, and the junk in p would win every maximum.     *)
EXTENDS FlashCpu

MCScore == [i \in 0 .. Heads - 1 |->
             [r \in 0 .. MaxSeq - 1 |-> [k \in 0 .. MaxSeq - 1 |->
               ((i + r * 2 + k * 3) % 5) * 2 - 4]]]

MCSentinel == -100
=============================================================================
