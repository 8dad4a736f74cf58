----------------------------- MODULE MCAutograd -----------------------------
(* Calls on one stream or on two, with memory to reuse.                    *)
EXTENDS Autograd, TLC

MCBlocks == 1 .. 7
Symmetry == Permutations(Calls) \cup Permutations(Streams)
=============================================================================
