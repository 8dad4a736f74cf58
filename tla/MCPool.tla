------------------------------- MODULE MCPool -------------------------------
(* Model-checking instances of Pool: the threads are model values that     *)
(* MCPool*.cfg name; the workers are interchangeable.                      *)
EXTENDS Pool, TLC

Symmetry == Permutations(Workers)
=============================================================================
