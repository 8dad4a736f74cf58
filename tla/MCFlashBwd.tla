----------------------------- MODULE MCFlashBwd -----------------------------
(* A small instance of FlashBwd: two warps, several blocks and tiles.      *)
EXTENDS FlashBwd
=============================================================================
