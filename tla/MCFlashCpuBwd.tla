--------------------------- MODULE MCFlashCpuBwd ---------------------------
(* A small instance of FlashCpuBwd: sizes below, at and above one tile.    *)
EXTENDS FlashCpuBwd
=============================================================================
