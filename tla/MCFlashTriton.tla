--------------------------- MODULE MCFlashTriton ---------------------------
(* A small instance of FlashTriton: tiles of keys as tall as those of rows *)
(* and half as tall, so that some are masked whole for the earlier rows.   *)
EXTENDS FlashTriton

MCConfigs == {[m |-> 4, n |-> 2], [m |-> 3, n |-> 3]}

MCScore == [h \in 0 .. Heads - 1 |->
             [t \in 0 .. MaxSeq - 1 |-> [k \in 0 .. MaxSeq - 1 |->
               ((h + t * 2 + k * 3) % 5) * 2 - 4]]]

MCSentinel == -100
=============================================================================
