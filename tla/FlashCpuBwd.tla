---------------------------- MODULE FlashCpuBwd ----------------------------
(***************************************************************************)
(* attention_flash_cpu_bwd (src/flash_cpu_bwd.cpp): the rows of all heads  *)
(* one after the other, each streaming through the tiles of TILE_N keys    *)
(* again, with P recomputed from the row's saved lse and D from its O and  *)
(* dO. The gradients are accumulated in place, dK and dV across rows.      *)
(* s, p, ds and the products are functions of the pair of rows.            *)
(***************************************************************************)
EXTENDS Gradients

CONSTANTS TILE_N,       \* keys of a tile
          Heads         \* batch * heads

ASSUME FlashCpuBwdAssumption ==
  TILE_N \in Nat \ {0} /\ Heads \in Nat /\ MaxSeq \in Nat

VARIABLES seq, causal,  \* the call
          h, t,         \* the loops over heads and rows
          j0, j,        \* the loops over tiles and keys
          dQ, dKV       \* the gradients, by row

vars == <<seq, causal, h, t, j0, j, dQ, dKV>>

row(i, r) == i * seq + r
Elements == 0 .. Heads * MaxSeq - 1

(* dQ.assign, dK.assign and dV.assign clear the caller's arrays.           *)
Init ==
  /\ seq \in 0 .. MaxSeq /\ causal \in BOOLEAN
  /\ h = 0 /\ t = 0 /\ j0 = 0 /\ j = 0
  /\ dQ = [e \in Elements |-> <<>>]
  /\ dKV = [e \in Elements |-> <<>>]

jn_Full == TILE_N                                          \* mutant
jn == IF seq - j0 < TILE_N THEN seq - j0 ELSE TILE_N

(* The two breaks.                                                         *)
TilesDone_Early == j0 >= seq \/ (causal /\ j0 >= t)        \* mutant
KeysDone_NoMask == j >= jn                                 \* mutant
TilesDone == j0 >= seq \/ (causal /\ j0 > t)
KeysDone == j >= jn \/ (causal /\ j0 + j > t)

InRow == h < Heads /\ t < seq

Key ==
  /\ InRow /\ ~TilesDone /\ ~KeysDone
  /\ dQ' = [dQ EXCEPT ![row(h, t)] = Append(@, row(h, j0 + j))]
  /\ dKV' = [dKV EXCEPT ![row(h, j0 + j)] = Append(@, row(h, t))]
  /\ j' = j + 1
  /\ UNCHANGED <<seq, causal, h, t, j0>>

NextTile ==
  /\ InRow /\ ~TilesDone /\ KeysDone
  /\ j0' = j0 + TILE_N /\ j' = 0
  /\ UNCHANGED <<seq, causal, h, t, dQ, dKV>>

NextRow ==
  /\ InRow /\ TilesDone
  /\ t' = t + 1 /\ j0' = 0 /\ j' = 0
  /\ UNCHANGED <<seq, causal, h, dQ, dKV>>

NextHead ==
  /\ h < Heads /\ t >= seq
  /\ h' = h + 1 /\ t' = 0
  /\ UNCHANGED <<seq, causal, j0, j, dQ, dKV>>

Finished == h >= Heads /\ UNCHANGED vars

Next == Key \/ NextTile \/ NextRow \/ NextHead \/ Finished

Spec == Init /\ [][Next]_vars
-----------------------------------------------------------------------------
(* The keys of the current row behind the loops: a tile that is skipped    *)
(* and the masked rest of one count for nothing.                           *)
Progress == LET k == kmax(t, seq, causal) IN IF j0 + j < k THEN j0 + j ELSE k

(* Types; the rows read and written are rows of the call.                  *)
TypeOK ==
  /\ seq \in 0 .. MaxSeq /\ causal \in BOOLEAN
  /\ h \in 0 .. Heads /\ t \in 0 .. seq
  /\ j0 \in 0 .. seq + TILE_N /\ j \in 0 .. TILE_N
  /\ InRow /\ ~TilesDone /\ ~KeysDone => j0 + j < seq
  /\ dQ \in [Elements -> Seq(Elements)]
  /\ dKV \in [Elements -> Seq(Elements)]

(* The terms of a sum, rows of head i, as rows of the whole tensor.        *)
InHead(i, s) == [n \in DOMAIN s |-> row(i, s[n])]

(* At every point, dQ of a row behind the loops is the sum over the keys   *)
(* it sees, and dK and dV of a key the sum over the queries that see it    *)
(* behind the loops: in ascending order, none skipped at the edge of a     *)
(* tile or at the diagonal, none twice, none of another head.              *)
SumsExact ==
  \A i \in 0 .. Heads - 1, r \in 0 .. seq - 1 :
    LET keys == IF i < h \/ (i = h /\ r < t) THEN kmax(r, seq, causal)
                ELSE IF i = h /\ r = t THEN Progress ELSE 0
        queries == IF i < h THEN seq
                   ELSE IF i > h THEN 0
                   ELSE IF t < seq /\ r < Progress THEN t + 1 ELSE t
    IN  /\ dQ[row(i, r)] = InHead(i, Ascending(0, keys))
        /\ dKV[row(i, r)] = InHead(i, Ascending(FirstQuery(r, causal), queries))

(* Tile by tile, the loops are those of the reference.                     *)
Reference == INSTANCE GradientSum WITH j <- IF InRow THEN Progress ELSE 0

ImplementsReference == Reference!Spec
=============================================================================
