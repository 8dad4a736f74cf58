------------------------------ MODULE FlashCpu ------------------------------
(***************************************************************************)
(* attention_flash_cpu (src/flash_cpu.cpp): the rows of all heads one      *)
(* after the other, each streaming through tiles of TILE_N keys. A tile is *)
(* one step: its scores into p with their maximum mt, the rescaling by     *)
(* corr, and the folding of every key of the tile, the masked ones too.    *)
(* The buffers p and acc and the statistics are shared by all rows.        *)
(***************************************************************************)
EXTENDS Scores

CONSTANTS TILE_N,       \* keys of a tile
          Junk          \* what an element of p holds before it is assigned

ASSUME FlashCpuAssumption ==
  /\ TILE_N \in Nat \ {0} /\ Heads \in Nat /\ MaxSeq \in Nat /\ Junk \in Int
  /\ Sentinel \in Int /\ Under \in Nat
  /\ Score \in [0 .. Heads - 1 -> [0 .. MaxSeq - 1 -> [0 .. MaxSeq - 1 -> Int]]]
  /\ \A i \in 0 .. Heads - 1, r, k \in 0 .. MaxSeq - 1 :
       Vanishes(Sentinel - Score[i][r][k])

VARIABLES seq, causal,  \* the call
          h, t,         \* the loops over heads and rows
          j0,           \* the loop over tiles
          p,            \* scores of a tile
          m, l, acc,    \* the row's running statistics
          O             \* O[h][t]: the row stored, its lse with it

vars == <<seq, causal, h, t, j0, p, m, l, acc, O>>

Rows == 0 .. MaxSeq - 1
jn == IF seq - j0 < TILE_N THEN seq - j0 ELSE TILE_N
Masked(j) == causal /\ j0 + j > t

Init ==
  /\ seq \in 0 .. MaxSeq /\ causal \in BOOLEAN
  /\ h = 0 /\ t = 0 /\ j0 = 0
  /\ p = [j \in 0 .. TILE_N - 1 |-> Junk]
  /\ m = Sentinel /\ l = {} /\ acc = {}
  /\ O = [i \in 0 .. Heads - 1 |-> [r \in Rows |-> NotStored]]
-----------------------------------------------------------------------------
(* Mutant: a masked key is skipped without overwriting p.                  *)
TileScores_Skip ==
  [j \in 0 .. TILE_N - 1 |->
     IF j < jn /\ ~Masked(j) THEN Score[h][t][j0 + j] ELSE p[j]]

TileScores ==
  [j \in 0 .. TILE_N - 1 |->
     IF j >= jn THEN p[j]
     ELSE IF Masked(j) THEN Sentinel ELSE Score[h][t][j0 + j]]

(* mt: the maximum of the tile's unmasked scores, if above the sentinel.   *)
IsTileMax(mt) ==
  LET seen == {p'[j] : j \in {i \in 0 .. jn - 1 : ~Masked(i)}}
  IN  /\ mt \in seen \cup {Sentinel}
      /\ \A s \in seen \cup {Sentinel} : s <= mt

(* Mutant: the tile maximum replaces the running one.                      *)
NewMax_Tile(mt) == mt
NewMax(mt) == IF m > mt THEN m ELSE mt

FoldTile ==
  \E mt \in {p'[j] : j \in 0 .. TILE_N - 1} \cup {Sentinel} :
    LET mn   == NewMax(mt)
        tile == UNION {Weight(j0 + j, p'[j] - mn) : j \in 0 .. jn - 1}
    IN  /\ IsTileMax(mt)
        /\ l' = Decay(l, m - mn) \cup tile
        /\ acc' = Decay(acc, m - mn) \cup tile
        /\ m' = mn

Skipped_NoEnd == causal /\ j0 > t                          \* mutant
Skipped == j0 >= seq \/ (causal /\ j0 > t)

NextTile == j0 + TILE_N

Tile ==
  /\ h < Heads /\ t < seq /\ ~Skipped
  /\ p' = TileScores
  /\ FoldTile
  /\ j0' = NextTile
  /\ UNCHANGED <<seq, causal, h, t, O>>

(* The row is stored; the next one starts from fresh statistics.           *)
Store ==
  /\ h < Heads /\ t < seq /\ Skipped
  /\ O' = [O EXCEPT ![h][t] = Result(acc, l, m)]
  /\ t' = t + 1
  /\ j0' = 0 /\ m' = Sentinel /\ l' = {} /\ acc' = {}
  /\ UNCHANGED <<seq, causal, h, p>>

NextHead ==
  /\ h < Heads /\ t >= seq
  /\ h' = h + 1 /\ t' = 0
  /\ UNCHANGED <<seq, causal, j0, p, m, l, acc, O>>

Finished == h >= Heads /\ UNCHANGED vars

Next == Tile \/ Store \/ NextHead \/ Finished

Spec == Init /\ [][Next]_vars
-----------------------------------------------------------------------------
(* Types; the loop counters stay in range.                                 *)
TypeOK ==
  /\ seq \in 0 .. MaxSeq /\ causal \in BOOLEAN
  /\ h \in 0 .. Heads /\ t \in 0 .. seq /\ j0 \in Nat
  /\ j0 < seq + TILE_N
  /\ p \in [0 .. TILE_N - 1 -> Int]
  /\ m \in Int

RowKeys(r) == Visible(r, seq, causal)
Stored(i, r) == i < h \/ (i = h /\ r < t)

(* What the two-pass reference stores for row r of head i.                 *)
IsReference(i, r, o) ==
  /\ IsMax(o.max, Score[i][r], RowKeys(r))
  /\ o.num = Weights(Score[i][r], RowKeys(r), o.max)
  /\ o.den = Weights(Score[i][r], RowKeys(r), o.max)

(* Every row behind the loops has been stored, as the reference softmax of *)
(* that row, and no row ahead of them has: nothing of a previous tile, row *)
(* or head is left in p, m, l or acc, and no key is missing or added.      *)
RowsCorrect ==
  \A i \in 0 .. Heads - 1, r \in 0 .. seq - 1 :
    IF Stored(i, r) THEN IsReference(i, r, O[i][r]) ELSE O[i][r] = NotStored

(* Each row is a streaming softmax over its visible keys.                  *)
Online(i, r) == INSTANCE OnlineSoftmax WITH
  score <- Score[i][r],
  visible <- RowKeys(r),
  folded <- IF Stored(i, r) THEN RowKeys(r)
            ELSE IF h = i /\ t = r THEN {k \in RowKeys(r) : k < j0} ELSE {},
  m <- IF Stored(i, r) THEN O[i][r].max
       ELSE IF h = i /\ t = r THEN m ELSE Sentinel,
  l <- IF Stored(i, r) THEN O[i][r].den
       ELSE IF h = i /\ t = r THEN l ELSE {},
  acc <- IF Stored(i, r) THEN O[i][r].num
         ELSE IF h = i /\ t = r THEN acc ELSE {},
  out <- O[i][r]

ImplementsOnline ==
  /\ \A i \in 0 .. Heads - 1, r \in 0 .. seq - 1 : Online(i, r)!Init
  /\ [][\A i \in 0 .. Heads - 1, r \in 0 .. seq - 1 :
          [Online(i, r)!Next]_(Online(i, r)!vars)]_vars
=============================================================================
