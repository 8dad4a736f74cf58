----------------------------- MODULE TileProofs -----------------------------
(***************************************************************************)
(* The two forwards that take a tile of keys at once, whole: FlashCpu for  *)
(* one row at a time, FlashTriton for all rows of a program. Both compute  *)
(* the reference softmax of every row, for every size of problem and of    *)
(* tile, and implement OnlineSoftmax.                                      *)
(***************************************************************************)
EXTENDS FlashCpu, FlashTriton, OperatorProofs

(* The keys of the current row in the tiles already folded.                *)
Before == {k \in RowKeys(t) : k < j0}

(* Between tiles the statistics are those of the keys folded so far; at    *)
(* the start of a row, and between heads, there are none.                  *)
Running ==
  IF j0 = 0 THEN m = Sentinel /\ l = {} /\ acc = {}
  ELSE /\ h < Heads /\ t < seq
       /\ IsMax(m, Score[h][t], Before)
       /\ l = Weights(Score[h][t], Before, m) /\ acc = l

(* O has an element for every row of every head.                           *)
OShape == O = [i \in 0 .. Heads - 1 |-> [r \in Rows |-> O[i][r]]]

Inductive == TypeOK /\ OShape /\ RowsCorrect /\ Running

LEMMA ScoreType ==
  ASSUME NEW i \in 0 .. Heads - 1, NEW r \in Rows
  PROVE  \A k \in Rows : Score[i][r][k] \in Int /\ Score[i][r][k] - Sentinel > Under
BY FlashCpuAssumption DEF Vanishes, Rows

LEMMA TileSizes ==
  ASSUME Inductive
  PROVE  /\ Heads \in Nat /\ MaxSeq \in Nat /\ TILE_N \in Nat \ {0}
         /\ Sentinel \in Int /\ Under \in Nat
         /\ seq \in Nat /\ seq <= MaxSeq /\ t \in Nat /\ j0 \in Nat /\ h \in Nat
BY FlashCpuAssumption DEF Inductive, TypeOK

(* The keys of the tile at j0 that the row attends to.                     *)
InTile == {k \in RowKeys(t) : j0 <= k /\ k < j0 + TILE_N}

(* One tile: the new maximum, l and acc are those of the keys folded       *)
(* before together with the visible keys of the tile.                      *)
LEMMA TileStep ==
  ASSUME Inductive, Tile
  PROVE  /\ InTile # {} /\ InTile \subseteq RowKeys(t) \ Before
         /\ Before \cup InTile = {k \in RowKeys(t) : k < j0 + TILE_N}
         /\ h \in 0 .. Heads - 1 /\ t \in 0 .. seq - 1 /\ t \in Rows
         /\ m' \in Int
         /\ IsMax(m', Score[h][t], Before \cup InTile)
         /\ l' = Weights(Score[h][t], Before \cup InTile, m')
         /\ acc' = l'
<1> DEFINE sc == Score[h][t]
<1>1. /\ h \in 0 .. Heads - 1 /\ t \in 0 .. seq - 1 /\ t \in Rows
      /\ j0 \in Nat /\ j0 < seq /\ (causal => j0 <= t) /\ seq \in 0 .. MaxSeq
      /\ MaxSeq \in Nat /\ seq \in Nat /\ t \in Nat
      /\ TILE_N \in Nat \ {0} /\ Sentinel \in Int /\ Under \in Nat
  <2>1. h < Heads /\ t < seq /\ ~(j0 >= seq) /\ ~(causal /\ j0 > t)
    BY DEF Tile, Skipped
  <2> QED
    BY <2>1, TileSizes DEF Rows
<1>2. \A k \in Rows : sc[k] \in Int /\ sc[k] - Sentinel > Under
  BY <1>1, ScoreType
<1>3. /\ RowKeys(t) \subseteq Rows
      /\ j0 \in InTile /\ InTile \subseteq RowKeys(t) \ Before
      /\ Before \cup InTile = {k \in RowKeys(t) : k < j0 + TILE_N}
      /\ Before \subseteq Rows /\ InTile \subseteq Rows
  BY <1>1 DEF InTile, Before, RowKeys, Visible, Rows
<1>4. /\ p' = TileScores /\ jn \in Nat /\ jn <= TILE_N
      /\ \A j \in 0 .. TILE_N - 1 : j < jn <=> j0 + j < seq
  BY <1>1 DEF Tile, jn
<1>5. \A j \in 0 .. jn - 1 :
        IF Masked(j) THEN j0 + j \notin InTile /\ p'[j] = Sentinel
        ELSE j0 + j \in InTile /\ p'[j] = sc[j0 + j]
  <2> TAKE j \in 0 .. jn - 1
  <2>1. j \in Nat /\ j < jn /\ j < TILE_N /\ j0 + j < seq /\ j0 + j \in 0 .. seq - 1
    BY <1>1, <1>4
  <2>2. p'[j] = IF Masked(j) THEN Sentinel ELSE sc[j0 + j]
    BY <1>1, <1>4, <2>1 DEF TileScores
  <2>3. Masked(j) <=> j0 + j \notin InTile
    BY <1>1, <2>1 DEF Masked, InTile, RowKeys, Visible
  <2> QED
    BY <2>2, <2>3
<1>6. \A k \in InTile : k - j0 \in 0 .. jn - 1 /\ ~Masked(k - j0) /\ j0 + (k - j0) = k
  BY <1>1, <1>4 DEF Masked, InTile, RowKeys, Visible
<1> DEFINE seen == {p'[j] : j \in {i \in 0 .. jn - 1 : ~Masked(i)}}
<1>7. seen = {sc[k] : k \in InTile}
  BY <1>5, <1>6
<1> DEFINE tile(mn) == UNION {Weight(j0 + j, p'[j] - mn) : j \in 0 .. jn - 1}
<1>8. PICK mt : /\ IsTileMax(mt)
                /\ l' = Decay(l, m - NewMax(mt)) \cup tile(NewMax(mt))
                /\ acc' = Decay(acc, m - NewMax(mt)) \cup tile(NewMax(mt))
                /\ m' = NewMax(mt)
  BY DEF Tile, FoldTile
<1>9. mt \in Int /\ mt > Sentinel /\ IsMax(mt, sc, InTile)
  <2>1. mt \in seen \cup {Sentinel} /\ \A v \in seen \cup {Sentinel} : v <= mt
    BY <1>8 DEF IsTileMax
  <2>2. sc[j0] \in seen /\ sc[j0] \in Int /\ sc[j0] > Sentinel
    <3>1. j0 \in Rows /\ sc[j0] \in seen
      BY <1>3, <1>7
    <3>2. sc[j0] \in Int /\ sc[j0] - Sentinel > Under
      BY <1>2, <3>1
    <3> HIDE DEF sc
    <3> QED
      BY <1>1, <3>1, <3>2
  <2>3. mt \in seen /\ mt > Sentinel
    <3> HIDE DEF sc, seen
    <3>1. Sentinel \in Int /\ mt >= sc[j0] /\ sc[j0] > Sentinel
      BY <1>1, <2>1, <2>2
    <3>2. mt # Sentinel
      BY <2>2, <3>1
    <3>3. mt \in seen
      BY <2>1, <3>2
    <3>4. \A v \in seen : v \in Int
      BY <1>2, <1>3, <1>7
    <3> QED
      BY <2>2, <3>1, <3>3, <3>4
  <2> QED
    BY <1>2, <1>3, <1>7, <2>1, <2>3 DEF IsMax
<1>10. m' \in Int /\ m <= m' /\ m \in Int /\ mt <= m'
  BY <1>1, <1>8, <1>9 DEF NewMax, Inductive, TypeOK
<1>11. tile(m') = Weights(sc, InTile, m')
  <2>1. \A j \in 0 .. jn - 1 : Masked(j) => Weight(j0 + j, p'[j] - m') = {}
    BY <1>1, <1>2, <1>3, <1>5, <1>9, <1>10 DEF Weight, Vanishes, IsMax
  <2>2. \A j \in 0 .. jn - 1 : ~Masked(j) =>
           Weight(j0 + j, p'[j] - m') = Weights(sc, {j0 + j}, m')
    <3>1. \A k, x : sc[k] = x => Weight(k, x - m') = Weights(sc, {k}, m')
      BY DEF Weight, Weights
    <3> QED
      BY <1>5, <3>1
  <2>3. ASSUME NEW z \in tile(m') PROVE z \in Weights(sc, InTile, m')
    <3>1. PICK j \in 0 .. jn - 1 : z \in Weight(j0 + j, p'[j] - m')
      OBVIOUS
    <3>2. ~Masked(j) /\ j0 + j \in InTile /\ z \in Weights(sc, {j0 + j}, m')
      BY <1>5, <2>1, <2>2, <3>1
    <3> QED
      BY <3>2 DEF Weights
  <2>4. ASSUME NEW z \in Weights(sc, InTile, m') PROVE z \in tile(m')
    <3>1. PICK k \in InTile : z = [key |-> k, x |-> sc[k] - m'] /\ ~Vanishes(z.x)
      BY DEF Weights
    <3>2. z \in Weights(sc, {j0 + (k - j0)}, m')
      BY <1>6, <3>1 DEF Weights
    <3>3. z \in Weight(j0 + (k - j0), p'[k - j0] - m')
      BY <1>6, <2>2, <3>2
    <3> QED
      BY <1>6, <3>3
  <2> QED
    BY <2>3, <2>4
<1>12. CASE j0 = 0
  <2>1. m = Sentinel /\ l = {} /\ acc = {} /\ Before = {}
    BY <1>12 DEF Inductive, Running, Before, RowKeys, Visible
  <2>2. m' = mt
    BY <1>1, <1>8, <1>9, <2>1 DEF NewMax
  <2>3. l' = tile(m') /\ acc' = tile(m')
    BY <1>8, <2>1, NoWeights
  <2> QED
    BY <1>1, <1>3, <1>9, <1>10, <1>11, <2>1, <2>2, <2>3
<1>13. CASE j0 # 0
  <2>1. /\ IsMax(m, sc, Before) /\ l = Weights(sc, Before, m) /\ acc = l
    BY <1>13 DEF Inductive, Running
  <2>2. IsMax(m', sc, Before \cup InTile)
    BY <1>2, <1>3, <1>8, <1>9, <1>10, <2>1, MaxOfUnion DEF NewMax
  <2>3. Decay(l, m - m') = Weights(sc, Before, m')
    <3>1. \A k \in Before : sc[k] \in Int
      BY <1>2, <1>3
    <3> QED
      BY <1>1, <1>10, <2>1, <3>1, DecayWeights
  <2>4. l' = Weights(sc, Before, m') \cup Weights(sc, InTile, m') /\ acc' = l'
    BY <1>8, <1>11, <2>1, <2>3
  <2>5. l' = Weights(sc, Before \cup InTile, m')
    BY <2>4, WeightsOfUnion
  <2> QED
    BY <1>1, <1>3, <1>10, <2>2, <2>4, <2>5
<1> QED
  BY <1>12, <1>13

(* Storing a row: all its visible keys are folded, and only it is written. *)
LEMMA StoreStep ==
  ASSUME Inductive, Store
  PROVE  /\ h \in 0 .. Heads - 1 /\ t \in 0 .. seq - 1
         /\ j0 # 0 /\ Before = RowKeys(t)
         /\ IsMax(m, Score[h][t], RowKeys(t))
         /\ l = Weights(Score[h][t], RowKeys(t), m) /\ acc = l
         /\ OShape'
         /\ O'[h][t] = Result(acc, l, m)
         /\ \A i \in 0 .. Heads - 1, r \in 0 .. seq - 1 :
              i # h \/ r # t => O'[i][r] = O[i][r]
<1>1. /\ h \in 0 .. Heads - 1 /\ t \in 0 .. seq - 1 /\ t \in Rows
      /\ seq \in Nat /\ t \in Nat /\ j0 \in Nat /\ MaxSeq \in Nat /\ Heads \in Nat
      /\ 0 .. seq - 1 \subseteq Rows
      /\ j0 >= seq \/ (causal /\ j0 > t)
  <2>1. h < Heads /\ t < seq /\ (j0 >= seq \/ (causal /\ j0 > t))
    BY DEF Store, Skipped
  <2> QED
    BY <2>1, TileSizes DEF Rows
<1>2. j0 # 0
  BY <1>1
<1>3. Before = RowKeys(t)
  BY <1>1 DEF Before, RowKeys, Visible
<1>4. O' = [O EXCEPT ![h] = [O[h] EXCEPT ![t] = Result(acc, l, m)]]
  BY DEF Store
<1>5. O = [i \in 0 .. Heads - 1 |-> [r \in Rows |-> O[i][r]]]
  BY DEF Inductive, OShape
<1>6. O'[h] = [[r \in Rows |-> O[h][r]] EXCEPT ![t] = Result(acc, l, m)]
  BY <1>1, <1>4, <1>5
<1>7. O'[h][t] = Result(acc, l, m) /\ \A r \in Rows : r # t => O'[h][r] = O[h][r]
  BY <1>1, <1>6
<1>8. \A i \in 0 .. Heads - 1 : i # h => O'[i] = O[i]
  BY <1>4, <1>5
<1>9. OShape'
  <2>1. O' = [i \in 0 .. Heads - 1 |-> O'[i]]
    BY <1>4, <1>5
  <2>2. \A i \in 0 .. Heads - 1 : O'[i] = [r \in Rows |-> O'[i][r]]
    BY <1>5, <1>6, <1>8
  <2> QED
    BY <2>1, <2>2 DEF OShape, Rows
<1> QED
  BY <1>1, <1>2, <1>3, <1>7, <1>8, <1>9 DEF Inductive, Running

LEMMA InitInductive == Init => Inductive
<1> SUFFICES ASSUME Init PROVE Inductive
  OBVIOUS
<1>1. TypeOK
  BY FlashCpuAssumption DEF Init, TypeOK
<1>2. OShape
  BY DEF Init, OShape
<1>3. RowsCorrect
  BY FlashCpuAssumption DEF Init, RowsCorrect, Stored, Rows
<1>4. Running
  BY DEF Init, Running
<1> QED
  BY <1>1, <1>2, <1>3, <1>4 DEF Inductive

LEMMA TileInductive == Inductive /\ Tile => Inductive'
<1> SUFFICES ASSUME Inductive, Tile PROVE Inductive'
  OBVIOUS
<1>1. /\ UNCHANGED <<seq, causal, h, t, O>> /\ j0' = j0 + TILE_N /\ p' = TileScores
      /\ j0 \in Nat /\ TILE_N \in Nat \ {0} /\ h < Heads /\ t < seq
      /\ j0 < seq /\ seq \in Nat
  BY FlashCpuAssumption DEF Tile, NextTile, Inductive, TypeOK, Skipped
<1>2. /\ h \in 0 .. Heads - 1 /\ t \in Rows /\ m' \in Int
      /\ IsMax(m', Score[h][t], Before \cup InTile)
      /\ l' = Weights(Score[h][t], Before \cup InTile, m') /\ acc' = l'
      /\ Before \cup InTile = {k \in RowKeys(t) : k < j0 + TILE_N}
  BY TileStep
<1>3. TypeOK'
  <2>1. p' \in [0 .. TILE_N - 1 -> Int]
    <3>1. p \in [0 .. TILE_N - 1 -> Int] /\ Sentinel \in Int
      BY FlashCpuAssumption DEF Inductive, TypeOK
    <3>2. \A j \in 0 .. TILE_N - 1 : j < jn => j0 + j \in Rows
      <4>1. seq \in 0 .. MaxSeq /\ MaxSeq \in Nat
        BY FlashCpuAssumption DEF Inductive, TypeOK
      <4>2. \A j \in 0 .. TILE_N - 1 : j < jn => j0 + j < seq
        BY <1>1 DEF jn
      <4> QED
        BY <1>1, <4>1, <4>2 DEF Rows
    <3>3. \A k \in Rows : Score[h][t][k] \in Int
      BY <1>2, ScoreType
    <3> QED
      <4>1. \A j \in 0 .. TILE_N - 1 : TileScores[j] \in Int
        <5> TAKE j \in 0 .. TILE_N - 1
        <5>1. TileScores[j] \in {p[j], Sentinel} \/
              (j < jn /\ TileScores[j] = Score[h][t][j0 + j])
          BY <3>1, <1>1 DEF TileScores, jn
        <5> QED
          BY <3>1, <3>2, <3>3, <5>1
      <4>2. TileScores = [j \in 0 .. TILE_N - 1 |-> TileScores[j]]
        BY DEF TileScores
      <4> QED
        BY <1>1, <4>1, <4>2
  <2> QED
    BY <1>1, <1>2, <2>1 DEF Inductive, TypeOK
<1>4. OShape' /\ RowsCorrect'
  BY <1>1 DEF Inductive, OShape, RowsCorrect, Stored, IsReference, RowKeys
<1>5. Running'
  <2>1. Before' = Before \cup InTile
    BY <1>1, <1>2 DEF Before, RowKeys
  <2>2. j0' # 0
    BY <1>1
  <2> QED
    BY <1>1, <1>2, <2>1, <2>2 DEF Running
<1> QED
  BY <1>3, <1>4, <1>5 DEF Inductive

LEMMA StoreInductive == Inductive /\ Store => Inductive'
<1> SUFFICES ASSUME Inductive, Store PROVE Inductive'
  OBVIOUS
<1>1. /\ UNCHANGED <<seq, causal, h, p>> /\ t' = t + 1 /\ j0' = 0
      /\ m' = Sentinel /\ l' = {} /\ acc' = {}
  BY DEF Store
<1>2. /\ h \in 0 .. Heads - 1 /\ t \in 0 .. seq - 1
      /\ IsMax(m, Score[h][t], RowKeys(t))
      /\ l = Weights(Score[h][t], RowKeys(t), m) /\ acc = l
      /\ OShape'
      /\ O'[h][t] = Result(acc, l, m)
      /\ \A i \in 0 .. Heads - 1, r \in 0 .. seq - 1 :
           i # h \/ r # t => O'[i][r] = O[i][r]
  BY StoreStep
<1>3. TypeOK'
  BY <1>1, <1>2, FlashCpuAssumption DEF Inductive, TypeOK
<1>4. IsReference(h, t, O'[h][t])
  BY <1>2 DEF IsReference, Result
<1>5. RowsCorrect'
  <2> SUFFICES ASSUME NEW i \in 0 .. Heads - 1, NEW r \in 0 .. seq - 1
               PROVE  IF Stored(i, r)' THEN IsReference(i, r, O'[i][r])
                      ELSE O'[i][r] = NotStored
    BY <1>1 DEF RowsCorrect, IsReference, RowKeys
  <2>1. Stored(i, r)' <=> Stored(i, r) \/ (i = h /\ r = t)
    BY <1>1, <1>2, FlashCpuAssumption DEF Stored, Inductive, TypeOK
  <2>2. IF Stored(i, r) THEN IsReference(i, r, O[i][r]) ELSE O[i][r] = NotStored
    BY DEF Inductive, RowsCorrect
  <2> QED
    BY <1>2, <1>4, <2>1, <2>2
<1>6. Running'
  BY <1>1 DEF Running
<1> QED
  BY <1>2, <1>3, <1>5, <1>6 DEF Inductive

LEMMA NextHeadInductive == Inductive /\ NextHead => Inductive'
<1> SUFFICES ASSUME Inductive, NextHead PROVE Inductive'
  OBVIOUS
<1>1. /\ UNCHANGED <<seq, causal, j0, p, m, l, acc, O>>
      /\ h' = h + 1 /\ t' = 0 /\ t >= seq /\ h < Heads
  BY DEF NextHead
<1>2. /\ h \in Nat /\ Heads \in Nat /\ seq \in Nat /\ t \in 0 .. seq
  BY FlashCpuAssumption DEF Inductive, TypeOK
<1>3. TypeOK'
  BY <1>1, <1>2 DEF Inductive, TypeOK
<1>4. \A i \in 0 .. Heads - 1, r \in 0 .. seq - 1 : Stored(i, r)' <=> Stored(i, r)
  BY <1>1, <1>2 DEF Stored
<1>5. RowsCorrect'
  BY <1>1, <1>4 DEF Inductive, RowsCorrect, IsReference, RowKeys
<1>6. OShape'
  BY <1>1 DEF Inductive, OShape
<1>7. Running'
  <2>1. j0 = 0
    BY <1>1, <1>2 DEF Inductive, Running
  <2> QED
    BY <1>1, <2>1 DEF Inductive, Running
<1> QED
  BY <1>3, <1>5, <1>6, <1>7 DEF Inductive

LEMMA StutterInductive == Inductive /\ UNCHANGED vars => Inductive'
<1> SUFFICES ASSUME Inductive, UNCHANGED vars PROVE Inductive'
  OBVIOUS
<1>1. UNCHANGED <<seq, causal, h, t, j0, p, m, l, acc, O>>
  BY DEF vars
<1> QED
  BY <1>1 DEF Inductive, TypeOK, OShape, RowsCorrect, Running, Stored,
              IsReference, RowKeys, Before

(* The inductive invariant.                                                *)
THEOREM Invariance == Spec => []Inductive
<1>1. Inductive /\ [Next]_vars => Inductive'
  BY TileInductive, StoreInductive, NextHeadInductive, StutterInductive
  DEF Next, Finished
<1> QED
  BY InitInductive, <1>1, PTL DEF Spec

(* The loop counters and the buffer stay in range, whatever the sizes.     *)
THEOREM TypeCorrect == Spec => []TypeOK
<1>1. Inductive => TypeOK
  BY DEF Inductive
<1> QED
  BY <1>1, Invariance, PTL

(* attention_flash_cpu stores the reference softmax of every row.          *)
THEOREM RowsCorrectHolds == Spec => []RowsCorrect
<1>1. Inductive => RowsCorrect
  BY DEF Inductive
<1> QED
  BY <1>1, Invariance, PTL
-----------------------------------------------------------------------------
LEMMA InitOnline ==
  ASSUME Init, NEW i \in 0 .. Heads - 1, NEW r \in 0 .. seq - 1
  PROVE  Online(i, r)!Init
<1>1. ~Stored(i, r) /\ O[i][r] = NotStored /\ j0 = 0 /\ m = Sentinel /\ l = {} /\ acc = {}
  BY FlashCpuAssumption DEF Init, Stored, Rows
<1>2. {k \in RowKeys(r) : k < j0} = {}
  BY <1>1 DEF RowKeys, Visible
<1> QED
  BY <1>1, <1>2 DEF Online!Init

(* A tile is one portion of keys for the current row, nothing for another. *)
LEMMA TileOnline ==
  ASSUME Inductive, Tile, NEW i \in 0 .. Heads - 1, NEW r \in 0 .. seq - 1
  PROVE  [Online(i, r)!Next]_(Online(i, r)!vars)
<1>1. UNCHANGED <<seq, causal, h, t, O>> /\ j0' = j0 + TILE_N
  BY DEF Tile, NextTile
<1>2. CASE i = h /\ r = t
  <2>1. /\ InTile # {} /\ InTile \subseteq RowKeys(t) \ Before
        /\ Before \cup InTile = {k \in RowKeys(t) : k < j0 + TILE_N}
        /\ IsMax(m', Score[h][t], Before \cup InTile)
        /\ l' = Weights(Score[h][t], Before \cup InTile, m') /\ acc' = l'
    BY TileStep
  <2>2. ~Stored(i, r) /\ O[i][r] = NotStored
    BY <1>2, FlashCpuAssumption DEF Inductive, TypeOK, RowsCorrect, Stored
  <2>3. (RowKeys(r) = RowKeys(r)') /\ (Stored(i, r) <=> Stored(i, r)')
    BY <1>1 DEF RowKeys, Stored
  <2>4. PICK S : S = InTile
    OBVIOUS
  <2>5. Online(i, r)!Fold(S)
    <3>1. /\ IsMax(m', Score[h][t], Before') <=> Online(i, r)!IsMax(m', Score[i][r], Before')
          /\ Weights(Score[h][t], Before', m') = Online(i, r)!Weights(Score[i][r], Before', m')
      BY <1>2 DEF IsMax, Online!IsMax, Weights, Online!Weights, Vanishes, Online!Vanishes
    <3>2. Before' = Before \cup S
      BY <1>1, <2>1, <2>4 DEF Before, RowKeys
    <3> QED
      BY <1>1, <1>2, <2>1, <2>2, <2>3, <2>4, <3>1, <3>2 DEF Online!Fold, Before
  <2>6. S \in SUBSET (RowKeys(r) \ (IF Stored(i, r) THEN RowKeys(r)
             ELSE IF h = i /\ t = r THEN {k \in RowKeys(r) : k < j0} ELSE {}))
    BY <1>2, <2>1, <2>2, <2>4 DEF Before
  <2> QED
    BY <2>5, <2>6 DEF Online!Next, Online!FoldSome
<1>3. CASE ~(i = h /\ r = t)
  BY <1>1, <1>3 DEF Online!vars, Stored, RowKeys
<1> QED
  BY <1>2, <1>3

LEMMA StoreOnline ==
  ASSUME Inductive, Store, NEW i \in 0 .. Heads - 1, NEW r \in 0 .. seq - 1
  PROVE  [Online(i, r)!Next]_(Online(i, r)!vars)
<1>1. /\ UNCHANGED <<seq, causal, h, p>> /\ t' = t + 1 /\ j0' = 0
      /\ m' = Sentinel /\ l' = {} /\ acc' = {}
  BY DEF Store
<1>2. /\ h \in 0 .. Heads - 1 /\ t \in 0 .. seq - 1
      /\ Before = RowKeys(t) /\ j0 # 0
      /\ O'[h][t] = Result(acc, l, m)
      /\ (i # h \/ r # t => O'[i][r] = O[i][r])
  BY StoreStep
<1>3. /\ Stored(i, r)' <=> Stored(i, r) \/ (i = h /\ r = t)
      /\ RowKeys(r)' = RowKeys(r)
  BY <1>1, <1>2, FlashCpuAssumption DEF Stored, RowKeys, Inductive, TypeOK
<1>4. CASE i = h /\ r = t
  <2>1. ~Stored(i, r) /\ O[i][r] = NotStored
    BY <1>4, FlashCpuAssumption DEF Inductive, TypeOK, RowsCorrect, Stored
  <2>2. O'[i][r].max = m /\ O'[i][r].den = l /\ O'[i][r].num = acc
    BY <1>2, <1>4 DEF Result
  <2>3. Online(i, r)!Store
    BY <1>2, <1>3, <1>4, <2>1, <2>2 DEF Online!Store, Before, Result, Online!Result
  <2> QED
    BY <2>3 DEF Online!Next
<1>5. CASE ~(i = h /\ r = t)
  <2>1. {k \in RowKeys(r) : k < j0'} = {}
    BY <1>1 DEF RowKeys, Visible
  <2> QED
    BY <1>1, <1>2, <1>3, <1>5, <2>1 DEF Online!vars
<1> QED
  BY <1>4, <1>5

LEMMA NextHeadOnline ==
  ASSUME Inductive, NextHead, NEW i \in 0 .. Heads - 1, NEW r \in 0 .. seq - 1
  PROVE  UNCHANGED Online(i, r)!vars
<1>1. /\ UNCHANGED <<seq, causal, j0, p, m, l, acc, O>>
      /\ h' = h + 1 /\ t' = 0 /\ t >= seq /\ h < Heads
  BY DEF NextHead
<1>2. h \in Nat /\ Heads \in Nat /\ seq \in Nat /\ t \in 0 .. seq
  BY FlashCpuAssumption DEF Inductive, TypeOK
<1>3. (Stored(i, r)' <=> Stored(i, r)) /\ RowKeys(r)' = RowKeys(r)
  BY <1>1, <1>2 DEF Stored, RowKeys
<1>4. j0 = 0 /\ m = Sentinel /\ l = {} /\ acc = {}
  BY <1>1, <1>2 DEF Inductive, Running
<1>5. {k \in RowKeys(r) : k < j0} = {}
  BY <1>4 DEF RowKeys, Visible
<1> QED
  BY <1>1, <1>3, <1>4, <1>5 DEF Online!vars

LEMMA StutterOnline ==
  ASSUME UNCHANGED vars, NEW i, NEW r
  PROVE  UNCHANGED Online(i, r)!vars
BY DEF vars, Online!vars, Stored, RowKeys

(* attention_flash_cpu implements the streaming softmax on every row.      *)
THEOREM Refinement == Spec => ImplementsOnline
<1> DEFINE Each == \A i \in 0 .. Heads - 1, r \in 0 .. seq - 1 :
                     [Online(i, r)!Next]_(Online(i, r)!vars)
           Starts == \A i \in 0 .. Heads - 1, r \in 0 .. seq - 1 : Online(i, r)!Init
<1>1. Init => Starts
  BY InitOnline
<1>2. Inductive /\ [Next]_vars => [Each]_vars
  <2> SUFFICES ASSUME Inductive, [Next]_vars PROVE Each
    OBVIOUS
  <2>1. CASE Tile
    BY <2>1, TileOnline
  <2>2. CASE Store
    BY <2>2, StoreOnline
  <2>3. CASE NextHead
    BY <2>3, NextHeadOnline
  <2>4. CASE UNCHANGED vars
    BY <2>4, StutterOnline
  <2> QED
    BY <2>1, <2>2, <2>3, <2>4 DEF Next, Finished
<1> HIDE DEF Each, Starts
<1>3. Spec => Starts /\ [][Each]_vars
  BY <1>1, <1>2, Invariance, PTL DEF Spec
<1> QED
  BY <1>3 DEF ImplementsOnline, Each, Starts
-----------------------------------------------------------------------------
(* The Triton forward takes a tile of keys at once too, for all rows of a  *)
(* program: with the arithmetic of -inf, its lanes are such rows.          *)

(* The row of lane i of program g, its scores and the keys behind it.      *)
RowOf(g, i) == offs_m(g, i)
LaneScore(g, i) == Score[g[2]][RowOf(g, i)]
LaneKeys(g, i) == Visible(RowOf(g, i), arg.seq, arg.causal)
Seen(g, i) == {k \in LaneKeys(g, i) : k < start_n[g]}
Place(g, i) == g[2] * arg.seq + RowOf(g, i)

TritonTypes ==
  /\ arg \in [seq : 1 .. MaxSeq, causal : BOOLEAN]
  /\ cfg \in Configs /\ todo \subseteq Configs /\ (todo # {} => cfg \in todo)
  /\ pc \in [Grid -> {"tile", "store", "lse", "done"}]
  /\ start_n \in [Grid -> Nat]
  /\ reg = [g \in Grid |->
              [m   |-> [i \in Lanes(cfg) |-> reg[g].m[i]],
               l   |-> [i \in Lanes(cfg) |-> reg[g].l[i]],
               acc |-> [i \in Lanes(cfg) |-> reg[g].acc[i]]]]
  /\ Out = [e \in Elements |-> Out[e]]
  /\ Lse = [e \in Elements |-> Lse[e]]

TritonLoops ==
  \A g \in Grid :
    /\ start_n[g] % cfg.n = 0
    /\ start_n[g] < hi(g) + cfg.n
    /\ pc[g] = "tile" <=> start_n[g] < hi(g)

(* Before the first tile a maximum is -inf and the sums are empty; after   *)
(* it no maximum is -inf, and a live lane holds the softmax statistics of  *)
(* the visible keys of its tiles.                                          *)
LaneState(g, i) ==
  IF start_n[g] = 0
  THEN reg[g].m[i] = NegInf /\ reg[g].l[i] = {} /\ reg[g].acc[i] = {}
  ELSE /\ reg[g].m[i] \in Int
       /\ Live(g, i) =>
            /\ IsMax(reg[g].m[i], LaneScore(g, i), Seen(g, i))
            /\ reg[g].l[i] = Weights(LaneScore(g, i), Seen(g, i), reg[g].m[i])
            /\ reg[g].acc[i] = reg[g].l[i]

LaneStates == \A g \in Grid : \A i \in Lanes(cfg) : LaneState(g, i)

(* What is stored is right, and a program past a store has stored.         *)
Right(A) ==
  \A e \in Elements :
    A[e] # NotStored => /\ e < Heads * arg.seq
                        /\ IsReferenceOf(e \div arg.seq, e % arg.seq, A[e])

Written ==
  \A g \in Grid : \A i \in Lanes(cfg) : Live(g, i) =>
    /\ pc[g] \in {"lse", "done"} => Out[Place(g, i)] # NotStored
    /\ pc[g] = "done" => Lse[Place(g, i)] # NotStored

TritonInv ==
  TritonTypes /\ TritonLoops /\ LaneStates /\ Right(Out) /\ Right(Lse) /\ Written
-----------------------------------------------------------------------------
(* A program's first row is a row of the sequence.                         *)
LEMMA GridShape ==
  ASSUME NEW c \in Configs, NEW sq \in 1 .. MaxSeq,
         NEW g \in GridOf(c, sq)
  PROVE  /\ c.m \in Nat \ {0} /\ c.n \in Nat \ {0} /\ sq \in Nat \ {0}
         /\ Heads \in Nat /\ MaxSeq \in Nat \ {0}
         /\ g[1] \in Nat /\ g[2] \in 0 .. Heads - 1
         /\ g[1] * c.m \in Nat /\ (g[1] + 1) * c.m = g[1] * c.m + c.m
         /\ g[1] * c.m < sq
<1>1. /\ c.m \in Nat \ {0} /\ c.n \in Nat \ {0} /\ sq \in Nat \ {0}
      /\ Heads \in Nat /\ MaxSeq \in Nat \ {0}
  BY FlashTritonAssumption
<1>2. PICK b \in Nat \ {0} : b = c.m
  BY <1>1
<1>3. PICK q : q = g[1]
  OBVIOUS
<1>4. q \in 0 .. CeilDiv(sq, b) - 1 /\ g[2] \in 0 .. Heads - 1
  BY <1>2, <1>3 DEF GridOf, CeilDiv
<1>5. q \in Nat /\ q * b \in Nat /\ (q + 1) * b = q * b + b /\ q * b < sq
  BY <1>1, <1>4, TileBegins
<1> QED
  BY <1>1, <1>2, <1>3, <1>4, <1>5

(* An element that holds a row of a head gives the head and the row,       *)
LEMMA PlaceOfRow ==
  ASSUME NEW sq \in 1 .. MaxSeq,
         NEW hd \in 0 .. Heads - 1, NEW row \in 0 .. sq - 1
  PROVE  /\ hd * sq + row \in Elements /\ hd * sq + row < Heads * sq
         /\ (hd * sq + row) \div sq = hd /\ (hd * sq + row) % sq = row
<1>1. sq \in Nat \ {0} /\ Heads \in Nat /\ MaxSeq \in Nat \ {0} /\ sq <= MaxSeq
  BY FlashTritonAssumption
<1>2. /\ hd * sq + row \in Nat /\ hd * sq + row < Heads * sq
      /\ (hd * sq + row) \div sq = hd /\ (hd * sq + row) % sq = row
  <2>1. \A a \in Nat, b \in Nat \ {0} : \A x \in 0 .. a - 1, y \in 0 .. b - 1 :
          /\ x * b + y \in Nat /\ x * b + y < a * b
          /\ (x * b + y) \div b = x /\ (x * b + y) % b = y
    BY IndexOf
  <2>2. Heads \in Nat /\ sq \in Nat \ {0} /\ hd \in 0 .. Heads - 1 /\ row \in 0 .. sq - 1
    BY <1>1, Zenon
  <2>3. \A x \in 0 .. Heads - 1, y \in 0 .. sq - 1 :
          /\ x * sq + y \in Nat /\ x * sq + y < Heads * sq
          /\ (x * sq + y) \div sq = x /\ (x * sq + y) % sq = y
    BY <2>1, <2>2, Zenon
  <2> QED
    BY <2>2, <2>3, Zenon
<1>3. sq * Heads <= MaxSeq * Heads
  BY <1>1, TimesMono
<1>4. sq * Heads = Heads * sq /\ MaxSeq * Heads = Heads * MaxSeq
      /\ Heads * sq \in Nat /\ Heads * MaxSeq \in Nat
  BY <1>1
<1>5. hd * sq + row \in Elements
  <2>1. \A e, n, k \in Nat : e < n /\ n <= k => e \in 0 .. k + MaxSeq - 1
    BY <1>1
  <2>2. hd * sq + row \in 0 .. Heads * MaxSeq + MaxSeq - 1
    BY <1>2, <1>3, <1>4, <2>1
  <2> QED
    BY <2>2 DEF Elements
<1> QED
  BY <1>2, <1>5

(* and some lane of some program of a launch has it.                       *)
LEMMA LaneOfPlace ==
  ASSUME NEW c \in Configs, NEW sq \in 1 .. MaxSeq,
         NEW e \in Elements, e < Heads * sq
  PROVE  \E g \in GridOf(c, sq), i \in Lanes(c) :
           g[1] * c.m + i < sq /\ e = g[2] * sq + (g[1] * c.m + i)
<1>1. /\ c.m \in Nat \ {0} /\ sq \in Nat \ {0}
      /\ Heads \in Nat /\ MaxSeq \in Nat \ {0} /\ e \in Nat
  BY FlashTritonAssumption DEF Elements
<1>2. PICK b \in Nat \ {0} : b = c.m
  BY <1>1
<1>3. e \div sq \in 0 .. Heads - 1 /\ e % sq \in 0 .. sq - 1
      /\ e = (e \div sq) * sq + (e % sq)
  BY <1>1, Quotient
<1>4. PICK hd \in 0 .. Heads - 1, row \in 0 .. sq - 1 : e = hd * sq + row
  BY <1>3
<1>5. row \div b \in 0 .. CeilDiv(sq, b) - 1 /\ row % b \in 0 .. b - 1
      /\ row = (row \div b) * b + (row % b)
  BY <1>1, TileOf
<1>6. PICK q \in 0 .. CeilDiv(sq, b) - 1, i \in 0 .. b - 1 : row = q * b + i
  BY <1>5
<1>7. <<q, hd>> \in GridOf(c, sq) /\ i \in Lanes(c)
  BY <1>2 DEF GridOf, Lanes, CeilDiv
<1>8. <<q, hd>>[1] = q /\ <<q, hd>>[2] = hd
  OBVIOUS
<1>9. q * b + i < sq /\ e = hd * sq + (q * b + i)
  BY <1>1, <1>4, <1>6
<1> QED
  BY <1>2, <1>7, <1>8, <1>9
(* What a program's lanes are.                                             *)
LEMMA LaneShape ==
  ASSUME TritonTypes, NEW g \in Grid
  PROVE  /\ cfg.m \in Nat \ {0} /\ cfg.n \in Nat \ {0} /\ arg.seq \in Nat \ {0}
         /\ arg.seq \in 1 .. MaxSeq /\ g[2] \in 0 .. Heads - 1 /\ g \in DOMAIN pc
         /\ start_n[g] \in Nat /\ Under \in Nat
         /\ hi(g) \in Nat \ {0} /\ hi(g) <= arg.seq
         /\ \A i \in Lanes(cfg) :
              /\ RowOf(g, i) \in Nat /\ i \in Nat
              /\ Live(g, i) <=> RowOf(g, i) < arg.seq
              /\ \A k \in LaneKeys(g, i) : k \in 0 .. arg.seq - 1 /\ k < hi(g)
              /\ 0 \in LaneKeys(g, i)
              /\ Live(g, i) =>
                   /\ RowOf(g, i) \in 0 .. arg.seq - 1
                   /\ \A k \in 0 .. arg.seq - 1 : LaneScore(g, i)[k] \in Int
<1>1. cfg \in Configs /\ arg.seq \in 1 .. MaxSeq /\ g \in GridOf(cfg, arg.seq)
      /\ arg.causal \in BOOLEAN /\ start_n[g] \in Nat /\ g \in DOMAIN pc
  BY DEF TritonTypes, Grid
<1>3. /\ cfg.m \in Nat \ {0} /\ cfg.n \in Nat \ {0} /\ arg.seq \in Nat \ {0}
      /\ g[2] \in 0 .. Heads - 1 /\ MaxSeq \in Nat \ {0}
      /\ g[1] \in Nat
      /\ g[1] * cfg.m \in Nat /\ (g[1] + 1) * cfg.m = g[1] * cfg.m + cfg.m
      /\ g[1] * cfg.m < arg.seq
  BY <1>1, GridShape
<1>4. /\ hi(g) \in Nat \ {0} /\ hi(g) <= arg.seq
      /\ arg.causal => hi(g) = arg.seq \/ hi(g) = g[1] * cfg.m + cfg.m
      /\ ~arg.causal => hi(g) = arg.seq
  BY <1>1, <1>3 DEF hi, Least
<1>5. ASSUME NEW i \in Lanes(cfg)
      PROVE  /\ RowOf(g, i) \in Nat /\ i \in Nat /\ RowOf(g, i) < g[1] * cfg.m + cfg.m
             /\ Live(g, i) <=> RowOf(g, i) < arg.seq
             /\ \A k \in LaneKeys(g, i) : k \in 0 .. arg.seq - 1 /\ k < hi(g)
             /\ 0 \in LaneKeys(g, i)
  <2>1. i \in 0 .. cfg.m - 1 /\ RowOf(g, i) = g[1] * cfg.m + i
    BY DEF Lanes, RowOf, offs_m
  <2>2. RowOf(g, i) \in Nat /\ i \in Nat /\ RowOf(g, i) < g[1] * cfg.m + cfg.m
    BY <1>3, <2>1
  <2>3. Live(g, i) <=> RowOf(g, i) < arg.seq
    BY DEF Live, RowOf
  <2>4. \A k \in LaneKeys(g, i) :
          k \in 0 .. arg.seq - 1 /\ (arg.causal => k <= RowOf(g, i))
    BY DEF LaneKeys, Visible
  <2>5. 0 \in LaneKeys(g, i)
    BY <1>3, <2>2 DEF LaneKeys, Visible
  <2> QED
    BY <1>1, <1>3, <1>4, <2>2, <2>3, <2>4, <2>5
<1>6. ASSUME NEW i \in Lanes(cfg), Live(g, i)
      PROVE  /\ RowOf(g, i) \in 0 .. arg.seq - 1
             /\ \A k \in 0 .. arg.seq - 1 : LaneScore(g, i)[k] \in Int
  <2>1. RowOf(g, i) \in 0 .. arg.seq - 1
    BY <1>3, <1>5, <1>6
  <2>2. 0 .. arg.seq - 1 \subseteq 0 .. MaxSeq - 1
    BY <1>1, <1>3
  <2>3. Score \in [0 .. Heads - 1 -> [0 .. MaxSeq - 1 -> [0 .. MaxSeq - 1 -> Int]]]
    BY FlashTritonAssumption
  <2>4. \A k \in 0 .. arg.seq - 1 : Score[g[2]][RowOf(g, i)][k] \in Int
    <3> TAKE k \in 0 .. arg.seq - 1
    <3>1. k \in 0 .. MaxSeq - 1 /\ RowOf(g, i) \in 0 .. MaxSeq - 1
      BY <2>1, <2>2, Zenon
    <3>2. Score[g[2]] \in [0 .. MaxSeq - 1 -> [0 .. MaxSeq - 1 -> Int]]
      BY <1>3, <2>3, Zenon
    <3>3. Score[g[2]][RowOf(g, i)] \in [0 .. MaxSeq - 1 -> Int]
      BY <3>1, <3>2, Zenon
    <3> QED
      BY <3>1, <3>3, Zenon
  <2> QED
    BY <2>1, <2>4 DEF LaneScore
<1>7. Under \in Nat
  BY FlashTritonAssumption
<1> QED
  BY <1>1, <1>3, <1>4, <1>5, <1>6, <1>7

(* Scores of a lane: those of its keys if it is live, some number if not,  *)
(* -inf for any other key.                                                 *)
LEMMA LaneScores ==
  ASSUME TritonTypes, NEW g \in Grid,
         NEW i \in Lanes(cfg), NEW k \in Nat
  PROVE  /\ Kept(g, i, k) <=> k \in LaneKeys(g, i)
         /\ k \in LaneKeys(g, i) =>
              /\ s(g, i, k) \in Int
              /\ Live(g, i) => s(g, i, k) = LaneScore(g, i)[k]
         /\ k \notin LaneKeys(g, i) => s(g, i, k) = NegInf
<1>1. /\ Live(g, i) <=> RowOf(g, i) < arg.seq
      /\ Live(g, i) => \A x \in 0 .. arg.seq - 1 : LaneScore(g, i)[x] \in Int
      /\ \A x \in LaneKeys(g, i) : x \in 0 .. arg.seq - 1
      /\ RowOf(g, i) \in Nat /\ arg.seq \in Nat \ {0}
  BY LaneShape
<1>2. Kept(g, i, k) <=> k \in LaneKeys(g, i)
  BY <1>1 DEF Kept, LaneKeys, Visible, RowOf
<1>3. CASE k \in LaneKeys(g, i)
  <2>1. k \in 0 .. arg.seq - 1 /\ k < arg.seq
    BY <1>1, <1>3
  <2>2. s(g, i, k) = RawScore(g, i, k)
    BY <1>2, <1>3 DEF s
  <2>3. RawScore(g, i, k) = IF Live(g, i) THEN LaneScore(g, i)[k] ELSE 0
    BY <1>1, <2>1 DEF RawScore, LaneScore, RowOf
  <2> QED
    BY <1>1, <1>2, <1>3, <2>1, <2>2, <2>3
<1>4. CASE k \notin LaneKeys(g, i)
  BY <1>2, <1>4 DEF s
<1> QED
  BY <1>2, <1>3, <1>4
(* The maximum a tile leaves is a number, for every lane: the first tile   *)
(* has key 0, which no row masks, and later ones start from a number.      *)
LEMMA NewMaximum ==
  ASSUME TritonTypes, LaneStates,
         NEW g \in Grid, NEW i \in Lanes(cfg)
  PROVE  LET mn == m_new(g, i)
         IN  /\ mn \in Int
             /\ IF start_n[g] = 0 THEN reg[g].m[i] = NegInf
                ELSE reg[g].m[i] \in Int /\ reg[g].m[i] <= mn
             /\ \A k \in offs_n(g) : s(g, i, k) = NegInf \/
                                             s(g, i, k) <= mn
             /\ \/ mn = reg[g].m[i]
                \/ \E k \in offs_n(g) : k \in LaneKeys(g, i) /\ mn = s(g, i, k)
<1> DEFINE mo == reg[g].m[i]
           keys == offs_n(g)
           sc(k) == s(g, i, k)
           S == {sc(k) : k \in keys} \cup {mo}
           Val(j) == IF j < cfg.n THEN sc(start_n[g] + j) ELSE mo
<1>1. /\ cfg.n \in Nat \ {0} /\ start_n[g] \in Nat /\ keys = start_n[g] .. start_n[g] + cfg.n - 1
      /\ 0 \in LaneKeys(g, i) /\ NegInf \notin Int
  BY LaneShape, FlashTritonAssumption DEF offs_n
<1>2. LaneState(g, i)
  BY DEF LaneStates
<1>3. \A k \in Nat : IF k \in LaneKeys(g, i) THEN sc(k) \in Int ELSE sc(k) = NegInf
  BY LaneScores
<1>4. start_n[g] = 0 => 0 \in keys
  BY <1>1
<1>5. mo \in Int \cup {NegInf} /\ (start_n[g] = 0 <=> mo = NegInf)
  BY <1>1, <1>2 DEF LaneState
<1>6. m_new(g, i) = CHOOSE v \in S : \A u \in S : Max2(u, v) = v
  BY DEF m_new
<1>7. \A k \in keys : k \in Nat /\ k - start_n[g] \in 0 .. cfg.n /\ k - start_n[g] < cfg.n
                      /\ start_n[g] + (k - start_n[g]) = k
  BY <1>1
<1>8. \A j \in 0 .. cfg.n - 1 : start_n[g] + j \in keys
  BY <1>1
<1> HIDE DEF mo, keys, sc
<1>9. S = {Val(j) : j \in 0 .. cfg.n}
  <2>1. ASSUME NEW v \in S PROVE \E j \in 0 .. cfg.n : v = Val(j)
    <3>1. CASE v = mo
      <4>1. cfg.n \in 0 .. cfg.n /\ Val(cfg.n) = mo
        BY <1>1
      <4> HIDE DEF Val
      <4> QED
        BY <3>1, <4>1
    <3>2. CASE \E k \in keys : v = sc(k)
      <4>1. PICK k \in keys : v = sc(k)
        BY <3>2
      <4>2. k - start_n[g] \in 0 .. cfg.n /\ k - start_n[g] < cfg.n
        BY <1>7
      <4>3. Val(k - start_n[g]) = sc(k)
        BY <1>7, <4>2
      <4> HIDE DEF Val
      <4> QED
        BY <4>1, <4>2, <4>3
    <3> QED
      BY <3>1, <3>2
  <2>2. ASSUME NEW j \in 0 .. cfg.n PROVE Val(j) \in S
    <3>1. j < cfg.n => j \in 0 .. cfg.n - 1
      BY <1>1
    <3> QED
      BY <1>8, <3>1
  <2> QED
    BY <2>1, <2>2
<1>10. PICK z \in S : z \in Int
  <2>1. CASE start_n[g] = 0
    BY <1>1, <1>3, <1>4, <2>1
  <2>2. CASE start_n[g] # 0
    BY <1>5, <2>2
  <2> QED
    BY <2>1, <2>2
<1>11. \A u \in S : u \in Int \cup {NegInf}
  BY <1>3, <1>5, <1>7
<1> HIDE DEF S, Val
<1>12. \E v \in S : v \in Int /\ \A u \in S : u = NegInf \/ u <= v
  <2> DEFINE Lifted == [j \in 0 .. cfg.n |-> IF Val(j) = NegInf THEN z ELSE Val(j)]
  <2>1. \A j \in 0 .. cfg.n : /\ Lifted[j] = IF Val(j) = NegInf THEN z ELSE Val(j)
                              /\ Lifted[j] \in Int /\ Lifted[j] \in S
    BY <1>9, <1>10, <1>11
  <2> HIDE DEF Lifted
  <2>2. PICK b \in 0 .. cfg.n : \A j \in 0 .. cfg.n : Lifted[j] <= Lifted[b]
    BY <1>1, <2>1, GreatestOf
  <2>3. \A u \in S : u = NegInf \/ u <= Lifted[b]
    <3> TAKE u \in S
    <3>1. PICK j \in 0 .. cfg.n : u = Val(j)
      BY <1>9
    <3> QED
      BY <2>1, <2>2, <3>1
  <2> QED
    BY <2>1, <2>3
<1>13. PICK w \in S : w \in Int /\ \A u \in S : u = NegInf \/ u <= w
  BY <1>12
<1>14. \A u \in S : Max2(u, w) = w
  BY <1>1, <1>11, <1>13 DEF Max2
<1> DEFINE mn == m_new(g, i)
<1>15. mn \in S /\ \A u \in S : Max2(u, mn) = mn
  BY <1>6, <1>13, <1>14
<1> HIDE DEF mn
<1>16. mn = w
  <2>1. Max2(w, mn) = mn /\ w # NegInf /\ (mn = NegInf \/ mn <= w)
        /\ mn \in Int \cup {NegInf}
    BY <1>1, <1>11, <1>13, <1>15
  <2> QED
    BY <1>13, <2>1 DEF Max2
<1>17. mn \in Int /\ mo \in S /\ \A k \in keys : sc(k) \in S
  BY <1>13, <1>16 DEF S
<1>18. mn = mo \/ \E k \in keys : k \in LaneKeys(g, i) /\ mn = sc(k)
  BY <1>1, <1>3, <1>7, <1>15, <1>17 DEF S
<1>19. /\ mn \in Int
       /\ IF start_n[g] = 0 THEN mo = NegInf ELSE mo \in Int /\ mo <= mn
       /\ \A k \in keys : sc(k) = NegInf \/ sc(k) <= mn
  BY <1>1, <1>5, <1>13, <1>16, <1>17
<1> QED
  BY <1>18, <1>19 DEF mn, mo, keys, sc
(* The visible keys of a lane's tile. Each term of p is the weight of one, *)
(* or nothing.                                                             *)
Arriving(g, i) == {k \in LaneKeys(g, i) : start_n[g] <= k /\ k < start_n[g] + cfg.n}

LEMMA ShareIsWeights ==
  ASSUME TritonTypes, LaneStates,
         NEW g \in Grid, NEW i \in Lanes(cfg), Live(g, i),
         NEW K, K \subseteq offs_n(g), Arriving(g, i) \subseteq K
  PROVE  Share(g, i, K) = Weights(LaneScore(g, i), Arriving(g, i), m_new(g, i))
<1> DEFINE mn == m_new(g, i)
           sc == LaneScore(g, i)
           F == Arriving(g, i)
<1>1. mn \in Int /\ NegInf \notin Int
  BY NewMaximum, FlashTritonAssumption
<1>2. \A k \in K : k \in Nat /\ (k \in LaneKeys(g, i) <=> k \in F)
  BY LaneShape DEF offs_n, Arriving
<1>3. \A k \in K : IF k \in F THEN s(g, i, k) = sc[k] /\ sc[k] \in Int
                   ELSE s(g, i, k) = NegInf
  BY <1>2, LaneScores
<1> HIDE DEF mn, sc, F
<1>4. \A k \in K : ExpOf(k, s(g, i, k), mn) =
                     IF k \in F THEN Weight(k, sc[k] - mn) ELSE {}
  BY <1>1, <1>3 DEF ExpOf
<1>5. Share(g, i, K) = UNION {ExpOf(k, s(g, i, k), mn) : k \in K}
  BY DEF Share, mn
<1>6. F \subseteq K
  BY DEF F
<1>7. \A z : z \in Share(g, i, K) <=> \E k \in F : z \in Weight(k, sc[k] - mn)
  <2> TAKE z
  <2>1. z \in Share(g, i, K) <=>
          \E k \in K : z \in ExpOf(k, s(g, i, k), mn)
    BY <1>5
  <2> QED
    BY <1>4, <1>6, <2>1
<1>8. \A z : z \in Weights(sc, F, mn) <=> \E k \in F : z \in Weight(k, sc[k] - mn)
  BY DEF Weights, Weight
<1>9. Share(g, i, K) = Weights(sc, F, mn)
  BY <1>7, <1>8
<1> QED
  BY <1>9 DEF mn, sc, F

(* What a sum held is relative to the new maximum after it is carried.     *)
LEMMA CarriedIsWeights ==
  ASSUME TritonTypes, LaneStates,
         NEW g \in Grid, NEW i \in Lanes(cfg), Live(g, i)
  PROVE  /\ Carried(g, i, reg[g].l[i])
              = Weights(LaneScore(g, i), Seen(g, i), m_new(g, i))
         /\ Carried(g, i, reg[g].acc[i]) = Carried(g, i, reg[g].l[i])
<1> DEFINE mn == m_new(g, i)
           mo == reg[g].m[i]
           sc == LaneScore(g, i)
           T == reg[g].l[i]
<1>1. /\ mn \in Int /\ NegInf \notin Int /\ NaN \notin Int /\ Under \in Nat
      /\ IF start_n[g] = 0 THEN mo = NegInf ELSE mo \in Int /\ mo <= mn
  BY NewMaximum, FlashTritonAssumption
<1>2. LaneState(g, i)
  BY DEF LaneStates
<1>3. reg[g].acc[i] = T
  BY <1>2 DEF LaneState
<1>4. Carried(g, i, T) = Scaled(T, mo, mn)
  BY DEF Carried
<1>5. CASE start_n[g] = 0
  <2>1. Seen(g, i) = {} /\ T = {}
    BY <1>2, <1>5, LaneShape DEF LaneState, Seen
  <2>2. ~(Broken \subseteq {})
    BY DEF Broken
  <2>3. Scaled(T, mo, mn) = {}
    BY <1>1, <1>5, <2>1, <2>2 DEF Scaled
  <2> QED
    BY <1>3, <1>4, <2>1, <2>3, NoWeights
<1>6. CASE start_n[g] # 0
  <2>1. mo \in Int /\ mo <= mn /\ T = Weights(sc, Seen(g, i), mo)
    BY <1>1, <1>2, <1>6 DEF LaneState
  <2>2. \A k \in Seen(g, i) : k \in Int /\ sc[k] \in Int
    BY LaneShape DEF Seen
  <2>3. \A y \in T : y.key # NaN
    BY <1>1, <2>1, <2>2 DEF Weights
  <2>4. ~(Broken \subseteq T)
    BY <2>3 DEF Broken
  <2>5. Scaled(T, mo, mn) = Decay(T, mo - mn)
    BY <1>1, <2>1, <2>4 DEF Scaled
  <2>6. Decay(T, mo - mn) = Weights(sc, Seen(g, i), mn)
    BY <1>1, <2>1, <2>2, DecayWeights
  <2> QED
    BY <1>3, <1>4, <2>5, <2>6
<1> QED
  BY <1>5, <1>6

(* A tile makes a live lane's statistics those of its keys too; if it has  *)
(* none, it leaves them alone.                                             *)
LEMMA LaneStep ==
  ASSUME TritonTypes, LaneStates,
         NEW g \in Grid, NEW i \in Lanes(cfg), Live(g, i)
  PROVE  LET mn == m_new(g, i)
             all == Seen(g, i) \cup Arriving(g, i)
         IN  /\ all = {k \in LaneKeys(g, i) : k < start_n[g] + cfg.n}
             /\ Seen(g, i) \cap Arriving(g, i) = {}
             /\ mn \in Int /\ IsMax(mn, LaneScore(g, i), all)
             /\ Update(g).m[i] = mn
             /\ Update(g).l[i] = Weights(LaneScore(g, i), all, mn)
             /\ Update(g).acc[i] = Update(g).l[i]
             /\ Arriving(g, i) = {} => mn = reg[g].m[i] /\ start_n[g] # 0
<1> DEFINE mn == m_new(g, i)
           mo == reg[g].m[i]
           sc == LaneScore(g, i)
           F == Arriving(g, i)
           B == Seen(g, i)
<1>1. /\ start_n[g] \in Nat /\ cfg.n \in Nat \ {0} /\ 0 \in LaneKeys(g, i)
      /\ \A k \in LaneKeys(g, i) : k \in 0 .. arg.seq - 1 /\ k \in Nat /\ sc[k] \in Int
  BY LaneShape
<1>2. B \cup F = {k \in LaneKeys(g, i) : k < start_n[g] + cfg.n} /\ B \cap F = {}
      /\ B \subseteq LaneKeys(g, i) /\ F \subseteq LaneKeys(g, i)
  BY <1>1 DEF Seen, Arriving
<1>3. F \subseteq offs_n(g) /\ F \subseteq offs_n(g) \cap 0 .. arg.seq - 1
  BY <1>1 DEF offs_n, Arriving
<1>4. /\ mn \in Int
      /\ IF start_n[g] = 0 THEN mo = NegInf ELSE mo \in Int /\ mo <= mn
      /\ \A k \in offs_n(g) : s(g, i, k) = NegInf \/ s(g, i, k) <= mn
      /\ \/ mn = mo
         \/ \E k \in offs_n(g) : k \in LaneKeys(g, i) /\ mn = s(g, i, k)
      /\ NegInf \notin Int
  BY NewMaximum, FlashTritonAssumption
<1>5. \A k \in LaneKeys(g, i) : s(g, i, k) = sc[k]
  BY <1>1, LaneScores
<1>6. LaneState(g, i)
  BY DEF LaneStates
<1>7. \A k \in offs_n(g) : k \in LaneKeys(g, i) => k \in F
  BY <1>1 DEF offs_n, Arriving
<1> HIDE DEF mn, mo, sc, F, B
<1>8. start_n[g] # 0 => IsMax(mo, sc, B)
  BY <1>6 DEF LaneState, mo, sc, B
<1>9. start_n[g] = 0 => mn # mo
  BY <1>4
<1>10. IsMax(mn, sc, B \cup F)
  <2>1. \E k \in B \cup F : sc[k] = mn
    <3>1. CASE mn = mo
      BY <1>8, <1>9, <3>1 DEF IsMax
    <3>2. CASE mn # mo
      BY <1>4, <1>5, <1>7, <3>2
    <3> QED
      BY <3>1, <3>2
  <2>2. \A k \in F : sc[k] <= mn
    BY <1>1, <1>2, <1>3, <1>4, <1>5
  <2>3. \A k \in B : sc[k] <= mn
    <3>1. CASE start_n[g] = 0
      BY <1>1, <3>1 DEF B, Seen
    <3>2. CASE start_n[g] # 0
      <4>1. mo \in Int /\ mo <= mn /\ \A k \in B : sc[k] <= mo
        BY <1>4, <1>8, <3>2 DEF IsMax
      <4> QED
        BY <1>1, <1>2, <1>4, <4>1
    <3> QED
      BY <3>1, <3>2
  <2> QED
    BY <2>1, <2>2, <2>3 DEF IsMax
<1>11. F = {} => mn = mo /\ start_n[g] # 0
  BY <1>4, <1>7, <1>9
<1> DEFINE K == offs_n(g) \cap 0 .. arg.seq - 1
<1>12. /\ Share(g, i, offs_n(g)) = Weights(sc, F, mn)
       /\ Share(g, i, K) = Weights(sc, F, mn)
  <2>1. Share(g, i, offs_n(g)) = Weights(sc, F, mn)
    BY <1>3, ShareIsWeights DEF sc, F, mn
  <2>2. K \subseteq offs_n(g) /\ Arriving(g, i) \subseteq K
    BY <1>3 DEF F
  <2> HIDE DEF K
  <2>3. Share(g, i, K) = Weights(sc, F, mn)
    BY <2>2, ShareIsWeights DEF sc, F, mn
  <2> QED
    BY <2>1, <2>3
<1>13. /\ Update(g).m[i] = mn
       /\ Update(g).l[i] = Carried(g, i, reg[g].l[i])
                                    \cup Share(g, i, offs_n(g))
       /\ Update(g).acc[i] = Carried(g, i, reg[g].acc[i])
                                    \cup Share(g, i, K)
  BY DEF Update, mn
<1>14. /\ Carried(g, i, reg[g].l[i]) = Weights(sc, B, mn)
       /\ Carried(g, i, reg[g].acc[i]) = Weights(sc, B, mn)
  BY CarriedIsWeights DEF sc, B, mn
<1>15. Weights(sc, B, mn) \cup Weights(sc, F, mn) = Weights(sc, B \cup F, mn)
  BY WeightsOfUnion
<1>16. /\ Update(g).l[i] = Weights(sc, B \cup F, mn)
       /\ Update(g).acc[i] = Weights(sc, B \cup F, mn)
  BY <1>12, <1>13, <1>14, <1>15
<1> QED
  BY <1>2, <1>4, <1>10, <1>11, <1>13, <1>16 DEF mn, mo, sc, F, B
-----------------------------------------------------------------------------
(* Within a launch only the registers, loops and stores move.              *)
LEMMA SameLaunch ==
  ASSUME UNCHANGED <<arg, cfg>>
  PROVE  /\ Grid' = Grid /\ Lanes(cfg)' = Lanes(cfg)
         /\ \A g : hi(g)' = hi(g)
         /\ \A g, i : /\ RowOf(g, i)' = RowOf(g, i) /\ LaneScore(g, i)' = LaneScore(g, i)
                      /\ LaneKeys(g, i)' = LaneKeys(g, i) /\ Place(g, i)' = Place(g, i)
                      /\ Live(g, i)' <=> Live(g, i)
         /\ \A a, b, r : IsReferenceOf(a, b, r)' <=> IsReferenceOf(a, b, r)
BY DEF Grid, GridOf, Lanes, hi, RowOf, offs_m,
       LaneScore, LaneKeys, Place, Live, IsReferenceOf

(* A lane's state follows its program's loop counter and registers.        *)
LEMMA SameLane ==
  ASSUME UNCHANGED <<arg, cfg>>, NEW g, NEW i,
         start_n'[g] = start_n[g], reg'[g] = reg[g]
  PROVE  LaneState(g, i)' <=> LaneState(g, i)
<1>1. Seen(g, i)' = Seen(g, i)
  BY SameLaunch DEF Seen
<1> QED
  BY <1>1, SameLaunch DEF LaneState

LEMMA TileKeeps ==
  ASSUME TritonInv, NEW g \in Grid, GridTile(g)
  PROVE  TritonInv'
<1>1. /\ UNCHANGED <<arg, cfg, todo, Out, Lse>> /\ pc[g] = "tile"
      /\ reg' = [reg EXCEPT ![g] = Update(g)]
      /\ start_n' = [start_n EXCEPT ![g] = @ + cfg.n]
      /\ pc' = [pc EXCEPT ![g] = AfterTile(g)]
  BY DEF GridTile
<1>2. TritonTypes /\ TritonLoops /\ LaneStates /\ Right(Out) /\ Right(Lse) /\ Written
  BY DEF TritonInv
<1>3. /\ cfg.n \in Nat \ {0} /\ start_n[g] \in Nat /\ hi(g) \in Nat
      /\ pc \in [Grid -> {"tile", "store", "lse", "done"}]
      /\ start_n \in [Grid -> Nat]
  BY <1>2, LaneShape DEF TritonTypes
<1>4. /\ start_n' \in [Grid -> Nat] /\ start_n'[g] = start_n[g] + cfg.n
      /\ start_n'[g] # 0
      /\ \A x \in Grid : x # g => start_n'[x] = start_n[x]
  BY <1>1, <1>3
<1>5. /\ pc' \in [Grid -> {"tile", "store", "lse", "done"}]
      /\ pc'[g] = IF start_n[g] + cfg.n < hi(g) THEN "tile" ELSE "store"
      /\ \A x \in Grid : x # g => pc'[x] = pc[x]
  BY <1>1, <1>3 DEF AfterTile
<1>6. /\ reg' = [x \in Grid |-> reg'[x]] /\ reg'[g] = Update(g)
      /\ \A x \in Grid : x # g => reg'[x] = reg[x]
  BY <1>1, <1>2 DEF TritonTypes
<1>7. TritonTypes'
  <2>1. \A x \in Grid :
          reg'[x] = [m   |-> [i \in Lanes(cfg) |-> reg'[x].m[i]],
                     l   |-> [i \in Lanes(cfg) |-> reg'[x].l[i]],
                     acc |-> [i \in Lanes(cfg) |-> reg'[x].acc[i]]]
    <3> TAKE x \in Grid
    <3>1. CASE x = g
      BY <1>6, <3>1 DEF Update
    <3>2. CASE x # g
      BY <1>2, <1>6, <3>2 DEF TritonTypes
    <3> QED
      BY <3>1, <3>2
  <2>2. reg' = [x \in Grid |->
                  [m   |-> [i \in Lanes(cfg) |-> reg'[x].m[i]],
                   l   |-> [i \in Lanes(cfg) |-> reg'[x].l[i]],
                   acc |-> [i \in Lanes(cfg) |-> reg'[x].acc[i]]]]
    BY <1>6, <2>1, Zenon
  <2>3. Grid' = Grid /\ Lanes(cfg)' = Lanes(cfg)
    BY <1>1, SameLaunch
  <2>4. Elements' = Elements
    BY DEF Elements
  <2> QED
    BY <1>1, <1>2, <1>4, <1>5, <2>2, <2>3, <2>4 DEF TritonTypes
<1>8. TritonLoops'
  <2> SUFFICES ASSUME NEW x \in Grid
               PROVE  /\ start_n'[x] % cfg.n = 0
                      /\ start_n'[x] < hi(x) + cfg.n
                      /\ pc'[x] = "tile" <=> start_n'[x] < hi(x)
    BY <1>1, SameLaunch DEF TritonLoops
  <2>1. /\ start_n[x] % cfg.n = 0 /\ start_n[x] < hi(x) + cfg.n
        /\ pc[x] = "tile" <=> start_n[x] < hi(x)
    BY <1>2 DEF TritonLoops
  <2>2. CASE x = g
    <3>1. (start_n[g] + cfg.n) % cfg.n = start_n[g] % cfg.n
      <4>1. \A a \in Int, n \in Nat \ {0} : (a + n) % n = a % n
        BY StrideRemainder
      <4>2. start_n[g] \in Int
        BY <1>3
      <4> QED
        BY <1>3, <4>1, <4>2, Zenon
    <3> QED
      BY <1>1, <1>3, <1>4, <1>5, <2>1, <2>2, <3>1
  <2>3. CASE x # g
    BY <1>4, <1>5, <2>1, <2>3
  <2> QED
    BY <2>2, <2>3
<1>9. LaneStates'
  <2> SUFFICES ASSUME NEW x \in Grid, NEW i \in Lanes(cfg)
               PROVE  LaneState(x, i)'
    BY <1>1, SameLaunch DEF LaneStates
  <2>1. CASE x # g
    <3>1. LaneState(x, i)
      BY <1>2 DEF LaneStates
    <3> QED
      BY <1>1, <1>4, <1>6, <2>1, <3>1, SameLane
  <2>2. CASE x = g
    <3>1. reg'[g].m[i] = m_new(g, i) /\ m_new(g, i) \in Int
      BY <1>2, <1>6, <2>2, NewMaximum DEF Update
    <3>2. CASE ~Live(g, i)
      <4>1. ~Live(g, i)'
        BY <1>1, <3>2, SameLaunch
      <4> QED
        BY <1>4, <2>2, <3>1, <4>1 DEF LaneState
    <3>3. CASE Live(g, i)
      <4> DEFINE all == Seen(g, i) \cup Arriving(g, i)
                 mn == m_new(g, i)
      <4>1. /\ all = {k \in LaneKeys(g, i) : k < start_n[g] + cfg.n}
            /\ IsMax(mn, LaneScore(g, i), all)
            /\ Update(g).l[i] = Weights(LaneScore(g, i), all, mn)
            /\ Update(g).acc[i] = Update(g).l[i]
        BY <1>2, <2>2, <3>3, LaneStep
      <4>2. Seen(g, i)' = all /\ LaneScore(g, i)' = LaneScore(g, i)
        BY <1>1, <1>4, <4>1, SameLaunch DEF Seen
      <4>3. reg'[g].m[i] = mn
        BY <3>1
      <4> HIDE DEF all, mn
      <4>4. /\ reg'[g].m[i] \in Int /\ IsMax(reg'[g].m[i], LaneScore(g, i)', Seen(g, i)')
            /\ reg'[g].l[i] = Weights(LaneScore(g, i)', Seen(g, i)', reg'[g].m[i])
            /\ reg'[g].acc[i] = reg'[g].l[i]
        BY <1>6, <3>1, <4>1, <4>2, <4>3
      <4> QED
        BY <1>4, <2>2, <4>4 DEF LaneState
    <3> QED
      BY <3>2, <3>3
  <2> QED
    BY <2>1, <2>2
<1>10. Right(Out)' /\ Right(Lse)'
  BY <1>1, <1>2, SameLaunch DEF Right, Elements
<1>11. Written'
  <2> SUFFICES ASSUME NEW x \in Grid, NEW i \in Lanes(cfg), Live(x, i)
               PROVE  /\ pc'[x] \in {"lse", "done"} => Out[Place(x, i)] # NotStored
                      /\ pc'[x] = "done" => Lse[Place(x, i)] # NotStored
    BY <1>1, SameLaunch DEF Written
  <2> QED
    BY <1>2, <1>5 DEF Written
<1> QED
  BY <1>7, <1>8, <1>9, <1>10, <1>11 DEF TritonInv
-----------------------------------------------------------------------------
(* Past the last tile a live lane has seen all keys of its row, and what   *)
(* it stores is the row's softmax.                                         *)
Lane(g, i) == Result(reg[g].acc[i], reg[g].l[i], reg[g].m[i])

LEMMA LaneResult ==
  ASSUME TritonInv, NEW g \in Grid, pc[g] # "tile",
         NEW i \in Lanes(cfg), Live(g, i)
  PROVE  /\ Seen(g, i) = LaneKeys(g, i)
         /\ IsReferenceOf(g[2], RowOf(g, i), Lane(g, i))
         /\ Lane(g, i) # NotStored
<1> DEFINE sc == LaneScore(g, i)
           mx == reg[g].m[i]
<1>1. TritonTypes /\ TritonLoops /\ LaneStates
  BY DEF TritonInv
<1>2. /\ start_n[g] \in Nat /\ hi(g) \in Nat \ {0} /\ arg.seq \in 1 .. MaxSeq
      /\ \A k \in LaneKeys(g, i) : /\ k \in 0 .. arg.seq - 1 /\ k < hi(g)
                                   /\ sc[k] \in Int
  BY <1>1, LaneShape
<1>3. ~(start_n[g] < hi(g))
  BY <1>1 DEF TritonLoops
<1>4. Seen(g, i) = LaneKeys(g, i) /\ start_n[g] # 0
  BY <1>2, <1>3 DEF Seen
<1>5. /\ mx \in Int /\ IsMax(mx, sc, LaneKeys(g, i))
      /\ reg[g].l[i] = Weights(sc, LaneKeys(g, i), mx) /\ reg[g].acc[i] = reg[g].l[i]
  BY <1>1, <1>4 DEF LaneStates, LaneState
<1>6. Lane(g, i).num = reg[g].acc[i] /\ Lane(g, i).den = reg[g].l[i] /\ Lane(g, i).max = mx
  BY DEF Lane, Result
<1>7. IsReferenceOf(g[2], RowOf(g, i), Lane(g, i))
  <2>1. Visible(RowOf(g, i), arg.seq, arg.causal) = LaneKeys(g, i)
    BY DEF LaneKeys
  <2>2. /\ IsMax(mx, sc, LaneKeys(g, i))
        /\ Weights(sc, LaneKeys(g, i), mx) = reg[g].l[i]
    BY <1>5
  <2> QED
    BY <1>5, <1>6, <2>1, <2>2 DEF IsReferenceOf, LaneScore
<1>8. Lane(g, i) # NotStored
  <2> DEFINE terms == SUBSET [key : 0 .. MaxSeq - 1, x : Int]
  <2>1. \A k \in LaneKeys(g, i) : k \in 0 .. MaxSeq - 1 /\ sc[k] - mx \in Int
    BY <1>2, <1>5, FlashTritonAssumption
  <2>2. Weights(sc, LaneKeys(g, i), mx) \in terms
    BY <2>1 DEF Weights
  <2>3. Lane(g, i) \in [num : terms, den : terms, max : Int]
    BY <1>5, <2>2 DEF Lane, Result
  <2> QED
    BY <2>3, NotStoredIsNoResult
<1> QED
  BY <1>4, <1>7, <1>8

(* The element of a live lane's row gives the row back.                    *)
LEMMA PlaceOfLane ==
  ASSUME TritonTypes, NEW g \in Grid,
         NEW i \in Lanes(cfg), Live(g, i)
  PROVE  /\ Place(g, i) \in Elements /\ Place(g, i) < Heads * arg.seq
         /\ Place(g, i) \div arg.seq = g[2] /\ Place(g, i) % arg.seq = RowOf(g, i)
<1>1. g[2] \in 0 .. Heads - 1 /\ RowOf(g, i) \in 0 .. arg.seq - 1 /\ arg.seq \in 1 .. MaxSeq
  BY LaneShape
<1> QED
  BY <1>1, PlaceOfRow DEF Place

(* No two live lanes have the same row of the same head.                   *)
LEMMA PlacesDiffer ==
  ASSUME TritonTypes,
         NEW g \in Grid, NEW i \in Lanes(cfg), Live(g, i),
         NEW x \in Grid, NEW j \in Lanes(cfg), Live(x, j),
         Place(g, i) = Place(x, j)
  PROVE  g = x /\ i = j
<1>1. g[2] = x[2] /\ RowOf(g, i) = RowOf(x, j)
  BY PlaceOfLane
<1>2. PICK b \in Nat \ {0} : b = cfg.m
  BY LaneShape
<1>3. ASSUME NEW y \in Grid, NEW n \in Lanes(cfg)
      PROVE  y[1] = RowOf(y, n) \div b /\ n = RowOf(y, n) % b /\ y = <<y[1], y[2]>>
  <2>1. y[1] \in Nat /\ y = <<y[1], y[2]>>
    BY DEF TritonTypes, Grid, GridOf
  <2>2. n \in 0 .. b - 1
    BY <1>2 DEF Lanes
  <2>3. PICK q \in Nat : q = y[1]
    BY <2>1
  <2>4. q \in 0 .. (q + 1) - 1 /\ q + 1 \in Nat
    OBVIOUS
  <2>5. \A a \in Nat : \A z \in 0 .. a - 1, w \in 0 .. b - 1 :
          (z * b + w) \div b = z /\ (z * b + w) % b = w
    BY IndexOf
  <2>6. (q * b + n) \div b = q /\ (q * b + n) % b = n
    BY <2>2, <2>4, <2>5, Zenon
  <2> QED
    BY <1>2, <2>1, <2>3, <2>6 DEF RowOf, offs_m
<1> QED
  BY <1>1, <1>3

(* A store writes the results of the program's live lanes, each at its own *)
(* place, and nothing else.                                                *)
LEMMA StoreWrites ==
  ASSUME TritonInv, NEW g \in Grid, pc[g] # "tile",
         NEW A, NEW B, B = StoredBy(g, A), Right(A)
  PROVE  /\ B = [e \in Elements |-> B[e]] /\ Right(B)
         /\ \A i \in Lanes(cfg) : Live(g, i) => B[Place(g, i)] = Lane(g, i)
         /\ \A e \in Elements : A[e] # NotStored => B[e] # NotStored
         /\ \A x \in Grid, j \in Lanes(cfg) :
              Live(x, j) /\ x # g => B[Place(x, j)] = A[Place(x, j)]
<1>1. TritonTypes
  BY DEF TritonInv
<1>2. B = [e \in Elements |-> B[e]]
  BY DEF StoredBy
<1> DEFINE LaneAt(e) == e - g[2] * arg.seq - g[1] * cfg.m
<1>3. \A e \in Elements :
        B[e] = IF LaneAt(e) \in Lanes(cfg) /\ Live(g, LaneAt(e))
               THEN Lane(g, LaneAt(e)) ELSE A[e]
  BY DEF StoredBy, Lane
<1>4. \A e \in Elements, i \in Lanes(cfg) : e = Place(g, i) <=> LaneAt(e) = i
  <2>1. PICK u \in Int : u = g[2] * arg.seq
    BY <1>1, LaneShape
  <2>2. PICK v \in Int : v = g[1] * cfg.m
    <3>1. /\ g \in GridOf(cfg, arg.seq)
          /\ cfg \in Configs /\ arg.seq \in 1 .. MaxSeq
      BY <1>1 DEF TritonTypes, Grid
    <3>2. g[1] * cfg.m \in Nat
      BY <3>1, GridShape
    <3> QED
      BY <3>2
  <2>3. \A e \in Elements : e \in Int
    BY DEF Elements
  <2>4. \A i \in Lanes(cfg) : i \in Int
    BY DEF Lanes
  <2> QED
    BY <2>1, <2>2, <2>3, <2>4 DEF Place, RowOf, offs_m
<1> HIDE DEF LaneAt
<1>5. \A i \in Lanes(cfg) : Live(g, i) =>
        Place(g, i) \in Elements /\ B[Place(g, i)] = Lane(g, i)
  BY <1>1, <1>3, <1>4, PlaceOfLane
<1>6. \A e \in Elements :
        \/ B[e] = A[e]
        \/ \E i \in Lanes(cfg) : Live(g, i) /\ e = Place(g, i) /\ B[e] = Lane(g, i)
  BY <1>3, <1>4
<1>7. Right(B)
  <2> SUFFICES ASSUME NEW e \in Elements, B[e] # NotStored
               PROVE  /\ e < Heads * arg.seq
                      /\ IsReferenceOf(e \div arg.seq, e % arg.seq, B[e])
    BY DEF Right
  <2>1. CASE B[e] = A[e]
    BY <2>1 DEF Right
  <2>2. CASE B[e] # A[e]
    <3>1. PICK i \in Lanes(cfg) :
                 Live(g, i) /\ e = Place(g, i) /\ B[e] = Lane(g, i)
      BY <1>6, <2>2
    <3>2. IsReferenceOf(g[2], RowOf(g, i), B[e])
      BY <3>1, LaneResult
    <3> QED
      BY <1>1, <3>1, <3>2, PlaceOfLane
  <2> QED
    BY <2>1, <2>2
<1>8. \A e \in Elements : A[e] # NotStored => B[e] # NotStored
  BY <1>6, LaneResult
<1>9. ASSUME NEW x \in Grid, NEW j \in Lanes(cfg), Live(x, j), x # g
      PROVE  B[Place(x, j)] = A[Place(x, j)]
  <2>1. Place(x, j) \in Elements
    BY <1>1, <1>9, PlaceOfLane
  <2>2. ~ \E i \in Lanes(cfg) : Live(g, i) /\ Place(x, j) = Place(g, i)
    BY <1>1, <1>9, PlacesDiffer
  <2> QED
    BY <1>6, <2>1, <2>2
<1> QED
  BY <1>2, <1>5, <1>7, <1>8, <1>9
LEMMA StoreKeeps ==
  ASSUME TritonInv, NEW g \in Grid,
         StoreO(g) \/ StoreLse(g)
  PROVE  TritonInv'
<1>1. /\ UNCHANGED <<arg, cfg, todo, start_n, reg>> /\ pc[g] \in {"store", "lse"}
      /\ \/ /\ pc[g] = "store" /\ pc' = [pc EXCEPT ![g] = "lse"]
            /\ Out' = StoredBy(g, Out) /\ Lse' = Lse
         \/ /\ pc[g] = "lse" /\ pc' = [pc EXCEPT ![g] = "done"]
            /\ Lse' = StoredBy(g, Lse) /\ Out' = Out
  BY DEF StoreO, StoreLse
<1>2. TritonTypes /\ TritonLoops /\ LaneStates /\ Right(Out) /\ Right(Lse) /\ Written
  BY DEF TritonInv
<1>3. /\ pc \in [Grid -> {"tile", "store", "lse", "done"}]
      /\ Out = [e \in Elements |-> Out[e]] /\ Lse = [e \in Elements |-> Lse[e]]
  BY <1>2 DEF TritonTypes
<1>4. /\ pc' \in [Grid -> {"tile", "store", "lse", "done"}]
      /\ pc[g] # "tile" /\ pc'[g] \in {"lse", "done"}
      /\ pc[g] = "store" => pc'[g] = "lse"
      /\ \A x \in Grid : x # g => pc'[x] = pc[x]
  BY <1>1, <1>3
<1>5. Grid' = Grid /\ Lanes(cfg)' = Lanes(cfg)
      /\ Elements' = Elements
  BY <1>1, SameLaunch DEF Elements
<1>6. TritonTypes'
  <2>1. Out' = [e \in Elements |-> Out'[e]] /\ Lse' = [e \in Elements |-> Lse'[e]]
    BY <1>1, <1>2, <1>3, <1>4, StoreWrites
  <2>2. reg' = [x \in Grid |->
                  [m   |-> [i \in Lanes(cfg) |-> reg'[x].m[i]],
                   l   |-> [i \in Lanes(cfg) |-> reg'[x].l[i]],
                   acc |-> [i \in Lanes(cfg) |-> reg'[x].acc[i]]]]
    <3>1. reg = [x \in Grid |->
                   [m   |-> [i \in Lanes(cfg) |-> reg[x].m[i]],
                    l   |-> [i \in Lanes(cfg) |-> reg[x].l[i]],
                    acc |-> [i \in Lanes(cfg) |-> reg[x].acc[i]]]]
      BY <1>2 DEF TritonTypes
    <3>2. reg' = reg
      BY <1>1
    <3> QED
      BY <3>1, <3>2
  <2>3. start_n' \in [Grid -> Nat]
    BY <1>1, <1>2 DEF TritonTypes
  <2> QED
    BY <1>1, <1>2, <1>4, <1>5, <2>1, <2>2, <2>3 DEF TritonTypes
<1>7. TritonLoops'
  BY <1>1, <1>2, <1>4, SameLaunch DEF TritonLoops
<1>8. LaneStates'
  BY <1>1, <1>2, SameLane, SameLaunch DEF LaneStates
<1>9. Right(Out)' /\ Right(Lse)'
  <2>1. /\ Out' = Out \/ Out' = StoredBy(g, Out)
        /\ Lse' = Lse \/ Lse' = StoredBy(g, Lse)
    BY <1>1
  <2>2. (\A e \in Elements :
           Out'[e] # NotStored => /\ e < Heads * arg.seq
                                  /\ IsReferenceOf(e \div arg.seq, e % arg.seq, Out'[e]))
    BY <1>2, <1>4, <2>1, StoreWrites DEF Right
  <2>3. (\A e \in Elements :
           Lse'[e] # NotStored => /\ e < Heads * arg.seq
                                  /\ IsReferenceOf(e \div arg.seq, e % arg.seq, Lse'[e]))
    BY <1>2, <1>4, <2>1, StoreWrites DEF Right
  <2> QED
    BY <1>1, <1>5, <2>2, <2>3, SameLaunch DEF Right
<1>10. Written'
  <2> SUFFICES ASSUME NEW x \in Grid, NEW i \in Lanes(cfg), Live(x, i)
               PROVE  /\ pc'[x] \in {"lse", "done"} => Out'[Place(x, i)] # NotStored
                      /\ pc'[x] = "done" => Lse'[Place(x, i)] # NotStored
    BY <1>1, SameLaunch DEF Written
  <2>1. Place(x, i) \in Elements
    BY <1>2, PlaceOfLane
  <2>2. /\ pc[x] \in {"lse", "done"} => Out[Place(x, i)] # NotStored
        /\ pc[x] = "done" => Lse[Place(x, i)] # NotStored
    BY <1>2 DEF Written
  <2>3. /\ Out[Place(x, i)] # NotStored => Out'[Place(x, i)] # NotStored
        /\ Lse[Place(x, i)] # NotStored => Lse'[Place(x, i)] # NotStored
    BY <1>1, <1>2, <1>4, <2>1, StoreWrites
  <2>4. CASE x # g
    BY <1>4, <2>2, <2>3, <2>4
  <2>5. CASE x = g
    <3>1. Lane(g, i) # NotStored
      BY <1>4, <2>5, LaneResult
    <3>2. CASE pc[g] = "store"
      BY <1>1, <1>2, <1>4, <2>5, <3>1, <3>2, StoreWrites
    <3>3. CASE pc[g] = "lse"
      BY <1>1, <1>2, <1>4, <2>2, <2>5, <3>1, <3>3, StoreWrites
    <3> QED
      BY <1>1, <3>2, <3>3
  <2> QED
    BY <2>4, <2>5
<1> QED
  BY <1>6, <1>7, <1>8, <1>9, <1>10 DEF TritonInv
-----------------------------------------------------------------------------
(* A launch starts every program at its first tile, with fresh registers.  *)
LEMMA LaunchShape ==
  ASSUME NEW c \in Configs, NEW sq \in 1 .. MaxSeq,
         NEW g \in GridOf(c, sq)
  PROVE  /\ Launched(c, sq).pc[g] = "tile"
         /\ Launched(c, sq).start_n[g] = 0
         /\ Launched(c, sq).reg[g] =
              [m   |-> [i \in Lanes(c) |-> NegInf],
               l   |-> [i \in Lanes(c) |-> {}],
               acc |-> [i \in Lanes(c) |-> {}]]
         /\ c.n \in Nat \ {0} /\ 0 % c.n = 0
         /\ Least((g[1] + 1) * c.m, sq) \in Nat \ {0} /\ sq \in Nat \ {0}
<1>1. /\ c.m \in Nat \ {0} /\ c.n \in Nat \ {0} /\ sq \in Nat \ {0}
      /\ g[1] * c.m \in Nat /\ (g[1] + 1) * c.m = g[1] * c.m + c.m
  BY GridShape
<1>2. 0 % c.n = 0
  <2>1. PICK n \in Nat \ {0} : n = c.n
    BY <1>1
  <2>2. 0 % n = 0
    OBVIOUS
  <2> QED
    BY <2>1, <2>2
<1>3. \A x \in Nat, y \in Nat \ {0} : x + y \in Nat \ {0}
  OBVIOUS
<1>4. Least((g[1] + 1) * c.m, sq) \in Nat \ {0}
  <2>1. (g[1] + 1) * c.m \in Nat \ {0}
    BY <1>1, <1>3, Zenon
  <2> QED
    BY <1>1, <2>1, Zenon DEF Least
<1> QED
  BY <1>1, <1>2, <1>4 DEF Launched, Fresh

LEMMA TritonInitInv ==
  ASSUME GridInit
  PROVE  TritonInv
<1>1. /\ arg \in [seq : 1 .. MaxSeq, causal : BOOLEAN]
      /\ cfg \in Configs /\ todo \in {{}, Configs}
      /\ pc = Launched(cfg, arg.seq).pc
      /\ start_n = Launched(cfg, arg.seq).start_n
      /\ reg = Launched(cfg, arg.seq).reg
      /\ Out = [e \in Elements |-> NotStored]
      /\ Lse = [e \in Elements |-> NotStored]
  BY DEF GridInit
<1>2. Grid = GridOf(cfg, arg.seq) /\ arg.seq \in 1 .. MaxSeq
  BY <1>1 DEF Grid
<1>3. \A g \in Grid :
        /\ pc[g] = "tile" /\ start_n[g] = 0
        /\ reg[g] = [m   |-> [i \in Lanes(cfg) |-> NegInf],
                     l   |-> [i \in Lanes(cfg) |-> {}],
                     acc |-> [i \in Lanes(cfg) |-> {}]]
        /\ cfg.n \in Nat \ {0} /\ 0 % cfg.n = 0 /\ hi(g) \in Nat \ {0}
  <2> TAKE g \in Grid
  <2>1. /\ g \in GridOf(cfg, arg.seq)
        /\ cfg \in Configs /\ arg.seq \in 1 .. MaxSeq
    BY <1>1, <1>2
  <2>2. hi(g) \in {Least((g[1] + 1) * cfg.m, arg.seq), arg.seq}
    BY DEF hi
  <2>3. /\ Launched(cfg, arg.seq).pc[g] = "tile"
        /\ Launched(cfg, arg.seq).start_n[g] = 0
    BY <2>1 DEF Launched
  <2>4. /\ Launched(cfg, arg.seq).reg[g] =
             [m   |-> [i \in Lanes(cfg) |-> NegInf],
              l   |-> [i \in Lanes(cfg) |-> {}],
              acc |-> [i \in Lanes(cfg) |-> {}]]
    BY <2>1, LaunchShape
  <2>5. /\ cfg.n \in Nat \ {0} /\ 0 % cfg.n = 0
        /\ Least((g[1] + 1) * cfg.m, arg.seq) \in Nat \ {0} /\ arg.seq \in Nat \ {0}
    BY <2>1, LaunchShape
  <2> QED
    BY <1>1, <2>2, <2>3, <2>4, <2>5
<1>4. /\ pc = [g \in Grid |-> pc[g]] /\ start_n = [g \in Grid |-> start_n[g]]
      /\ reg = [g \in Grid |-> reg[g]]
  BY <1>1, <1>2 DEF Launched
<1>5. TritonTypes
  <2>1. \A g \in Grid :
          reg[g] = [m   |-> [i \in Lanes(cfg) |-> reg[g].m[i]],
                    l   |-> [i \in Lanes(cfg) |-> reg[g].l[i]],
                    acc |-> [i \in Lanes(cfg) |-> reg[g].acc[i]]]
    BY <1>3
  <2>2. reg = [g \in Grid |->
                 [m   |-> [i \in Lanes(cfg) |-> reg[g].m[i]],
                  l   |-> [i \in Lanes(cfg) |-> reg[g].l[i]],
                  acc |-> [i \in Lanes(cfg) |-> reg[g].acc[i]]]]
    BY <1>4, <2>1, Zenon
  <2>3. /\ pc \in [Grid -> {"tile", "store", "lse", "done"}]
        /\ start_n \in [Grid -> Nat]
    BY <1>3, <1>4
  <2> QED
    BY <1>1, <2>2, <2>3 DEF TritonTypes
<1>6. TritonLoops
  BY <1>3 DEF TritonLoops
<1>7. LaneStates
  BY <1>3 DEF LaneStates, LaneState
<1>8. Right(Out) /\ Right(Lse)
  BY <1>1 DEF Right
<1>9. Written
  BY <1>3 DEF Written
<1> QED
  BY <1>5, <1>6, <1>7, <1>8, <1>9 DEF TritonInv

LEMMA TuneKeeps ==
  ASSUME TritonInv, Tune
  PROVE  TritonInv'
<1>1. /\ UNCHANGED <<arg, Out, Lse>> /\ todo' = todo \ {cfg}
      /\ cfg' \in IF todo' = {} THEN Configs ELSE todo'
      /\ pc' = Launched(cfg', arg.seq).pc
      /\ start_n' = Launched(cfg', arg.seq).start_n
      /\ reg' = Launched(cfg', arg.seq).reg
  BY DEF Tune
<1>2. /\ arg \in [seq : 1 .. MaxSeq, causal : BOOLEAN] /\ todo \subseteq Configs
      /\ Out = [e \in Elements |-> Out[e]] /\ Lse = [e \in Elements |-> Lse[e]]
      /\ Right(Out) /\ Right(Lse)
  BY DEF TritonInv, TritonTypes
<1>3. /\ cfg' \in Configs /\ todo' \subseteq Configs /\ (todo' # {} => cfg' \in todo')
      /\ arg.seq \in 1 .. MaxSeq
  BY <1>1, <1>2
<1>4. /\ Grid' = GridOf(cfg', arg.seq)
      /\ \A g : hi(g)' = IF arg.causal THEN Least((g[1] + 1) * cfg'.m, arg.seq)
                                ELSE arg.seq
      /\ Elements' = Elements /\ Lanes(cfg)' = Lanes(cfg')
  BY <1>1 DEF Grid, GridOf, hi, Least, Elements, Lanes
<1>5. \A g \in Grid' :
        /\ pc'[g] = "tile" /\ start_n'[g] = 0
        /\ reg'[g] = [m   |-> [i \in Lanes(cfg') |-> NegInf],
                      l   |-> [i \in Lanes(cfg') |-> {}],
                      acc |-> [i \in Lanes(cfg') |-> {}]]
        /\ cfg'.n \in Nat \ {0} /\ 0 % cfg'.n = 0 /\ hi(g)' \in Nat \ {0}
  <2> TAKE g \in Grid'
  <2>1. g \in GridOf(cfg', arg.seq)
    BY <1>4
  <2>2. hi(g)' \in {Least((g[1] + 1) * cfg'.m, arg.seq), arg.seq}
    BY <1>4
  <2>3. /\ Launched(cfg', arg.seq).pc[g] = "tile"
        /\ Launched(cfg', arg.seq).start_n[g] = 0
        /\ Launched(cfg', arg.seq).reg[g] =
             [m   |-> [i \in Lanes(cfg') |-> NegInf],
              l   |-> [i \in Lanes(cfg') |-> {}],
              acc |-> [i \in Lanes(cfg') |-> {}]]
    BY <1>1, <1>3, <2>1, LaunchShape
  <2>4. /\ cfg'.n \in Nat \ {0} /\ 0 % cfg'.n = 0
        /\ Least((g[1] + 1) * cfg'.m, arg.seq) \in Nat \ {0} /\ arg.seq \in Nat \ {0}
    BY <1>1, <1>3, <2>1, LaunchShape
  <2> QED
    BY <1>1, <2>2, <2>3, <2>4
<1>6. /\ pc' = [g \in Grid' |-> pc'[g]] /\ start_n' = [g \in Grid' |-> start_n'[g]]
      /\ reg' = [g \in Grid' |-> reg'[g]]
  BY <1>1, <1>4 DEF Launched
<1>7. TritonTypes'
  <2>1. \A g \in Grid' :
          reg'[g] = [m   |-> [i \in Lanes(cfg') |-> reg'[g].m[i]],
                     l   |-> [i \in Lanes(cfg') |-> reg'[g].l[i]],
                     acc |-> [i \in Lanes(cfg') |-> reg'[g].acc[i]]]
    BY <1>5
  <2>2. reg' = [g \in Grid' |->
                  [m   |-> [i \in Lanes(cfg') |-> reg'[g].m[i]],
                   l   |-> [i \in Lanes(cfg') |-> reg'[g].l[i]],
                   acc |-> [i \in Lanes(cfg') |-> reg'[g].acc[i]]]]
    BY <1>6, <2>1, Zenon
  <2>3. /\ pc' \in [Grid' -> {"tile", "store", "lse", "done"}]
        /\ start_n' \in [Grid' -> Nat]
    BY <1>5, <1>6
  <2> QED
    BY <1>1, <1>2, <1>3, <1>4, <2>2, <2>3 DEF TritonTypes
<1>8. TritonLoops'
  BY <1>5 DEF TritonLoops
<1>9. LaneStates'
  BY <1>4, <1>5 DEF LaneStates, LaneState
<1>10. Right(Out)' /\ Right(Lse)'
  BY <1>1, <1>2, <1>4 DEF Right, IsReferenceOf
<1>11. Written'
  BY <1>5 DEF Written
<1> QED
  BY <1>7, <1>8, <1>9, <1>10, <1>11 DEF TritonInv
-----------------------------------------------------------------------------
(* The invariant of the Triton launches, whatever the tuner's choices.     *)
THEOREM TritonInvariance == GridSpec => []TritonInv
<1>1. GridInit => TritonInv
  BY TritonInitInv
<1>2. TritonInv /\ [GridNext]_(gridVars) => TritonInv'
  <2> SUFFICES ASSUME TritonInv, [GridNext]_(gridVars) PROVE TritonInv'
    OBVIOUS
  <2>1. CASE \E g \in Grid : Program(g)
    <3>1. PICK g \in Grid : Program(g)
      BY <2>1
    <3> QED
      BY <3>1, TileKeeps, StoreKeeps DEF Program
  <2>2. CASE Tune
    BY <2>2, TuneKeeps
  <2>3. CASE UNCHANGED gridVars
    <3>1. UNCHANGED <<arg, cfg, todo, pc, start_n, reg, Out, Lse>>
      BY <2>3 DEF gridVars
    <3>2. TritonTypes'
      <4>1. Grid' = Grid /\ Lanes(cfg)' = Lanes(cfg)
            /\ Elements' = Elements
        BY <3>1, SameLaunch DEF Elements
      <4> QED
        BY <3>1, <4>1 DEF TritonInv, TritonTypes
    <3>3. TritonLoops' /\ Written'
      BY <3>1, SameLaunch DEF TritonInv, TritonLoops, Written
    <3>4. LaneStates'
      BY <3>1, SameLaunch, SameLane DEF TritonInv, LaneStates
    <3>5. Right(Out)' /\ Right(Lse)'
      BY <3>1, SameLaunch DEF TritonInv, Right, Elements
    <3> QED
      BY <3>2, <3>3, <3>4, <3>5 DEF TritonInv
  <2> QED
    BY <2>1, <2>2, <2>3 DEF GridNext, GridFinished
<1> QED
  BY <1>1, <1>2, PTL DEF GridSpec

(* The loops of the programs stay aligned with the tiles and end behind    *)
(* the last key, for any block sizes, and no maximum becomes NaN.          *)
THEOREM TritonTypeCorrect == GridSpec => []GridTypeOK
<1>1. TritonInv => GridTypeOK
  <2> SUFFICES ASSUME TritonInv PROVE GridTypeOK
    OBVIOUS
  <2>1. \A g \in Grid : \A i \in Lanes(cfg) :
          reg[g].m[i] \in Int \cup {NegInf}
    BY DEF TritonInv, LaneStates, LaneState
  <2> QED
    BY <2>1 DEF GridTypeOK, GridTypeOK, TritonInv, TritonTypes, TritonLoops
<1> QED
  BY <1>1, TritonInvariance, PTL

(* Every element of O and Lse the Triton launches write is the reference   *)
(* softmax of its row, and when a launch is over none is missing.          *)
THEOREM TritonRowsCorrectHolds == GridSpec => []GridRowsCorrect
<1>1. TritonInv => GridRowsCorrect
  <2> SUFFICES ASSUME TritonInv, NEW A \in {Out, Lse}, NEW e \in Elements
               PROVE  /\ A[e] # NotStored =>
                           /\ e < Heads * arg.seq
                           /\ IsReferenceOf(e \div arg.seq, e % arg.seq, A[e])
                      /\ GridDone => (e < Heads * arg.seq => A[e] # NotStored)
    BY DEF GridRowsCorrect, GridRowsCorrect
  <2>1. Right(A) /\ TritonTypes /\ Written
    BY DEF TritonInv
  <2>2. ASSUME GridDone, e < Heads * arg.seq PROVE A[e] # NotStored
    <3>1. /\ cfg \in Configs /\ arg.seq \in 1 .. MaxSeq
      BY <2>1 DEF TritonTypes
    <3>2. PICK g \in GridOf(cfg, arg.seq), i \in Lanes(cfg) :
                 g[1] * cfg.m + i < arg.seq /\ e = g[2] * arg.seq + (g[1] * cfg.m + i)
      BY <2>2, <3>1, LaneOfPlace
    <3>3. g \in Grid /\ Live(g, i) /\ e = Place(g, i)
      BY <3>2 DEF Grid, Live, offs_m, Place, RowOf
    <3>4. pc[g] = "done"
      BY <2>2, <3>3 DEF GridDone
    <3> QED
      BY <2>1, <3>3, <3>4 DEF Written
  <2> QED
    BY <2>1, <2>2 DEF Right
<1> QED
  BY <1>1, TritonInvariance, PTL
-----------------------------------------------------------------------------
(* What the variables of Online are for a lane.                            *)
LaneMax(g, i) == IF reg[g].m[i] = NegInf THEN Sentinel ELSE reg[g].m[i]
LaneOut(g, i) == IF pc[g] \in {"tile", "store"} THEN NotStored ELSE Out[Place(g, i)]

LEMMA OnlineInit ==
  ASSUME NEW g, NEW i, Seen(g, i) = {}, LaneMax(g, i) = Sentinel,
         reg[g].l[i] = {}, reg[g].acc[i] = {}, LaneOut(g, i) = NotStored
  PROVE  LaneOnline(g, i)!Init
<1>1. Visible(offs_m(g, i), arg.seq, arg.causal) = LaneKeys(g, i)
  BY DEF LaneKeys, RowOf
<1> QED
  BY <1>1 DEF LaneOnline!Init, Seen, LaneMax, LaneOut, Place, RowOf

LEMMA OnlineSame ==
  ASSUME NEW g, NEW i,
         LaneScore(g, i)' = LaneScore(g, i), LaneKeys(g, i)' = LaneKeys(g, i),
         Seen(g, i)' = Seen(g, i), LaneMax(g, i)' = LaneMax(g, i),
         reg'[g].l[i] = reg[g].l[i], reg'[g].acc[i] = reg[g].acc[i],
         LaneOut(g, i)' = LaneOut(g, i)
  PROVE  UNCHANGED LaneOnline(g, i)!vars
<1>1. /\ Visible(offs_m(g, i), arg.seq, arg.causal) = LaneKeys(g, i)
      /\ Visible(offs_m(g, i), arg.seq, arg.causal)' = LaneKeys(g, i)'
  BY DEF LaneKeys, RowOf
<1> QED
  BY <1>1 DEF LaneOnline!vars, LaneScore, Seen, LaneMax, LaneOut, Place, RowOf

LEMMA OnlineFold ==
  ASSUME NEW g, NEW i, NEW S, S # {}, S \subseteq LaneKeys(g, i) \ Seen(g, i),
         LaneOut(g, i) = NotStored, LaneOut(g, i)' = NotStored,
         LaneScore(g, i)' = LaneScore(g, i), LaneKeys(g, i)' = LaneKeys(g, i),
         Seen(g, i)' = Seen(g, i) \cup S,
         IsMax(LaneMax(g, i)', LaneScore(g, i), Seen(g, i)'),
         reg'[g].l[i] = Weights(LaneScore(g, i), Seen(g, i)', LaneMax(g, i)'),
         reg'[g].acc[i] = reg'[g].l[i]
  PROVE  LaneOnline(g, i)!Next
<1>1. /\ Visible(offs_m(g, i), arg.seq, arg.causal) = LaneKeys(g, i)
      /\ Visible(offs_m(g, i), arg.seq, arg.causal)' = LaneKeys(g, i)'
  BY DEF LaneKeys, RowOf
<1>2. /\ \A sc, T, mx : LaneOnline(g, i)!Weights(sc, T, mx) = Weights(sc, T, mx)
      /\ \A sc, T, mx : LaneOnline(g, i)!IsMax(mx, sc, T) <=> IsMax(mx, sc, T)
  BY DEF LaneOnline!Weights, Weights, LaneOnline!IsMax, IsMax,
         LaneOnline!Vanishes, Vanishes
<1>3. LaneOnline(g, i)!Fold(S)
  BY <1>1, <1>2 DEF LaneOnline!Fold, LaneScore, Seen, LaneMax, LaneOut, Place, RowOf
<1>4. S \in SUBSET ({k \in LaneKeys(g, i) : TRUE} \ Seen(g, i))
  OBVIOUS
<1> QED
  BY <1>1, <1>3, <1>4 DEF LaneOnline!Next, LaneOnline!FoldSome, Seen

LEMMA OnlineStore ==
  ASSUME NEW g, NEW i, LaneOut(g, i) = NotStored, Seen(g, i) = LaneKeys(g, i),
         LaneOut(g, i)' = Result(reg[g].acc[i], reg[g].l[i], LaneMax(g, i)),
         LaneScore(g, i)' = LaneScore(g, i), LaneKeys(g, i)' = LaneKeys(g, i),
         Seen(g, i)' = Seen(g, i), LaneMax(g, i)' = LaneMax(g, i),
         reg'[g] = reg[g]
  PROVE  LaneOnline(g, i)!Next
<1>1. /\ Visible(offs_m(g, i), arg.seq, arg.causal) = LaneKeys(g, i)
      /\ Visible(offs_m(g, i), arg.seq, arg.causal)' = LaneKeys(g, i)'
  BY DEF LaneKeys, RowOf
<1>2. \A a, b, c : LaneOnline(g, i)!Result(a, b, c) = Result(a, b, c)
  BY DEF LaneOnline!Result, Result
<1>3. LaneOnline(g, i)!Store
  BY <1>1, <1>2 DEF LaneOnline!Store, LaneScore, Seen, LaneMax, LaneOut, Place, RowOf
<1> QED
  BY <1>3 DEF LaneOnline!Next

(* A program's step is a step of each of its own lanes, or none;           *)
LEMMA OwnLane ==
  ASSUME TritonInv, NEW g \in Grid, Program(g),
         NEW i \in Lanes(cfg), Live(g, i)
  PROVE  [LaneOnline(g, i)!Next]_(LaneOnline(g, i)!vars)
<1>1. TritonTypes /\ TritonLoops /\ LaneStates
  BY DEF TritonInv
<1>2. /\ start_n[g] \in Nat /\ cfg.n \in Nat \ {0} /\ NegInf \notin Int
      /\ pc \in [Grid -> {"tile", "store", "lse", "done"}]
      /\ start_n \in [Grid -> Nat] /\ reg = [x \in Grid |-> reg[x]]
  BY <1>1, LaneShape, FlashTritonAssumption DEF TritonTypes
<1>3. UNCHANGED <<arg, cfg>>
  BY DEF Program, GridTile, StoreO, StoreLse
<1>4. /\ LaneScore(g, i)' = LaneScore(g, i) /\ LaneKeys(g, i)' = LaneKeys(g, i)
      /\ Place(g, i)' = Place(g, i)
  BY <1>3, SameLaunch
<1>5. CASE GridTile(g)
  <2>1. /\ pc[g] = "tile" /\ reg'[g] = Update(g) /\ start_n'[g] = start_n[g] + cfg.n
        /\ pc'[g] \in {"tile", "store"}
    BY <1>2, <1>5 DEF GridTile, AfterTile
  <2>2. LaneOut(g, i) = NotStored /\ LaneOut(g, i)' = NotStored
    BY <2>1 DEF LaneOut
  <2> DEFINE mn == m_new(g, i)
             new == Arriving(g, i)
             all == Seen(g, i) \cup new
  <2>3. /\ all = {k \in LaneKeys(g, i) : k < start_n[g] + cfg.n}
        /\ Seen(g, i) \cap new = {}
        /\ mn \in Int /\ IsMax(mn, LaneScore(g, i), all)
        /\ Update(g).m[i] = mn
        /\ Update(g).l[i] = Weights(LaneScore(g, i), all, mn)
        /\ Update(g).acc[i] = Update(g).l[i]
        /\ new = {} => mn = reg[g].m[i] /\ start_n[g] # 0
    BY <1>1, LaneStep
  <2>4. new \subseteq LaneKeys(g, i)
    BY DEF Arriving
  <2>5. Seen(g, i)' = all
    BY <1>4, <2>1, <2>3 DEF Seen
  <2> HIDE DEF mn, new, all
  <2>6. LaneMax(g, i)' = mn
    BY <1>2, <2>1, <2>3 DEF LaneMax
  <2>7. /\ reg'[g].l[i] = Weights(LaneScore(g, i), Seen(g, i)', LaneMax(g, i)')
        /\ reg'[g].acc[i] = reg'[g].l[i]
        /\ IsMax(LaneMax(g, i)', LaneScore(g, i), Seen(g, i)')
    BY <2>1, <2>3, <2>5, <2>6
  <2>8. CASE new # {}
    <3>1. new \subseteq LaneKeys(g, i) \ Seen(g, i) /\ Seen(g, i)' = Seen(g, i) \cup new
      BY <2>3, <2>4, <2>5 DEF all
    <3>2. LaneOnline(g, i)!Next
      BY <1>4, <2>2, <2>7, <2>8, <3>1, OnlineFold
    <3> QED
      BY <3>2
  <2>9. CASE new = {}
    <3>1. start_n[g] # 0 /\ mn = reg[g].m[i] /\ Seen(g, i)' = Seen(g, i)
      BY <2>3, <2>5, <2>9 DEF all
    <3>2. /\ reg[g].m[i] \in Int
          /\ reg[g].l[i] = Weights(LaneScore(g, i), Seen(g, i), reg[g].m[i])
          /\ reg[g].acc[i] = reg[g].l[i]
      BY <1>1, <3>1 DEF LaneStates, LaneState
    <3>3. LaneMax(g, i) = mn
      BY <1>2, <3>1, <3>2 DEF LaneMax
    <3>4. reg'[g].l[i] = reg[g].l[i] /\ reg'[g].acc[i] = reg[g].acc[i]
      BY <2>6, <2>7, <3>1, <3>2
    <3>5. UNCHANGED LaneOnline(g, i)!vars
      BY <1>4, <2>2, <2>6, <3>1, <3>3, <3>4, OnlineSame
    <3> QED
      BY <3>5
  <2> QED
    BY <2>8, <2>9
<1>6. ASSUME UNCHANGED <<start_n, reg>>
      PROVE  /\ Seen(g, i)' = Seen(g, i) /\ LaneMax(g, i)' = LaneMax(g, i)
             /\ reg'[g] = reg[g]
  BY <1>4, <1>6 DEF Seen, LaneMax
<1>7. CASE StoreO(g)
  <2>1. /\ pc[g] = "store" /\ pc'[g] = "lse" /\ UNCHANGED <<start_n, reg>>
        /\ Out' = StoredBy(g, Out)
    BY <1>2, <1>7 DEF StoreO
  <2>2. Out'[Place(g, i)] = Lane(g, i) /\ Seen(g, i) = LaneKeys(g, i)
    BY <2>1, StoreWrites, LaneResult DEF TritonInv
  <2>3. reg[g].m[i] \in Int
    <3>1. start_n[g] # 0
      BY <1>1, <1>2, <2>1, LaneShape DEF TritonLoops
    <3> QED
      BY <1>1, <3>1 DEF LaneStates, LaneState
  <2>4. LaneMax(g, i) = reg[g].m[i]
    BY <1>2, <2>3 DEF LaneMax
  <2>5. /\ LaneOut(g, i) = NotStored
        /\ LaneOut(g, i)' = Result(reg[g].acc[i], reg[g].l[i], LaneMax(g, i))
    BY <1>4, <2>1, <2>2, <2>4 DEF LaneOut, Lane
  <2>6. LaneOnline(g, i)!Next
    BY <1>4, <1>6, <2>1, <2>2, <2>5, OnlineStore
  <2> QED
    BY <2>6
<1>8. CASE StoreLse(g)
  <2>1. /\ pc[g] = "lse" /\ pc'[g] = "done" /\ UNCHANGED <<start_n, reg, Out>>
    BY <1>2, <1>8 DEF StoreLse
  <2>2. LaneOut(g, i)' = LaneOut(g, i)
    BY <1>4, <2>1 DEF LaneOut
  <2>3. UNCHANGED LaneOnline(g, i)!vars
    BY <1>4, <1>6, <2>1, <2>2, OnlineSame
  <2> QED
    BY <2>3
<1> QED
  BY <1>5, <1>7, <1>8 DEF Program

(* and of no lane of another program.                                      *)
LEMMA OtherLane ==
  ASSUME TritonInv, NEW g \in Grid, Program(g),
         NEW x \in Grid, x # g, NEW i \in Lanes(cfg), Live(x, i)
  PROVE  UNCHANGED LaneOnline(x, i)!vars
<1>1. /\ pc \in [Grid -> {"tile", "store", "lse", "done"}]
      /\ start_n \in [Grid -> Nat] /\ reg = [y \in Grid |-> reg[y]]
  BY DEF TritonInv, TritonTypes
<1>2. UNCHANGED <<arg, cfg>>
  BY DEF Program, GridTile, StoreO, StoreLse
<1>3. start_n'[x] = start_n[x] /\ reg'[x] = reg[x] /\ pc'[x] = pc[x]
  BY <1>1 DEF Program, GridTile, StoreO, StoreLse
<1>4. /\ LaneScore(x, i)' = LaneScore(x, i) /\ LaneKeys(x, i)' = LaneKeys(x, i)
      /\ Place(x, i)' = Place(x, i) /\ Seen(x, i)' = Seen(x, i)
  BY <1>2, <1>3, SameLaunch DEF Seen
<1>5. Out'[Place(x, i)] = Out[Place(x, i)]
  <2>1. CASE StoreO(g)
    <3>1. pc[g] # "tile" /\ Out' = StoredBy(g, Out) /\ Right(Out)
      BY <2>1 DEF StoreO, TritonInv
    <3> QED
      BY <3>1, StoreWrites
  <2>2. CASE ~StoreO(g)
    BY <2>2 DEF Program, GridTile, StoreLse
  <2> QED
    BY <2>1, <2>2
<1>6. LaneOut(x, i)' = LaneOut(x, i) /\ LaneMax(x, i)' = LaneMax(x, i)
  BY <1>3, <1>4, <1>5 DEF LaneOut, LaneMax
<1> QED
  BY <1>3, <1>4, <1>6, OnlineSame

(* Each row of the sequence is a streaming softmax within a launch.        *)
THEOREM TritonRefinement == GridSpec => LanesImplementOnline
<1> DEFINE Starts == \A g \in Grid : \A i \in LiveLanes(g) :
                       LaneOnline(g, i)!Init
           Each == Tune \/ \A g \in Grid : \A i \in LiveLanes(g) :
                     [LaneOnline(g, i)!Next]_(LaneOnline(g, i)!vars)
<1>1. GridInit => Starts
  <2> SUFFICES ASSUME GridInit, NEW g \in Grid, NEW i \in LiveLanes(g)
               PROVE  LaneOnline(g, i)!Init
    OBVIOUS
  <2>1. TritonInv /\ i \in Lanes(cfg)
    BY TritonInitInv DEF LiveLanes
  <2>2. pc[g] = "tile" /\ start_n[g] = 0
    BY DEF GridInit, Launched, Grid
  <2>3. reg[g].m[i] = NegInf /\ reg[g].l[i] = {} /\ reg[g].acc[i] = {}
    BY <2>1, <2>2 DEF TritonInv, LaneStates, LaneState
  <2>4. Seen(g, i) = {}
    BY <2>1, <2>2, LaneShape DEF Seen, TritonInv
  <2> QED
    BY <2>2, <2>3, <2>4, OnlineInit DEF LaneMax, LaneOut
<1>2. TritonInv /\ [GridNext]_(gridVars) => [Each]_(gridVars)
  <2> SUFFICES ASSUME TritonInv, GridNext,
                      NEW x \in Grid, NEW i \in LiveLanes(x)
               PROVE  \/ Tune \/ UNCHANGED gridVars
                      \/ [LaneOnline(x, i)!Next]_(LaneOnline(x, i)!vars)
    OBVIOUS
  <2>1. i \in Lanes(cfg) /\ Live(x, i)
    BY DEF LiveLanes
  <2>2. CASE \E g \in Grid : Program(g)
    BY <2>1, <2>2, OwnLane, OtherLane
  <2> QED
    BY <2>2 DEF GridNext, GridFinished
<1>3. Starts /\ [][Each]_(gridVars) => LanesImplementOnline
  BY DEF LanesImplementOnline, LanesImplementOnline
<1> HIDE DEF Starts, Each
<1>4. GridSpec => Starts /\ [][Each]_(gridVars)
  BY <1>1, <1>2, TritonInvariance, PTL DEF GridSpec
<1> QED
  BY <1>3, <1>4
=============================================================================
