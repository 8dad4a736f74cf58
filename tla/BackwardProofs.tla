---------------------------- MODULE BackwardProofs ----------------------------
(***************************************************************************)
(* The backward passes. The CPU's accumulates exactly the gradients of the *)
(* visible pairs, in the order of the reference, for every number of heads *)
(* and rows and every size of a tile. A block of flash_bwd_dq_kernel or    *)
(* flash_bwd_dkv_kernel, for every block shape, head dimension and         *)
(* sequence: its threads stay in step, its tiles are not raced for, and    *)
(* the gradients it stores are the reference sums of its own rows, term by *)
(* term.                                                                   *)
(***************************************************************************)
EXTENDS FlashCpuBwd, FlashBwd, OperatorProofs

(* Between rows the loops over tiles and keys are at their start.          *)
AtStart == ~InRow => j0 = 0 /\ j = 0

IInv == TypeOK /\ SumsExact /\ AtStart
-----------------------------------------------------------------------------
(* Shape::row numbers the rows of all heads without collision,             *)
LEMMA RowInjective ==
  ASSUME NEW n \in Nat, NEW i \in Nat, NEW k \in Nat,
         NEW r \in 0 .. n - 1, NEW u \in 0 .. n - 1, i * n + r = k * n + u
  PROVE  i = k /\ r = u
<1>1. ASSUME NEW a \in Nat, NEW b \in Nat, a < b PROVE b * n >= a * n + n
  <2>1. PICK d \in Nat : b = a + 1 + d
    <3>1. b - a - 1 \in Nat /\ b = a + 1 + (b - a - 1)
      BY <1>1
    <3> QED BY <3>1
  <2>2. b * n = a * n + n + d * n
    BY <2>1
  <2>3. d * n >= 0
    BY <2>1
  <2> QED BY <2>1, <2>2, <2>3
<1>2. i * n \in Nat /\ k * n \in Nat
  OBVIOUS
<1>3. ~(i < k)
  <2>1. SUFFICES ASSUME i < k PROVE FALSE
    OBVIOUS
  <2>2. k * n >= i * n + n
    BY <1>1, <2>1
  <2> QED BY <1>2, <2>2
<1>4. ~(k < i)
  <2>1. SUFFICES ASSUME k < i PROVE FALSE
    OBVIOUS
  <2>2. i * n >= k * n + n
    BY <1>1, <2>1
  <2> QED BY <1>2, <2>2
<1> QED BY <1>2, <1>3, <1>4

(* and within the arrays.                                                  *)
LEMMA RowInRange ==
  ASSUME NEW H \in Nat, NEW M \in Nat, NEW n \in 0 .. M,
         NEW i \in 0 .. H - 1, NEW r \in 0 .. n - 1
  PROVE  i * n + r \in 0 .. H * M - 1
<1>1. PICK d \in Nat : H = i + 1 + d
  <2>1. H - i - 1 \in Nat /\ H = i + 1 + (H - i - 1)
    OBVIOUS
  <2> QED BY <2>1
<1>2. PICK e \in Nat : M = n + e
  <2>1. M - n \in Nat /\ M = n + (M - n)
    OBVIOUS
  <2> QED BY <2>1
<1>3. H * M = i * n + n + d * n + H * e
  <2>1. H * M = H * n + H * e
    BY <1>2
  <2>2. H * n = i * n + n + d * n
    BY <1>1
  <2> QED BY <2>1, <2>2
<1>4. i * n \in Nat /\ d * n \in Nat /\ H * e \in Nat
  BY <1>1, <1>2
<1> QED BY <1>3, <1>4

(* The next pair's term makes an ascending sum one longer.                 *)
Terms(p, a, b) == [k \in 1 .. b - a |-> p + (a + k - 1)]

LEMMA AppendTerm ==
  ASSUME NEW p \in Nat, NEW a \in Nat, NEW b \in Nat, a <= b
  PROVE  Append(Terms(p, a, b), p + b) = Terms(p, a, b + 1)
<1> USE DEF Terms
<1> DEFINE s == Terms(p, a, b)
           z == Terms(p, a, b + 1)
<1>1. PICK c \in Nat : c = b - a
  OBVIOUS
<1>2. s \in [1 .. c -> Nat] /\ DOMAIN s = 1 .. c
  BY <1>1
<1>3. s \in Seq(Nat) /\ Len(s) = c
  <2> HIDE DEF s
  <2> QED BY <1>2
<1>4. Append(s, p + b) = [k \in 1 .. c + 1 |-> IF k = c + 1 THEN p + b ELSE s[k]]
  <2> HIDE DEF s
  <2> QED BY <1>3
<1>5. \A k \in 1 .. c + 1 :
        (IF k = c + 1 THEN p + b ELSE s[k]) = p + (a + k - 1)
  BY <1>1
<1>6. 1 .. b + 1 - a = 1 .. c + 1
  BY <1>1
<1>7. z = [k \in 1 .. c + 1 |-> p + (a + k - 1)]
  BY <1>6
<1>8. Append(s, p + b) = z
  <2> HIDE DEF s, z
  <2> QED BY <1>4, <1>5, <1>7
<1> QED BY <1>8

LEMMA InHeadAscending ==
  ASSUME NEW i, NEW a, NEW b
  PROVE  InHead(i, Ascending(a, b)) = Terms(i * seq, a, b)
BY DEF InHead, Ascending, row, Terms

LEMMA AppendNext ==
  ASSUME seq \in Nat, NEW i \in Nat, NEW a \in Nat, NEW b \in Nat, a <= b
  PROVE  Append(InHead(i, Ascending(a, b)), row(i, b))
           = InHead(i, Ascending(a, b + 1))
<1>1. PICK p \in Nat : p = i * seq
  OBVIOUS
<1>2. Append(Terms(p, a, b), p + b) = Terms(p, a, b + 1)
  BY AppendTerm
<1>3. InHead(i, Ascending(a, b)) = Terms(p, a, b)
  BY <1>1, InHeadAscending
<1>4. InHead(i, Ascending(a, b + 1)) = Terms(p, a, b + 1)
  BY <1>1, InHeadAscending
<1>5. row(i, b) = p + b
  BY <1>1 DEF row
<1> QED
  BY <1>2, <1>3, <1>4, <1>5

(* A sum over no rows is empty.                                            *)
LEMMA NoTerms ==
  ASSUME NEW i, NEW a \in Int, NEW b \in Int, b <= a
  PROVE  InHead(i, Ascending(a, b)) = <<>>
BY DEF InHead, Ascending
-----------------------------------------------------------------------------
(* The terms row r of head i has received: the keys of dQ and the end of   *)
(* the queries of dK and dV.                                               *)
KeysSeen(i, r) ==
  IF i < h \/ (i = h /\ r < t) THEN kmax(r, seq, causal)
  ELSE IF i = h /\ r = t THEN Progress ELSE 0

QueriesSeen(i, r) ==
  IF i < h THEN seq
  ELSE IF i > h THEN 0
  ELSE IF t < seq /\ r < Progress THEN t + 1 ELSE t

SumOf(i, r) ==
  /\ dQ[row(i, r)] = InHead(i, Ascending(0, KeysSeen(i, r)))
  /\ dKV[row(i, r)] = InHead(i, Ascending(FirstQuery(r, causal), QueriesSeen(i, r)))

LEMMA SumsBySum ==
  SumsExact <=> \A i \in 0 .. Heads - 1, r \in 0 .. seq - 1 : SumOf(i, r)
BY DEF SumsExact, SumOf, KeysSeen, QueriesSeen

(* The integers of the state.                                              *)
LEMMA Ranges ==
  ASSUME TypeOK
  PROVE  /\ TILE_N \in Nat \ {0} /\ Heads \in Nat /\ MaxSeq \in Nat
         /\ seq \in Nat /\ seq <= MaxSeq /\ causal \in BOOLEAN
         /\ h \in Nat /\ t \in Nat /\ j0 \in Nat /\ j \in Nat
         /\ h <= Heads /\ t <= seq /\ j0 <= seq + TILE_N /\ j <= TILE_N
BY FlashCpuBwdAssumption DEF TypeOK

(* A pair is visible and is the next one of its row.                       *)
LEMMA KeyProgress ==
  ASSUME TypeOK, Key
  PROVE  /\ h \in 0 .. Heads - 1 /\ t \in 0 .. seq - 1
         /\ j0 + j \in 0 .. seq - 1 /\ (causal => j0 + j <= t)
         /\ j + 1 <= TILE_N
         /\ Progress = j0 + j /\ Progress' = j0 + j + 1
         /\ Progress < kmax(t, seq, causal)
<1>1. /\ h < Heads /\ t < seq /\ ~(j >= jn) /\ ~(causal /\ j0 + j > t)
      /\ jn \in Int /\ jn <= TILE_N /\ jn <= seq - j0
  BY Ranges DEF Key, InRow, KeysDone, jn
<1>2. UNCHANGED <<seq, causal, t, j0>> /\ j' = j + 1
  BY DEF Key
<1> QED
  BY <1>1, <1>2, Ranges DEF Progress, kmax

(* A skipped tile and the masked rest of one leave the progress as it is.  *)
LEMMA TileProgress ==
  ASSUME TypeOK, NextTile
  PROVE  Progress' = Progress /\ j0 < seq
<1>1. /\ t < seq /\ j0 < seq /\ (j >= jn \/ (causal /\ j0 + j > t))
      /\ (jn = TILE_N \/ jn = seq - j0)
  BY Ranges DEF NextTile, InRow, TilesDone, KeysDone, jn
<1>2. UNCHANGED <<seq, causal, t>> /\ j0' = j0 + TILE_N /\ j' = 0
  BY DEF NextTile
<1>3. CASE j >= jn /\ jn = TILE_N
  BY <1>1, <1>2, <1>3, Ranges DEF Progress, kmax
<1>4. CASE j >= jn /\ jn = seq - j0
  BY <1>1, <1>2, <1>4, Ranges DEF Progress, kmax
<1>5. CASE causal /\ j0 + j > t
  BY <1>1, <1>2, <1>5, Ranges DEF Progress, kmax
<1> QED
  BY <1>1, <1>3, <1>4, <1>5

(* A row is left when every key it sees has been added.                    *)
LEMMA RowProgress ==
  ASSUME TypeOK, NextRow
  PROVE  /\ h < Heads /\ t < seq
         /\ Progress = kmax(t, seq, causal) /\ Progress' = 0
<1>1. h < Heads /\ t < seq /\ (j0 >= seq \/ (causal /\ j0 > t))
  BY DEF NextRow, InRow, TilesDone
<1>2. UNCHANGED <<seq, causal>> /\ t' = t + 1 /\ j0' = 0 /\ j' = 0
  BY DEF NextRow
<1> QED
  BY <1>1, <1>2, Ranges DEF Progress, kmax
-----------------------------------------------------------------------------
(* The next key is added to the sum of its query row and the query to the  *)
(* sums of its key row; the other sums stay.                               *)
LEMMA KeyStep ==
  ASSUME IInv, Key
  PROVE  IInv'
<1> DEFINE k == j0 + j
           e == row(h, t)
           g == row(h, k)
<1>1. TypeOK /\ SumsExact /\ AtStart
  BY DEF IInv
<1>2. /\ h \in 0 .. Heads - 1 /\ t \in 0 .. seq - 1
      /\ k \in 0 .. seq - 1 /\ (causal => k <= t)
      /\ j + 1 <= TILE_N
      /\ Progress = k /\ Progress' = k + 1
      /\ Progress < kmax(t, seq, causal)
  BY <1>1, KeyProgress
<1>3. /\ dQ' = [dQ EXCEPT ![e] = Append(@, g)]
      /\ dKV' = [dKV EXCEPT ![g] = Append(@, e)]
      /\ j' = j + 1 /\ UNCHANGED <<seq, causal, h, t, j0>>
  BY DEF Key
<1>4. e \in Elements /\ g \in Elements
  BY <1>1, <1>2, Ranges, RowInRange DEF row, Elements
<1>5. /\ dQ \in [Elements -> Seq(Elements)] /\ dKV \in [Elements -> Seq(Elements)]
  BY <1>1 DEF TypeOK
<1>6. TypeOK'
  <2>1. dQ' \in [Elements -> Seq(Elements)] /\ dKV' \in [Elements -> Seq(Elements)]
    <3> HIDE DEF e, g
    <3>1. Append(dQ[e], g) \in Seq(Elements) /\ Append(dKV[g], e) \in Seq(Elements)
      BY <1>4, <1>5
    <3> QED
      BY <1>3, <1>4, <1>5, <3>1
  <2>2. (InRow /\ ~TilesDone /\ ~KeysDone => j0 + j < seq)'
    BY <1>1, <1>3, Ranges DEF KeysDone, jn
  <2>3. seq' \in 0 .. MaxSeq /\ causal' \in BOOLEAN /\ h' \in 0 .. Heads /\ t' \in 0 .. seq'
    BY <1>1, <1>3 DEF TypeOK
  <2>4. j0' \in 0 .. seq' + TILE_N /\ j' \in 0 .. TILE_N
    <3>1. j0' = j0 /\ seq' = seq /\ j' = j + 1
      BY <1>3
    <3> HIDE DEF e, g, k
    <3> QED
      BY <1>1, <1>2, <3>1, Ranges
  <2> QED
    BY <2>1, <2>2, <2>3, <2>4 DEF TypeOK
<1>7. SumsExact'
  <2> SUFFICES ASSUME NEW i \in 0 .. Heads - 1, NEW r \in 0 .. seq - 1
               PROVE  SumOf(i, r)'
    BY <1>3, SumsBySum DEF SumsExact, SumOf, KeysSeen, QueriesSeen
  <2>1. SumOf(i, r)
    BY <1>1, SumsBySum
  <2>2. row(i, r) \in Elements /\ row(i, r)' = row(i, r)
    <3>1. seq \in 0 .. MaxSeq /\ Heads \in Nat /\ MaxSeq \in Nat
      BY <1>1, Ranges
    <3>2. i * seq + r \in 0 .. Heads * MaxSeq - 1
      BY <3>1, RowInRange
    <3> QED
      BY <1>3, <3>2 DEF row, Elements
  <2>3. \A a, b : InHead(i, Ascending(a, b))' = InHead(i, Ascending(a, b))
    BY <1>3 DEF InHead, Ascending, row
  <2>4. row(i, r) = e => i = h /\ r = t
    BY <1>1, <1>2, Ranges, RowInjective DEF row
  <2>5. row(i, r) = g => i = h /\ r = k
    BY <1>1, <1>2, Ranges, RowInjective DEF row
  <2>6. dQ'[row(i, r)] = InHead(i, Ascending(0, KeysSeen(i, r)'))
    <3>1. CASE i = h /\ r = t
      <4>1. KeysSeen(i, r) = k /\ KeysSeen(i, r)' = k + 1
        BY <1>1, <1>2, <1>3, <3>1, Ranges DEF KeysSeen
      <4>2. dQ'[row(i, r)] = Append(dQ[e], g)
        BY <1>3, <1>4, <1>5, <3>1
      <4>3. Append(InHead(h, Ascending(0, k)), row(h, k))
              = InHead(h, Ascending(0, k + 1))
        <5>1. h \in Nat /\ seq \in Nat /\ k \in Nat /\ 0 <= k
          BY <1>1, Ranges
        <5> HIDE DEF k
        <5> QED
          BY <5>1, AppendNext
      <4> QED
        BY <2>1, <3>1, <4>1, <4>2, <4>3 DEF SumOf
    <3>2. CASE ~(i = h /\ r = t)
      <4>1. KeysSeen(i, r)' = KeysSeen(i, r)
        BY <1>3, <3>2 DEF KeysSeen
      <4>2. dQ'[row(i, r)] = dQ[row(i, r)]
        BY <1>3, <1>5, <2>2, <2>4, <3>2
      <4> QED
        BY <2>1, <4>1, <4>2 DEF SumOf
    <3> QED
      BY <3>1, <3>2
  <2>7. dKV'[row(i, r)]
          = InHead(i, Ascending(FirstQuery(r, causal), QueriesSeen(i, r)'))
    <3>1. CASE i = h /\ r = k
      <4>1. QueriesSeen(i, r) = t /\ QueriesSeen(i, r)' = t + 1
        <5>1. /\ h \in Nat /\ k \in Nat /\ t < seq
              /\ ~(i < h) /\ ~(i > h) /\ ~(r < Progress) /\ r < Progress'
          BY <1>1, <1>2, <3>1, Ranges
        <5>2. ~(i < h') /\ ~(i > h') /\ t' < seq' /\ t' = t
          BY <1>3, <5>1
        <5> QED
          BY <5>1, <5>2 DEF QueriesSeen
      <4>2. dKV'[row(i, r)] = Append(dKV[g], e)
        BY <1>3, <1>4, <1>5, <3>1
      <4>3. PICK f \in Nat : f = FirstQuery(r, causal) /\ f <= t
        BY <1>1, <1>2, <3>1, Ranges DEF FirstQuery
      <4>4. Append(InHead(h, Ascending(f, t)), row(h, t))
              = InHead(h, Ascending(f, t + 1))
        <5>1. h \in Nat /\ seq \in Nat /\ t \in Nat /\ f <= t
          BY <1>1, <4>3, Ranges
        <5> QED
          BY <5>1, AppendNext
      <4> QED
        BY <2>1, <3>1, <4>1, <4>2, <4>3, <4>4 DEF SumOf
    <3>2. CASE ~(i = h /\ r = k)
      <4>1. QueriesSeen(i, r)' = QueriesSeen(i, r)
        <5>1. /\ h \in Nat /\ k \in Nat /\ (i = h => (r < Progress <=> r < Progress'))
          BY <1>1, <1>2, <3>2, Ranges
        <5>2. ~(i < h) /\ ~(i > h) <=> i = h
          BY <5>1
        <5> QED
          BY <1>3, <5>1, <5>2 DEF QueriesSeen
      <4>2. dKV'[row(i, r)] = dKV[row(i, r)]
        BY <1>3, <1>5, <2>2, <2>5, <3>2
      <4> QED
        BY <2>1, <4>1, <4>2 DEF SumOf
    <3> QED
      BY <3>1, <3>2
  <2> HIDE DEF e, g, k
  <2> QED
    BY <1>3, <2>2, <2>3, <2>6, <2>7 DEF SumOf
<1>8. AtStart'
  BY <1>1, <1>2, <1>3, Ranges DEF AtStart, InRow
<1> QED
  BY <1>6, <1>7, <1>8 DEF IInv

(* A step that adds no term keeps the sums when it moves no count, or      *)
(* moves the queries of a key that none of them sees yet.                  *)
LEMMA SumsStay ==
  ASSUME TypeOK, SumsExact, UNCHANGED <<seq, causal, dQ, dKV>>,
         \A i \in 0 .. Heads - 1, r \in 0 .. seq - 1 :
           /\ KeysSeen(i, r)' = KeysSeen(i, r)
           /\ \/ QueriesSeen(i, r)' = QueriesSeen(i, r)
              \/ /\ QueriesSeen(i, r) \in Nat /\ QueriesSeen(i, r)' \in Nat
                 /\ QueriesSeen(i, r) <= FirstQuery(r, causal)
                 /\ QueriesSeen(i, r)' <= FirstQuery(r, causal)
  PROVE  SumsExact'
<1> SUFFICES ASSUME NEW i \in 0 .. Heads - 1, NEW r \in 0 .. seq - 1
             PROVE  SumOf(i, r)'
  BY SumsBySum DEF SumsExact, SumOf, KeysSeen, QueriesSeen
<1>1. SumOf(i, r)
  BY SumsBySum
<1>2. row(i, r)' = row(i, r)
  BY DEF row
<1>3. \A a, b : InHead(i, Ascending(a, b))' = InHead(i, Ascending(a, b))
  BY DEF InHead, Ascending, row
<1>4. dQ[row(i, r)] = InHead(i, Ascending(0, KeysSeen(i, r)'))
  BY <1>1 DEF SumOf
<1>5. dKV[row(i, r)]
        = InHead(i, Ascending(FirstQuery(r, causal), QueriesSeen(i, r)'))
  <2>1. CASE QueriesSeen(i, r)' = QueriesSeen(i, r)
    BY <1>1, <2>1 DEF SumOf
  <2>2. CASE /\ QueriesSeen(i, r) \in Nat /\ QueriesSeen(i, r)' \in Nat
             /\ QueriesSeen(i, r) <= FirstQuery(r, causal)
             /\ QueriesSeen(i, r)' <= FirstQuery(r, causal)
    <3>1. PICK f \in Int : f = FirstQuery(r, causal)
      BY Ranges DEF FirstQuery
    <3>2. PICK a \in Nat : a = QueriesSeen(i, r)
      BY <2>2
    <3>3. PICK b \in Nat : b = QueriesSeen(i, r)'
      BY <2>2
    <3>4. InHead(i, Ascending(f, a)) = <<>> /\ InHead(i, Ascending(f, b)) = <<>>
      BY <2>2, <3>1, <3>2, <3>3, NoTerms
    <3> QED
      BY <1>1, <3>1, <3>2, <3>3, <3>4 DEF SumOf
  <2> QED
    BY <2>1, <2>2
<1> QED
  BY <1>2, <1>3, <1>4, <1>5 DEF SumOf

LEMMA TileStep ==
  ASSUME IInv, NextTile
  PROVE  IInv'
<1>1. TypeOK /\ SumsExact /\ AtStart
  BY DEF IInv
<1>2. Progress' = Progress /\ j0 < seq
  BY <1>1, TileProgress
<1>3. /\ InRow /\ j0' = j0 + TILE_N /\ j' = 0
      /\ UNCHANGED <<seq, causal, h, t, dQ, dKV>>
  BY DEF NextTile
<1>4. TypeOK'
  <2>1. j0' \in 0 .. seq + TILE_N /\ j' \in 0 .. TILE_N
    BY <1>1, <1>2, <1>3, Ranges
  <2>2. (InRow /\ ~TilesDone /\ ~KeysDone => j0 + j < seq)'
    BY <1>1, <1>3, Ranges DEF KeysDone, TilesDone, jn
  <2> QED
    BY <1>1, <1>3, <2>1, <2>2 DEF TypeOK
<1>5. SumsExact'
  BY <1>1, <1>2, <1>3, SumsStay DEF KeysSeen, QueriesSeen
<1>6. AtStart'
  BY <1>3 DEF AtStart, InRow
<1> QED
  BY <1>4, <1>5, <1>6 DEF IInv

LEMMA RowStep ==
  ASSUME IInv, NextRow
  PROVE  IInv'
<1>1. TypeOK /\ SumsExact /\ AtStart
  BY DEF IInv
<1>2. /\ h < Heads /\ t < seq
      /\ Progress = kmax(t, seq, causal) /\ Progress' = 0
  BY <1>1, RowProgress
<1>3. /\ t' = t + 1 /\ j0' = 0 /\ j' = 0
      /\ UNCHANGED <<seq, causal, h, dQ, dKV>>
  BY DEF NextRow
<1>4. TypeOK'
  <2>1. t' \in 0 .. seq /\ j0' \in 0 .. seq + TILE_N /\ j' \in 0 .. TILE_N
    BY <1>1, <1>2, <1>3, Ranges
  <2>2. (InRow /\ ~TilesDone /\ ~KeysDone => j0 + j < seq)'
    BY <1>1, <1>3, Ranges DEF KeysDone, TilesDone, jn
  <2> QED
    BY <1>1, <1>3, <2>1, <2>2 DEF TypeOK
<1>5. SumsExact'
  <2>1. ASSUME NEW i \in 0 .. Heads - 1, NEW r \in 0 .. seq - 1
        PROVE  KeysSeen(i, r)' = KeysSeen(i, r)
    BY <1>1, <1>2, <1>3, Ranges DEF KeysSeen
  <2>2. ASSUME NEW i \in 0 .. Heads - 1, NEW r \in 0 .. seq - 1
        PROVE  \/ QueriesSeen(i, r)' = QueriesSeen(i, r)
               \/ /\ QueriesSeen(i, r) \in Nat /\ QueriesSeen(i, r)' \in Nat
                  /\ QueriesSeen(i, r) <= FirstQuery(r, causal)
                  /\ QueriesSeen(i, r)' <= FirstQuery(r, causal)
    <3>1. CASE i # h
      BY <1>1, <1>3, <3>1, Ranges DEF QueriesSeen
    <3>2. CASE i = h
      <4>1. /\ QueriesSeen(i, r) = (IF r < kmax(t, seq, causal) THEN t + 1 ELSE t)
            /\ QueriesSeen(i, r)' = t + 1
        BY <1>1, <1>2, <1>3, <3>2, Ranges DEF QueriesSeen
      <4> QED
        BY <1>1, <4>1, Ranges DEF kmax, FirstQuery
    <3> QED
      BY <3>1, <3>2
  <2> QED
    BY <1>1, <1>3, <2>1, <2>2, SumsStay
<1>6. AtStart'
  BY <1>3 DEF AtStart
<1> QED
  BY <1>4, <1>5, <1>6 DEF IInv

LEMMA HeadStep ==
  ASSUME IInv, NextHead
  PROVE  IInv'
<1>1. TypeOK /\ SumsExact /\ AtStart
  BY DEF IInv
<1>2. /\ h < Heads /\ t = seq /\ j0 = 0 /\ j = 0
  BY <1>1, Ranges DEF NextHead, AtStart, InRow
<1>3. /\ h' = h + 1 /\ t' = 0
      /\ UNCHANGED <<seq, causal, j0, j, dQ, dKV>>
  BY DEF NextHead
<1>4. TypeOK'
  <2>1. h' \in 0 .. Heads /\ t' \in 0 .. seq
    BY <1>1, <1>2, <1>3, Ranges
  <2>2. (InRow /\ ~TilesDone /\ ~KeysDone => j0 + j < seq)'
    BY <1>1, <1>2, <1>3, Ranges DEF KeysDone, TilesDone, jn
  <2> QED
    BY <1>1, <1>3, <2>1, <2>2 DEF TypeOK
<1>5. Progress' = 0
  BY <1>1, <1>2, <1>3, Ranges DEF Progress, kmax
<1>6. SumsExact'
  <2>1. ASSUME NEW i \in 0 .. Heads - 1, NEW r \in 0 .. seq - 1
        PROVE  KeysSeen(i, r)' = KeysSeen(i, r)
    BY <1>1, <1>2, <1>3, <1>5, Ranges DEF KeysSeen
  <2>2. ASSUME NEW i \in 0 .. Heads - 1, NEW r \in 0 .. seq - 1
        PROVE  QueriesSeen(i, r)' = QueriesSeen(i, r)
    BY <1>1, <1>2, <1>3, <1>5, Ranges DEF QueriesSeen
  <2> QED
    BY <1>1, <1>3, <2>1, <2>2, SumsStay
<1>7. AtStart'
  BY <1>2, <1>3 DEF AtStart
<1> QED
  BY <1>4, <1>6, <1>7 DEF IInv

LEMMA Initially == Init => IInv
<1> SUFFICES ASSUME Init PROVE IInv
  OBVIOUS
<1>1. /\ seq \in 0 .. MaxSeq /\ causal \in BOOLEAN
      /\ h = 0 /\ t = 0 /\ j0 = 0 /\ j = 0
      /\ dQ = [e \in Elements |-> <<>>] /\ dKV = [e \in Elements |-> <<>>]
  BY DEF Init
<1>2. TypeOK
  <2>1. h \in 0 .. Heads /\ t \in 0 .. seq /\ j0 \in 0 .. seq + TILE_N /\ j \in 0 .. TILE_N
    BY <1>1, FlashCpuBwdAssumption
  <2>2. <<>> \in Seq(Elements)
    OBVIOUS
  <2>3. InRow /\ ~TilesDone /\ ~KeysDone => j0 + j < seq
    BY <1>1 DEF InRow
  <2> QED
    BY <1>1, <2>1, <2>2, <2>3 DEF TypeOK
<1>3. SumsExact
  <2> SUFFICES ASSUME NEW i \in 0 .. Heads - 1, NEW r \in 0 .. seq - 1
               PROVE  SumOf(i, r)
    BY SumsBySum
  <2>1. row(i, r) \in Elements
    BY <1>2, Ranges, RowInRange DEF row, Elements
  <2>2. Progress = 0
    BY <1>1, <1>2, Ranges DEF Progress, kmax
  <2>3. KeysSeen(i, r) = 0 /\ QueriesSeen(i, r) = 0
    BY <1>1, <2>2 DEF KeysSeen, QueriesSeen
  <2>4. PICK f \in Nat : f = FirstQuery(r, causal)
    BY DEF FirstQuery
  <2>5. InHead(i, Ascending(0, 0)) = <<>> /\ InHead(i, Ascending(f, 0)) = <<>>
    BY NoTerms
  <2> QED
    BY <1>1, <2>1, <2>3, <2>4, <2>5 DEF SumOf
<1>4. AtStart
  BY <1>1 DEF AtStart
<1> QED
  BY <1>2, <1>3, <1>4 DEF IInv

LEMMA StutterStep ==
  ASSUME IInv, UNCHANGED vars
  PROVE  IInv'
<1>1. TypeOK /\ SumsExact /\ AtStart
  BY DEF IInv
<1>2. UNCHANGED <<seq, causal, h, t, j0, j, dQ, dKV>>
  BY DEF vars
<1>3. UNCHANGED Progress
  BY <1>2 DEF Progress
<1>4. TypeOK'
  BY <1>1, <1>2 DEF TypeOK, InRow, TilesDone, KeysDone, jn
<1>5. SumsExact'
  BY <1>1, <1>2, <1>3, SumsStay DEF KeysSeen, QueriesSeen
<1>6. AtStart'
  BY <1>1, <1>2 DEF AtStart, InRow
<1> QED
  BY <1>4, <1>5, <1>6 DEF IInv

LEMMA Invariance == Spec => []IInv
<1>1. IInv /\ [Next]_vars => IInv'
  BY KeyStep, TileStep, RowStep, HeadStep, StutterStep DEF Next, Finished
<1> QED
  BY <1>1, Initially, PTL DEF Spec

(* Every index attention_flash_cpu_bwd forms is a row of the call.         *)
THEOREM TypeCorrect == Spec => []TypeOK
BY Invariance, PTL DEF IInv

(* At every point of attention_flash_cpu_bwd each sum of a gradient holds  *)
(* exactly the visible terms behind the loops, in ascending order.         *)
THEOREM SumsHold == Spec => []SumsExact
BY Invariance, PTL DEF IInv
-----------------------------------------------------------------------------
(* The key loop of the reference.                                          *)
RefKey == IF InRow THEN Progress ELSE 0

LEMMA InitReference == Init => Reference!Init
<1> SUFFICES ASSUME Init PROVE Reference!Init
  OBVIOUS
<1>1. TypeOK
  BY Initially DEF IInv
<1>2. RefKey = 0
  BY <1>1, Ranges DEF Init, RefKey, Progress, kmax
<1>3. ASSUME NEW i \in 0 .. Heads - 1, NEW r \in 0 .. seq - 1
      PROVE  row(i, r) \in Elements
  BY <1>1, Ranges, RowInRange DEF row, Elements
<1> QED
  BY <1>2, <1>3 DEF Init, RefKey, row, Reference!Init, Reference!row

LEMMA StepReference ==
  ASSUME IInv, [Next]_vars
  PROVE  [Reference!Next]_(Reference!vars)
<1>1. TypeOK /\ AtStart
  BY DEF IInv
<1>2. CASE Key
  <2>1. /\ h < Heads /\ t < seq /\ InRow /\ InRow'
        /\ RefKey = j0 + j /\ RefKey' = RefKey + 1
        /\ RefKey < kmax(t, seq, causal)
    BY <1>1, <1>2, KeyProgress, Ranges DEF Key, InRow, RefKey
  <2>2. Reference!AddPair
    BY <1>2, <2>1 DEF Key, RefKey, row, kmax,
       Reference!AddPair, Reference!row, Reference!kmax
  <2> QED
    BY <2>2 DEF Reference!Next
<1>3. CASE NextTile
  <2>1. UNCHANGED <<seq, causal, h, t, dQ, dKV>> /\ RefKey' = RefKey
    BY <1>1, <1>3, TileProgress DEF NextTile, InRow, RefKey
  <2> QED
    BY <2>1 DEF RefKey, Reference!vars
<1>4. CASE NextRow
  <2>1. /\ h < Heads /\ t < seq
        /\ RefKey = kmax(t, seq, causal) /\ RefKey' = 0
    BY <1>1, <1>4, RowProgress DEF RefKey, InRow
  <2>2. RefKey >= kmax(t, seq, causal)
    BY <1>1, <2>1, Ranges DEF kmax
  <2>3. Reference!NextRow
    BY <1>4, <2>1, <2>2 DEF NextRow, RefKey, kmax,
       Reference!NextRow, Reference!kmax
  <2> QED
    BY <2>3 DEF Reference!Next
<1>5. CASE NextHead
  <2>1. RefKey = 0 /\ RefKey' = 0
    BY <1>1, <1>5, Ranges DEF NextHead, RefKey, InRow, AtStart, Progress, kmax
  <2>2. Reference!NextHead
    BY <1>5, <2>1 DEF NextHead, RefKey, Reference!NextHead
  <2> QED
    BY <2>2 DEF Reference!Next
<1>6. CASE UNCHANGED vars
  BY <1>6 DEF vars, InRow, Progress, Reference!vars
<1> QED
  BY <1>2, <1>3, <1>4, <1>5, <1>6 DEF Next, Finished

(* attention_flash_cpu_bwd implements attention_backward_reference: the    *)
(* same terms are added to the same sums in the same order.                *)
THEOREM Refinement == Spec => ImplementsReference
<1>1. Spec => Init /\ [][Next]_vars /\ []IInv
  BY Invariance DEF Spec
<1> QED
  BY <1>1, InitReference, StepReference, PTL DEF ImplementsReference, Reference!Spec
-----------------------------------------------------------------------------
Points == {"load", "stats", "sync1", "dot", "shfl", "fold", "sync2", "store", "done"}
Counts == [i : Nat, r0 : 0 .. MaxSeq + BLOCK_N, r : 0 .. BLOCK_N]

(* The launch, and the shape of the state.                                 *)
Shape ==
  /\ arg \in [kernel : {"dq", "dkv"}, seq : 1 .. MaxSeq, causal : BOOLEAN, cta : Nat]
  /\ first < arg.seq
  /\ pc \in [Threads -> Points]
  /\ at \in [Threads -> Counts]
  /\ part = [x \in Threads |-> part[x]]
  /\ grad = [x \in Threads |-> grad[x]]
  /\ out = [k \in Rows |-> [hf \in 0 .. 1 |-> out[k][hf]]]

(* The block is copying a tile, using it, or past the last one.            *)
tile == at[0].r0
Over(x) == pc[x] \in {"store", "done"}

InPhase ==
  /\ \/ (\A x \in Threads : Copying(x)) /\ tile < End
     \/ (\A x \in Threads : Using(x)) /\ tile < End
     \/ (\A x \in Threads : Over(x)) /\ End <= tile
  /\ tile < End + BLOCK_N

Counters ==
  \A x \in Threads :
    /\ at[x].r0 = tile
    /\ pc[x] \in {"dot", "shfl", "fold"} => at[x].r < rn(x)
    /\ pc[x] = "sync2" => at[x].r = rn(x)
    /\ Copying(x) \/ Over(x) => at[x].r = 0

(* The pairs of shuffles a thread has taken part in, this tile: as many as *)
(* every other thread of its warp.                                         *)
Shuffles(x) == IF pc[x] = "fold" THEN at[x].r + 1 ELSE at[x].r

InWarp ==
  \A x, y \in Threads : x \div WARP = y \div WARP => Shuffles(x) = Shuffles(y)

Schedule == InPhase /\ Counters /\ InWarp

(* The slots a thread is done with in its two strided copies hold the      *)
(* tile, and its rows of lse and D; so do all of them once it is in use.   *)
Copied(s) == T[s] = tile * DIM4 + s
Listed(r) == Stats[r] = tile + r
Behind(x, point, i) == pc[x] = point => i < at[x].i

Copies ==
  /\ \A x \in Threads : Copying(x) =>
       /\ at[x].i % NTHREADS = x
       /\ \A s \in Slots : s % NTHREADS = x /\ s < rn(x) * DIM4 /\ Behind(x, "load", s)
                             => Copied(s)
       /\ OwnsKeys /\ pc[x] # "load" =>
            \A r \in 0 .. BLOCK_N - 1 :
              r % NTHREADS = x /\ r < rn(x) /\ Behind(x, "stats", r) => Listed(r)
  /\ \A x \in Threads : Using(x) =>
       /\ \A s \in Slots : s < rn(x) * DIM4 => Copied(s)
       /\ OwnsKeys => \A r \in 0 .. BLOCK_N - 1 : r < rn(x) => Listed(r)

(* What the two halves of the dot products are made of.                    *)
Halves ==
  \A x \in Threads :
    /\ pc[x] = "shfl" => part[x] = HalfChunks(x, tile + at[x].r)
    /\ pc[x] = "fold" => part[x] = Chunks(tile + at[x].r)

(* The gradient of a live row has the terms of the rows streamed so far.   *)
Passed(x) == Least(at[x].r0 + at[x].r, arg.seq)
SumTo(k, n) ==
  IF OwnsKeys THEN Ascending(FirstQuery(k, arg.causal), n)
  ELSE Ascending(0, Least(n, kmax(k, arg.seq, arg.causal)))

Running == \A x \in Threads : Live(x) => grad[x] = SumTo(Own(x), Passed(x))

(* The thread of half hf of row k stores it.                                *)
OwnRow(k) == k \in first .. first + BLOCK_M - 1 /\ k < arg.seq
Owner(k, hf) == 2 * (k - first) + hf
Written(k, hf) == OwnRow(k) /\ pc[Owner(k, hf)] = "done"

Output ==
  \A k \in Rows, hf \in 0 .. 1 :
    out[k][hf] = IF Written(k, hf) THEN ReferenceGradient(k) ELSE NotStored

Control == BlockTypeOK /\ Shape /\ Schedule /\ Copies /\ Halves
Inductive == Control /\ Running /\ Output
-----------------------------------------------------------------------------
(* The geometry of a block: pairs of threads, warps of whole pairs, rows   *)
(* of two halves.                                                          *)
LEMMA Sizes ==
  /\ NTHREADS \in Nat \ {0} /\ 0 \in Threads /\ Threads \subseteq Nat
  /\ BLOCK_M \in Nat \ {0} /\ BLOCK_N \in Nat \ {0} /\ MaxSeq \in Nat \ {0}
  /\ DIM4 \in Nat \ {0} /\ DIM4 \div 2 \in Nat \ {0} /\ DIM4 = 2 * (DIM4 \div 2)
BY FlashBwdAssumption, SMT DEF NTHREADS, Threads

LEMMA PairOf ==
  ASSUME NEW x \in Threads
  PROVE  /\ Half(x) \in 0 .. 1 /\ x \div 2 \in 0 .. BLOCK_M - 1
         /\ x = 2 * (x \div 2) + Half(x)
BY Sizes, SMT DEF Half, Threads, NTHREADS

LEMMA PartnerOf ==
  ASSUME NEW x \in Threads
  PROVE  /\ Partner(x) \in Threads
         /\ Half(Partner(x)) = 1 - Half(x)
         /\ Partner(x) \div WARP = x \div WARP
<1> DEFINE y == Partner(x)
           w == x \div WARP
           u == WARP \div 2
<1>1. /\ x \in Nat /\ x < 2 * BLOCK_M /\ WARP \in Nat \ {0}
      /\ u \in Nat \ {0} /\ WARP = 2 * u /\ BLOCK_M \in Nat
  BY FlashBwdAssumption, SMT DEF Threads, NTHREADS
<1>2. y \in Threads /\ Half(y) = 1 - Half(x) /\ (x % 2 = 0 <=> y = x + 1)
      /\ (x % 2 = 1 <=> y = x - 1) /\ y \in Int
  BY <1>1, SMT DEF Partner, Threads, NTHREADS, Half
<1>3. w \in Int /\ WARP * w <= x /\ x < WARP * w + WARP
  BY <1>1, SMT
<1>4. WARP * w = 2 * (u * w) /\ u * w \in Int
  BY <1>1, <1>3
<1> HIDE DEF w, u
<1>5. WARP * w <= y /\ y < WARP * w + WARP
  BY <1>1, <1>2, <1>3, <1>4, SMT
<1> HIDE DEF y
<1>6. y \div WARP = w
  BY <1>1, <1>2, <1>3, <1>5, DivUnique
<1> QED
  BY <1>2, <1>6 DEF w, y

(* The float4s of a row belong to no other row,                            *)
LEMMA ChunksApart ==
  ASSUME NEW v \in Int, NEW k \in Int, NEW c \in Chunks(v), c \in Chunks(k)
  PROVE  v = k
<1>1. c \in Int /\ DIM4 \in Nat \ {0} /\ v * DIM4 = DIM4 * v /\ k * DIM4 = DIM4 * k
  BY Sizes DEF Chunks
<1>2. c \div DIM4 = v /\ c \div DIM4 = k
  BY <1>1, DivUnique DEF Chunks
<1> QED
  BY <1>2

(* and are those of its two halves.                                        *)
LEMMA HalvesOf ==
  ASSUME NEW x \in Threads, NEW v \in Nat
  PROVE  /\ HalfSlots(x, v) # {} /\ HalfSlots(x, v) \subseteq Chunks(v)
         /\ HalfSlots(x, v) \cup HalfSlots(Partner(x), v) = Chunks(v)
<1> DEFINE hf == DIM4 \div 2
           b == v * DIM4
           Apart(lo, n) == lo .. lo + n - 1
<1>1. hf \in Nat \ {0} /\ DIM4 = hf + hf /\ b \in Int
  BY Sizes
<1>2. Half(x) \in 0 .. 1 /\ Half(Partner(x)) = 1 - Half(x)
  BY PairOf, PartnerOf
<1>3. 0 * hf = 0 /\ 1 * hf = hf /\ b + 0 = b
  BY <1>1
<1>4. Chunks(v) = Apart(b, hf + hf)
  BY <1>1 DEF Chunks
<1>5. HalfSlots(x, v) = Apart(b + Half(x) * hf, hf)
      /\ HalfSlots(Partner(x), v) = Apart(b + Half(Partner(x)) * hf, hf)
  BY DEF HalfSlots
<1> HIDE DEF hf, b
<1>6. Apart(b, hf) # {} /\ Apart(b + hf, hf) # {}
      /\ Apart(b, hf) \cup Apart(b + hf, hf) = Apart(b, hf + hf)
  <2>1. b \in Apart(b, hf) /\ b + hf \in Apart(b + hf, hf)
    BY <1>1
  <2>2. \A c : c \in Apart(b, hf) \/ c \in Apart(b + hf, hf) <=> c \in Apart(b, hf + hf)
    BY <1>1
  <2> HIDE DEF Apart
  <2> QED
    BY <2>1, <2>2
<1> HIDE DEF Apart
<1>7. CASE Half(x) = 0 /\ Half(Partner(x)) = 1
  <2>1. HalfSlots(x, v) = Apart(b, hf) /\ HalfSlots(Partner(x), v) = Apart(b + hf, hf)
    BY <1>3, <1>5, <1>7, Zenon
  <2> QED
    BY <1>4, <1>6, <2>1
<1>8. CASE Half(x) = 1 /\ Half(Partner(x)) = 0
  <2>1. HalfSlots(Partner(x), v) = Apart(b, hf) /\ HalfSlots(x, v) = Apart(b + hf, hf)
    BY <1>3, <1>5, <1>8, Zenon
  <2> QED
    BY <1>4, <1>6, <2>1
<1> QED
  BY <1>2, <1>7, <1>8

(* The first rows of a tile fill its first slots.                          *)
LEMMA SlotsOfRow ==
  ASSUME NEW n \in 0 .. BLOCK_N, NEW v \in Nat, v < n, NEW s \in Chunks(v)
  PROVE  s \in Slots /\ s < n * DIM4
<1>1. (v + 1) * DIM4 <= n * DIM4 /\ n * DIM4 <= BLOCK_N * DIM4 /\ 0 * DIM4 <= v * DIM4
  BY Sizes, TimesMono
<1>2. (v + 1) * DIM4 = v * DIM4 + DIM4 /\ n * DIM4 \in Int /\ BLOCK_N * DIM4 \in Int
      /\ v * DIM4 \in Int
  BY Sizes
<1> QED
  BY <1>1, <1>2, Sizes DEF Chunks, Slots

(* Tile row v of the tile at row b is row b + v.                           *)
LEMMA RowOfTile ==
  ASSUME NEW x \in Threads, NEW b \in Nat, NEW v \in Nat
  PROVE  {b * DIM4 + s : s \in HalfSlots(x, v)} = HalfChunks(x, b + v)
<1> DEFINE hf == DIM4 \div 2
           o == Half(x) * hf
<1>1. hf \in Nat /\ o \in Int /\ b * DIM4 \in Int /\ v * DIM4 \in Int
      /\ (b + v) * DIM4 = b * DIM4 + v * DIM4
  BY Sizes, PairOf
<1>2. HalfSlots(x, v) = v * DIM4 + o .. v * DIM4 + o + hf - 1
  BY DEF HalfSlots
<1>3. HalfChunks(x, b + v) = (b + v) * DIM4 + o .. (b + v) * DIM4 + o + hf - 1
  BY DEF HalfSlots, HalfChunks
<1> HIDE DEF hf, o
<1>4. ASSUME NEW c \in HalfChunks(x, b + v)
      PROVE  c - b * DIM4 \in HalfSlots(x, v) /\ c = b * DIM4 + (c - b * DIM4)
  BY <1>1, <1>2, <1>3
<1>5. \A s \in HalfSlots(x, v) : b * DIM4 + s \in HalfChunks(x, b + v)
  BY <1>1, <1>2, <1>3
<1> QED
  BY <1>4, <1>5
-----------------------------------------------------------------------------
(* Sums of consecutive rows.                                               *)
LEMMA NoRows ==
  ASSUME NEW a \in Int, NEW b \in Int, b <= a
  PROVE  Ascending(a, b) = <<>>
<1>1. 1 .. b - a = {} /\ Ascending(a, b) = [i \in 1 .. b - a |-> a + i - 1]
  BY DEF Ascending
<1> QED
  BY <1>1

LEMMA OneMoreRow ==
  ASSUME NEW a \in Int, NEW b \in Int, a <= b
  PROVE  Append(Ascending(a, b), b) = Ascending(a, b + 1)
<1> DEFINE s == Ascending(a, b)
<1>1. s = [i \in 1 .. b - a |-> a + i - 1] /\ b - a \in Nat
  BY DEF Ascending
<1>2. s \in Seq(Int) /\ Len(s) = b - a
  BY <1>1
<1>3. Append(s, b) \in Seq(Int) /\ Len(Append(s, b)) = b - a + 1
      /\ \A i \in 1 .. b - a + 1 : Append(s, b)[i] = IF i <= b - a THEN s[i] ELSE b
  BY <1>1, <1>2
<1>4. Ascending(a, b + 1) = [i \in 1 .. b - a + 1 |-> a + i - 1]
  BY DEF Ascending
<1> HIDE DEF s
<1>5. \A i \in 1 .. b - a + 1 : Append(s, b)[i] = a + i - 1
  BY <1>1, <1>3
<1>6. Append(s, b) = [i \in 1 .. b - a + 1 |-> Append(s, b)[i]]
  BY <1>1, <1>3
<1> QED
  BY <1>4, <1>5, <1>6 DEF s
-----------------------------------------------------------------------------
(* What the invariant says of one thread.                                  *)
LEMMA Basics ==
  ASSUME Control, NEW x \in Threads
  PROVE  /\ arg.seq \in 1 .. MaxSeq /\ arg.causal \in BOOLEAN
         /\ first \in Nat /\ first < arg.seq /\ End \in Nat /\ End <= arg.seq
         /\ tile \in Nat /\ at[x].r0 = tile /\ at[x].r \in 0 .. BLOCK_N /\ at[x].i \in Nat
         /\ Own(x) \in Nat /\ (Live(x) => Own(x) \in Rows)
         /\ ~Over(x) => /\ tile < End
                        /\ rn(x) \in 1 .. BLOCK_N /\ tile + rn(x) <= arg.seq
         /\ at[x] = [i |-> at[x].i, r0 |-> at[x].r0, r |-> at[x].r]
<1>1. /\ arg.seq \in 1 .. MaxSeq /\ arg.causal \in BOOLEAN /\ arg.cta \in Nat
      /\ first < arg.seq
  BY DEF Control, Shape
<1>2. first \in Nat
  <2>1. 0 * BLOCK_M <= arg.cta * BLOCK_M
    BY <1>1, Sizes, TimesMono
  <2> QED
    BY <1>1, <2>1, Sizes DEF first
<1>3. End \in Nat /\ End <= arg.seq
  BY <1>1, <1>2, Sizes DEF End, kv_end, Least
<1>4. at \in [Threads -> Counts] /\ at[x].r0 = tile
  BY DEF Control, Shape, Schedule, Counters
<1>5. /\ tile \in Nat /\ at[x].r \in 0 .. BLOCK_N /\ at[x].i \in Nat
      /\ at[x] = [i |-> at[x].i, r0 |-> at[x].r0, r |-> at[x].r]
  BY <1>4, Sizes DEF Counts
<1>6. Own(x) \in Nat /\ (Live(x) => Own(x) \in Rows)
  BY <1>1, <1>2, PairOf, Sizes DEF Own, Live, Rows
<1>7. ~Over(x) => tile < End
  BY DEF Control, Schedule, InPhase, Over
<1>8. ~Over(x) => rn(x) \in 1 .. BLOCK_N /\ tile + rn(x) <= arg.seq
  BY <1>1, <1>3, <1>4, <1>5, <1>7, Sizes DEF rn, Least
<1> QED
  BY <1>1, <1>2, <1>3, <1>4, <1>5, <1>6, <1>7, <1>8

(* A tile row yet to be used is in shared memory.                          *)
LEMMA FreshRow ==
  ASSUME Control, NEW x \in Threads, Using(x), NEW v \in at[x].r .. rn(x) - 1
  PROVE  {T[s] : s \in HalfSlots(x, v)} = HalfChunks(x, tile + v)
<1>1. /\ tile \in Nat /\ rn(x) \in 0 .. BLOCK_N /\ v \in Nat /\ v < rn(x)
  <2>1. ~Over(x)
    BY DEF Using, Over
  <2>2. tile \in Nat /\ rn(x) \in 1 .. BLOCK_N /\ at[x].r \in 0 .. BLOCK_N
    BY <2>1, Basics
  <2> QED
    BY <2>2, Sizes
<1>2. \A s \in HalfSlots(x, v) : T[s] = tile * DIM4 + s
  <2>1. \A s \in HalfSlots(x, v) : s \in Slots /\ s < rn(x) * DIM4
    BY <1>1, HalvesOf, SlotsOfRow
  <2> QED
    BY <2>1 DEF Control, Copies, Copied
<1>3. {T[s] : s \in HalfSlots(x, v)} = {tile * DIM4 + s : s \in HalfSlots(x, v)}
  BY <1>2
<1> QED
  BY <1>1, <1>3, RowOfTile

LEMMA ControlNoTileRace == Control => NoTileRace
BY DEF Control, Schedule, InPhase, Copying, Using, Over, NoTileRace

LEMMA ControlConverge == Control => Converge
<1> SUFFICES ASSUME Control, NEW y \in Threads
             PROVE  /\ pc[y] = "shfl" => \A x \in ThreadsOf(y \div WARP) : OnTheWay(x, y)
                    /\ pc[y] = "sync1" => \A x \in Threads : Copying(x) /\ at[x].r0 = at[y].r0
                    /\ pc[y] = "sync2" => \A x \in Threads : Using(x) /\ at[x].r0 = at[y].r0
  BY DEF Converge
<1>1. \A x \in Threads : at[x].r0 = at[y].r0
  BY DEF Control, Schedule, Counters
<1>2. /\ Copying(y) => \A x \in Threads : Copying(x)
      /\ Using(y) => \A x \in Threads : Using(x)
  BY DEF Control, Schedule, InPhase, Copying, Using, Over
<1>3. ASSUME pc[y] = "shfl", NEW x \in ThreadsOf(y \div WARP) PROVE OnTheWay(x, y)
  <2>1. x \in Threads /\ Shuffles(x) = Shuffles(y)
    BY <1>3 DEF ThreadsOf, Control, Schedule, InWarp
  <2>2. Using(x) /\ at[y].r < rn(y) /\ Shuffles(y) = at[y].r
    BY <1>2, <1>3, <2>1 DEF Using, Control, Schedule, Counters, Shuffles
  <2>3. rn(x) = rn(y)
    BY <1>1, <2>1 DEF rn
  <2>4. at[x].r \in Int /\ at[y].r \in Int
    <3>1. at[x].r \in 0 .. BLOCK_N /\ at[y].r \in 0 .. BLOCK_N
      BY <2>1, Basics
    <3> QED
      BY <3>1
  <2>5. pc[x] # "sync2"
    BY <2>1, <2>2, <2>3, <2>4, Basics DEF Control, Schedule, Counters, Shuffles, Over
  <2> QED
    BY <1>1, <2>1, <2>2, <2>4, <2>5 DEF OnTheWay, Using, Shuffles
<1> QED
  BY <1>1, <1>2, <1>3 DEF Copying, Using

(* The threads of a block and the half rows it stores, one for the other.  *)
LEMMA OwnerOf ==
  ASSUME first \in Nat, NEW q \in Rows, OwnRow(q), NEW hf \in 0 .. 1
  PROVE  /\ Owner(q, hf) \in Threads
         /\ Own(Owner(q, hf)) = q /\ Half(Owner(q, hf)) = hf
<1> DEFINE d == q - first
<1>1. d \in 0 .. BLOCK_M - 1 /\ BLOCK_M \in Nat /\ q \in Nat /\ q = first + d
  BY Sizes DEF OwnRow, Rows
<1>2. Owner(q, hf) = 2 * d + hf
  BY DEF Owner
<1> HIDE DEF d
<1>3. 2 * d + hf \in 0 .. 2 * BLOCK_M - 1
  BY <1>1
<1>4. (2 * d + hf) \div 2 = d /\ (2 * d + hf) % 2 = hf
  <2>1. 2 * d <= 2 * d + hf /\ 2 * d + hf < 2 * d + 2 /\ (2 * d + hf) - 2 * d = hf
        /\ 2 * d + hf \in Int /\ 2 \in Nat \ {0} /\ d \in Int
    BY <1>1
  <2> QED
    BY <2>1, DivUnique
<1> QED
  BY <1>1, <1>2, <1>3, <1>4, Sizes DEF Threads, NTHREADS, Own, Half

LEMMA OwnedBy ==
  ASSUME Control, NEW x \in Threads
  PROVE  /\ Owner(Own(x), Half(x)) = x /\ Half(x) \in 0 .. 1
         /\ Live(x) => OwnRow(Own(x))
<1>1. /\ Half(x) \in 0 .. 1 /\ x \div 2 \in 0 .. BLOCK_M - 1
      /\ x = 2 * (x \div 2) + Half(x)
  BY PairOf
<1>2. first \in Nat /\ BLOCK_M \in Nat
  BY Basics, Sizes
<1>3. Own(x) = first + x \div 2 /\ Own(x) - first = x \div 2
  BY <1>1, <1>2 DEF Own
<1>4. Owner(Own(x), Half(x)) = x
  BY <1>1, <1>3 DEF Owner
<1>5. Own(x) \in first .. first + BLOCK_M - 1
  BY <1>1, <1>2, <1>3
<1> QED
  BY <1>1, <1>4, <1>5 DEF OwnRow, Live

(* A thread's strided copy starts at its own number.                       *)
LEMMA StartOfStride ==
  ASSUME NEW x \in Threads
  PROVE  x % NTHREADS = x /\ \A s \in Nat : s % NTHREADS = x => ~(s < x)
<1>1. \A a \in Threads : a % NTHREADS = a
  <2> TAKE a \in Threads
  <2>1. /\ a \in Int /\ NTHREADS \in Nat \ {0} /\ 0 \in Int
        /\ NTHREADS * 0 <= a /\ a < NTHREADS * 0 + NTHREADS /\ a - NTHREADS * 0 = a
    BY Sizes DEF Threads
  <2> QED
    BY <2>1, DivUnique
<1>2. ASSUME NEW s \in Nat, s % NTHREADS = x, s < x PROVE FALSE
  <2>1. s \in Threads
    BY <1>2, Sizes DEF Threads
  <2>2. x \in Int
    BY Sizes DEF Threads
  <2> QED
    BY <1>1, <1>2, <2>1, <2>2
<1> QED
  BY <1>1, <1>2
(* The kernels start at a tile of the first row that may count.            *)
LEMMA StartBounds ==
  ASSUME arg \in [kernel : {"dq", "dkv"}, seq : 1 .. MaxSeq, causal : BOOLEAN, cta : Nat],
         first \in Nat, first < arg.seq
  PROVE  /\ Start \in Nat /\ Start < End /\ End <= MaxSeq
         /\ OwnsKeys => Start <= first
         /\ ~OwnsKeys => Start = 0
<1>1. arg.seq \in Nat /\ arg.seq <= MaxSeq /\ 0 < arg.seq
  BY Sizes
<1>2. t_start \in Nat /\ t_start <= first
  <2>1. CASE arg.causal
    <3> DEFINE d == first \div BLOCK_N
    <3>1. d \in Nat /\ d * BLOCK_N <= first /\ d * BLOCK_N \in Int
      <4>1. d \in Int /\ BLOCK_N * d <= first /\ first < BLOCK_N * d + BLOCK_N
        BY Sizes, SMT
      <4>2. 0 <= d
        BY <4>1, Sizes, SMT
      <4>3. BLOCK_N * d = d * BLOCK_N /\ d * BLOCK_N \in Int
        BY <4>1, Sizes
      <4> HIDE DEF d
      <4> QED
        BY <4>1, <4>2, <4>3
    <3> HIDE DEF d
    <3>2. 0 * BLOCK_N <= d * BLOCK_N
      BY <3>1, Sizes, TimesMono
    <3> QED
      BY <2>1, <3>1, <3>2, Sizes DEF t_start, d
  <2>2. CASE ~arg.causal
    BY <2>2 DEF t_start
  <2> QED
    BY <2>1, <2>2
<1>3. 0 < kv_end /\ kv_end \in Nat /\ kv_end <= MaxSeq
  BY <1>1, Sizes DEF kv_end, Least
<1> QED
  BY <1>1, <1>2, <1>3, Sizes DEF Start, End

LEMMA InitInductive == BlockInit => Inductive
<1> SUFFICES ASSUME BlockInit PROVE Inductive
  OBVIOUS
<1>1. /\ arg \in [kernel : {"dq", "dkv"}, seq : 1 .. MaxSeq, causal : BOOLEAN, cta : Nat]
      /\ arg.cta < (arg.seq + BLOCK_M - 1) \div BLOCK_M
  <2>1. 0 .. (MaxSeq - 1) \div BLOCK_M \subseteq Nat
    BY Sizes
  <2> QED
    BY <2>1 DEF BlockInit
<1>2. /\ pc = [x \in Threads |-> "load"]
      /\ at = [x \in Threads |-> [i |-> x, r0 |-> Start, r |-> 0]]
      /\ part = [x \in Threads |-> {}]
      /\ grad = [x \in Threads |-> <<>>]
      /\ T = [i \in Slots |-> Garbage]
      /\ Stats = [r \in 0 .. BLOCK_N - 1 |-> Garbage]
      /\ out = [k \in Rows |-> [hf \in 0 .. 1 |-> NotStored]]
  BY DEF BlockInit
<1>3. first \in Nat /\ first < arg.seq
  <2> DEFINE a == arg.seq + BLOCK_M - 1
             q == a \div BLOCK_M
  <2>1. arg.cta \in Nat /\ a \in Nat /\ BLOCK_M \in Nat \ {0}
    BY <1>1, Sizes
  <2>2. q \in Int /\ BLOCK_M * q <= a
    BY <2>1, SMT
  <2> HIDE DEF q
  <2>3. arg.cta + 1 <= q
    BY <1>1, <2>1, <2>2 DEF q
  <2>4. (arg.cta + 1) * BLOCK_M <= q * BLOCK_M /\ 0 * BLOCK_M <= arg.cta * BLOCK_M
    BY <2>1, <2>2, <2>3, TimesMono
  <2>5. /\ (arg.cta + 1) * BLOCK_M = arg.cta * BLOCK_M + BLOCK_M
        /\ q * BLOCK_M = BLOCK_M * q /\ arg.cta * BLOCK_M \in Int /\ q * BLOCK_M \in Int
    BY <2>1, <2>2
  <2> QED
    BY <1>1, <2>1, <2>2, <2>4, <2>5 DEF first
<1>4. Start \in Nat /\ Start < End /\ End <= MaxSeq /\ End \in Int
  BY <1>1, <1>3, StartBounds, Sizes DEF End, kv_end, Least
<1>5. tile = Start /\ \A x \in Threads : Copying(x) /\ at[x].r0 = Start /\ at[x].r = 0
  BY <1>2, Sizes DEF tile, Copying
<1>6. BlockTypeOK
  BY <1>1, <1>2, <1>4, <1>5, Sizes DEF BlockTypeOK
<1>7. Shape
  <2>1. at \in [Threads -> Counts]
    BY <1>2, <1>4, Sizes DEF Counts
  <2>2. pc \in [Threads -> Points]
    BY <1>2 DEF Points
  <2> QED
    BY <1>1, <1>2, <1>3, <2>1, <2>2 DEF Shape
<1>8. Schedule
  <2>1. \A x \in Threads : pc[x] = "load"
    BY <1>2
  <2>2. InPhase
    BY <1>4, <1>5, Sizes DEF InPhase
  <2>3. Counters
    BY <1>5, <2>1 DEF Counters
  <2>4. InWarp
    BY <1>5, <2>1 DEF InWarp, Shuffles
  <2> QED
    BY <2>2, <2>3, <2>4 DEF Schedule
<1>9. Copies
  <2>1. \A x \in Threads : pc[x] = "load" /\ at[x].i = x
    BY <1>2
  <2>2. Slots \subseteq Nat
    BY DEF Slots
  <2> QED
    BY <2>1, <2>2, StartOfStride DEF Copies, Copying, Using, Behind
<1>10. Halves
  BY <1>2 DEF Halves
<1>11. Running
  <2> SUFFICES ASSUME NEW x \in Threads, Live(x) PROVE grad[x] = SumTo(Own(x), Passed(x))
    BY DEF Running
  <2>1. x \div 2 \in Nat /\ Own(x) \in Nat /\ first <= Own(x)
    BY <1>3, PairOf, Sizes DEF Own
  <2>2. Passed(x) = Start
    BY <1>1, <1>3, <1>4, <1>5, Sizes DEF Passed, Least, End, kv_end
  <2>3. CASE OwnsKeys
    <3>1. Start <= first /\ (~arg.causal => Start = 0)
      BY <1>1, <1>3, <2>3, StartBounds DEF Start, t_start
    <3> QED
      BY <1>2, <1>3, <1>4, <2>1, <2>2, <2>3, <3>1, NoRows DEF SumTo, FirstQuery
  <2>4. CASE ~OwnsKeys
    <3>1. Start = 0
      BY <1>1, <1>3, <2>4, StartBounds
    <3>2. kmax(Own(x), arg.seq, arg.causal) \in Nat
      BY <1>1, <2>1, Sizes DEF kmax
    <3> QED
      BY <1>2, <2>2, <2>4, <3>1, <3>2, NoRows DEF SumTo, Least
  <2> QED
    BY <2>3, <2>4
<1>12. Output
  <2>1. \A k \in Rows, hf \in 0 .. 1 : ~Written(k, hf)
    BY <1>2, <1>3, OwnerOf DEF Written
  <2> QED
    BY <1>2, <2>1 DEF Output
<1> QED
  BY <1>6, <1>7, <1>8, <1>9, <1>10, <1>11, <1>12 DEF Inductive, Control
-----------------------------------------------------------------------------
(* A step between two barriers changes neither tile nor what derives from  *)
(* it.                                                                     *)
LEMMA SameTile ==
  ASSUME arg' = arg, \A y \in Threads : at'[y].r0 = at[y].r0
  PROVE  /\ tile' = tile /\ End' = End /\ first' = first /\ (OwnsKeys' <=> OwnsKeys)
         /\ \A y \in Threads : rn(y)' = rn(y) /\ Own(y)' = Own(y) /\ (Live(y)' <=> Live(y))
BY Sizes DEF tile, End, OwnsKeys, kv_end, first, rn, Own, Live

(* Of a strided copy, a step adds to what a thread is done with the one    *)
(* slot it copies.                                                         *)
LEMMA OneMoreSlot ==
  ASSUME NEW x \in Threads, NEW a \in Nat, a % NTHREADS = x,
         NEW s \in Nat, s % NTHREADS = x, s < a + NTHREADS, ~(s < a)
  PROVE  s = a
<1>1. a \in Int /\ s \in Int /\ NTHREADS \in Nat \ {0} /\ a % NTHREADS = s % NTHREADS
      /\ a <= s
  BY Sizes
<1> QED
  BY <1>1, StrideUnique

(* A step of a copy: only this thread's counter moves, and only that.      *)
LEMMA CopyStep ==
  ASSUME Control, NEW x \in Threads, pc[x] \in {"load", "stats"},
         at' = [at EXCEPT ![x].i = @ + NTHREADS], UNCHANGED <<arg, pc, part, grad, out>>
  PROVE  /\ at' \in [Threads -> Counts] /\ at'[x].i = at[x].i + NTHREADS
         /\ at'[x].i % NTHREADS = x
         /\ \A y \in Threads : /\ at'[y].r0 = at[y].r0 /\ at'[y].r = at[y].r
                               /\ y # x => at'[y] = at[y]
         /\ \A y \in Threads : Copying(y) /\ ~Using(y)
         /\ tile' = tile /\ (\A y \in Threads : rn(y)' = rn(y)) /\ (OwnsKeys' <=> OwnsKeys)
         /\ Shape' /\ Schedule' /\ Halves'
<1>1. at \in [Threads -> Counts] /\ at[x].i \in Nat /\ at[x].i % NTHREADS = x
  BY DEF Control, Shape, Counts, Copies, Copying
<1>2. /\ at'[x].i = at[x].i + NTHREADS
      /\ \A y \in Threads : /\ at'[y].r0 = at[y].r0 /\ at'[y].r = at[y].r
                            /\ y # x => at'[y] = at[y]
      /\ at' \in [Threads -> Counts]
  BY <1>1, Sizes DEF Counts
<1>3. at'[x].i % NTHREADS = x
  <2>1. at[x].i \in Int /\ NTHREADS \in Nat \ {0}
    BY <1>1, Sizes
  <2> QED
    BY <1>1, <1>2, <2>1, StrideRemainder
<1>4. \A y \in Threads : Copying(y) /\ ~Using(y)
  BY DEF Control, Schedule, InPhase, Copying, Using, Over
<1>5. tile' = tile /\ End' = End /\ first' = first /\ (OwnsKeys' <=> OwnsKeys)
      /\ \A y \in Threads : rn(y)' = rn(y)
  BY <1>2, SameTile
<1>6. Shape'
  BY <1>2, <1>5 DEF Control, Shape
<1>7. Schedule'
  <2>1. InPhase'
    BY <1>5 DEF Control, Schedule, InPhase, Copying, Using, Over
  <2>2. Counters' /\ InWarp'
    BY <1>2, <1>5 DEF Control, Schedule, Counters, InWarp, Copying, Over, Shuffles
  <2> QED
    BY <2>1, <2>2 DEF Schedule
<1>8. Halves'
  BY <1>4 DEF Halves, Copying
<1> QED
  BY <1>2, <1>3, <1>4, <1>5, <1>6, <1>7, <1>8

(* Each action keeps the block in step.                                    *)
LEMMA LoadControl ==
  ASSUME Control, NEW x \in Threads, Load(x)
  PROVE  Control'
<1> DEFINE a == at[x].i
<1>1. /\ pc[x] = "load" /\ a < rn(x) * DIM4
      /\ T' = [T EXCEPT ![a] = at[x].r0 * DIM4 + a]
      /\ at' = [at EXCEPT ![x].i = @ + NTHREADS]
      /\ UNCHANGED <<arg, pc, part, grad, Stats, out>>
  BY DEF Load
<1>2. /\ tile \in Nat /\ at[x].r0 = tile /\ a \in Nat
      /\ rn(x) \in Nat /\ rn(x) <= BLOCK_N /\ tile + rn(x) <= arg.seq /\ arg.seq \in Nat
  <2>1. ~Over(x)
    BY <1>1 DEF Over
  <2>2. tile \in Nat /\ at[x].r0 = tile /\ a \in Nat /\ arg.seq \in 1 .. MaxSeq
        /\ rn(x) \in 1 .. BLOCK_N /\ tile + rn(x) <= arg.seq
    BY <2>1, Basics
  <2> QED
    BY <2>2, Sizes
<1>3. /\ a \in Slots /\ tile * DIM4 + a \in 0 .. arg.seq * DIM4 - 1
  <2>1. /\ rn(x) * DIM4 <= BLOCK_N * DIM4 /\ (tile + rn(x)) * DIM4 <= arg.seq * DIM4
        /\ 0 * DIM4 <= tile * DIM4
    BY <1>2, Sizes, TimesMono
  <2>2. (tile + rn(x)) * DIM4 = tile * DIM4 + rn(x) * DIM4 /\ tile * DIM4 \in Int
        /\ rn(x) * DIM4 \in Int /\ BLOCK_N * DIM4 \in Int /\ arg.seq * DIM4 \in Int
    BY <1>2, Sizes
  <2> QED
    BY <1>1, <1>2, <2>1, <2>2, Sizes DEF Slots
<1>4. T \in [Slots -> {Garbage} \cup 0 .. arg.seq * DIM4 - 1]
  BY DEF Control, BlockTypeOK
<1>5. T'[a] = tile * DIM4 + a /\ \A s \in Slots : s # a => T'[s] = T[s]
  BY <1>1, <1>2, <1>3, <1>4
<1>6. /\ at'[x].i = a + NTHREADS /\ at'[x].i % NTHREADS = x
      /\ \A y \in Threads : /\ at'[y].r0 = at[y].r0 /\ at'[y].r = at[y].r
                            /\ y # x => at'[y] = at[y]
      /\ \A y \in Threads : Copying(y) /\ ~Using(y)
      /\ tile' = tile /\ (\A y \in Threads : rn(y)' = rn(y)) /\ (OwnsKeys' <=> OwnsKeys)
      /\ Shape' /\ Schedule' /\ Halves'
  BY <1>1, CopyStep
<1>7. BlockTypeOK'
  <2>1. T' \in [Slots -> {Garbage} \cup 0 .. arg.seq * DIM4 - 1]
    BY <1>1, <1>2, <1>3, <1>4
  <2> QED
    BY <1>1, <1>6, <2>1 DEF Control, BlockTypeOK
<1>8. a % NTHREADS = x
  BY <1>6 DEF Control, Copies
<1> HIDE DEF a
<1>9. Copies'
  <2>1. ASSUME NEW s \in Slots, Copied(s) \/ s = a PROVE Copied(s)'
    BY <1>5, <1>6, <2>1 DEF Copied
  <2>2. \A r \in 0 .. BLOCK_N - 1 : Listed(r)' <=> Listed(r)
    BY <1>1, <1>6 DEF Listed
  <2>3. ASSUME NEW s \in Slots, s % NTHREADS = x, s < at'[x].i, s < rn(x) * DIM4
        PROVE  Copied(s)'
    <3>1. s \in Nat /\ s < a + NTHREADS
      BY <1>6, <2>3 DEF Slots
    <3>2. CASE s < a
      BY <1>6, <2>1, <2>3, <3>2 DEF Control, Copies, Behind, a
    <3>3. CASE ~(s < a)
      BY <1>2, <1>8, <2>1, <2>3, <3>1, <3>3, OneMoreSlot
    <3> QED
      BY <3>2, <3>3
  <2> SUFFICES ASSUME NEW y \in Threads
               PROVE  /\ at'[y].i % NTHREADS = y
                      /\ \A s \in Slots : s % NTHREADS = y /\ s < rn(y) * DIM4
                                            /\ Behind(y, "load", s)' => Copied(s)'
                      /\ OwnsKeys /\ pc[y] # "load" =>
                           \A r \in 0 .. BLOCK_N - 1 :
                             r % NTHREADS = y /\ r < rn(y) /\ Behind(y, "stats", r)'
                               => Listed(r)'
    BY <1>1, <1>6 DEF Copies, Copying, Using
  <2>4. CASE y = x
    BY <1>1, <1>6, <2>3, <2>4 DEF Behind
  <2>5. CASE y # x
    BY <1>1, <1>6, <2>1, <2>2, <2>5 DEF Control, Copies, Behind
  <2> QED
    BY <2>4, <2>5
<1> QED
  BY <1>6, <1>7, <1>9 DEF Control

LEMMA LoadStatsControl ==
  ASSUME Control, NEW x \in Threads, LoadStats(x)
  PROVE  Control'
<1> DEFINE a == at[x].i
<1>1. /\ pc[x] = "stats" /\ a < rn(x)
      /\ Stats' = [Stats EXCEPT ![a] = at[x].r0 + a]
      /\ at' = [at EXCEPT ![x].i = @ + NTHREADS]
      /\ UNCHANGED <<arg, pc, part, grad, T, out>>
  BY DEF LoadStats
<1>2. /\ tile \in Nat /\ at[x].r0 = tile /\ a \in Nat /\ arg.seq \in Nat
      /\ a \in 0 .. BLOCK_N - 1 /\ tile + a \in 0 .. arg.seq - 1
  <2>1. ~Over(x)
    BY <1>1 DEF Over
  <2>2. tile \in Nat /\ at[x].r0 = tile /\ a \in Nat /\ arg.seq \in 1 .. MaxSeq
        /\ rn(x) \in 1 .. BLOCK_N /\ tile + rn(x) <= arg.seq
    BY <2>1, Basics
  <2> QED
    BY <1>1, <2>2, Sizes
<1>3. Stats \in [0 .. BLOCK_N - 1 -> {Garbage} \cup 0 .. arg.seq - 1]
  BY DEF Control, BlockTypeOK
<1>4. Stats'[a] = tile + a /\ \A r \in 0 .. BLOCK_N - 1 : r # a => Stats'[r] = Stats[r]
  BY <1>1, <1>2, <1>3
<1>5. /\ at'[x].i = a + NTHREADS /\ at'[x].i % NTHREADS = x
      /\ \A y \in Threads : /\ at'[y].r0 = at[y].r0 /\ at'[y].r = at[y].r
                            /\ y # x => at'[y] = at[y]
      /\ \A y \in Threads : Copying(y) /\ ~Using(y)
      /\ tile' = tile /\ (\A y \in Threads : rn(y)' = rn(y)) /\ (OwnsKeys' <=> OwnsKeys)
      /\ Shape' /\ Schedule' /\ Halves'
  BY <1>1, CopyStep
<1>6. BlockTypeOK'
  <2>1. Stats' \in [0 .. BLOCK_N - 1 -> {Garbage} \cup 0 .. arg.seq - 1]
    BY <1>1, <1>2, <1>3
  <2> QED
    BY <1>1, <1>5, <2>1 DEF Control, BlockTypeOK
<1>7. a % NTHREADS = x
  BY <1>5 DEF Control, Copies
<1> HIDE DEF a
<1>8. Copies'
  <2>1. ASSUME NEW r \in 0 .. BLOCK_N - 1, Listed(r) \/ r = a PROVE Listed(r)'
    BY <1>4, <1>5, <2>1 DEF Listed
  <2>2. \A s \in Slots : Copied(s)' <=> Copied(s)
    BY <1>1, <1>5 DEF Copied
  <2>3. ASSUME OwnsKeys, NEW r \in 0 .. BLOCK_N - 1, r % NTHREADS = x, r < at'[x].i,
               r < rn(x)
        PROVE  Listed(r)'
    <3>1. r \in Nat /\ r < a + NTHREADS
      BY <1>5, <2>3
    <3>2. CASE r < a
      BY <1>1, <1>5, <2>1, <2>3, <3>2 DEF Control, Copies, Behind, a
    <3>3. CASE ~(r < a)
      BY <1>2, <1>7, <2>1, <2>3, <3>1, <3>3, OneMoreSlot
    <3> QED
      BY <3>2, <3>3
  <2> SUFFICES ASSUME NEW y \in Threads
               PROVE  /\ at'[y].i % NTHREADS = y
                      /\ \A s \in Slots : s % NTHREADS = y /\ s < rn(y) * DIM4
                                            /\ Behind(y, "load", s)' => Copied(s)'
                      /\ OwnsKeys /\ pc[y] # "load" =>
                           \A r \in 0 .. BLOCK_N - 1 :
                             r % NTHREADS = y /\ r < rn(y) /\ Behind(y, "stats", r)'
                               => Listed(r)'
    BY <1>1, <1>5 DEF Copies, Copying, Using
  <2>4. CASE y = x
    BY <1>1, <1>5, <2>2, <2>3, <2>4 DEF Behind, Control, Copies
  <2>5. CASE y # x
    BY <1>1, <1>5, <2>1, <2>2, <2>5 DEF Control, Copies, Behind
  <2> QED
    BY <2>4, <2>5
<1> QED
  BY <1>5, <1>6, <1>8 DEF Control

(* The end of the first copy leaves the second to do, if there is one.     *)
LEMMA LoadedControl ==
  ASSUME Control, NEW x \in Threads, Loaded(x)
  PROVE  /\ Control'
         /\ \A y \in Threads : at'[y].r0 = at[y].r0 /\ at'[y].r = at[y].r
         /\ \A y \in Threads : pc[y] # "done" /\ pc'[y] # "done"
<1>1. /\ \/ pc[x] = "load" /\ at[x].i >= rn(x) * DIM4
         \/ pc[x] = "stats" /\ at[x].i >= rn(x)
      /\ pc' = [pc EXCEPT ![x] = IF OwnsKeys /\ pc[x] = "load" THEN "stats" ELSE "sync1"]
      /\ at' = [at EXCEPT ![x].i = x]
      /\ UNCHANGED <<arg, part, grad, T, Stats, out>>
  BY DEF Loaded, AfterLoad
<1>2. /\ at \in [Threads -> Counts] /\ pc \in [Threads -> Points]
      /\ at[x].i \in Nat /\ rn(x) \in Nat /\ rn(x) * DIM4 \in Int
  <2>1. at[x].i \in Nat /\ rn(x) \in 1 .. BLOCK_N
    BY <1>1, Basics DEF Over
  <2> QED
    BY <2>1, Sizes DEF Control, Shape
<1>3. /\ pc'[x] = IF OwnsKeys /\ pc[x] = "load" THEN "stats" ELSE "sync1"
      /\ \A y \in Threads : y # x => pc'[y] = pc[y]
  BY <1>1, <1>2
<1>4. /\ at'[x].i = x
      /\ \A y \in Threads : /\ at'[y].r0 = at[y].r0 /\ at'[y].r = at[y].r
                            /\ y # x => at'[y] = at[y]
      /\ at' \in [Threads -> Counts]
  BY <1>1, <1>2, Sizes DEF Counts
<1>5. /\ tile' = tile /\ End' = End /\ first' = first /\ (OwnsKeys' <=> OwnsKeys)
      /\ \A y \in Threads : rn(y)' = rn(y)
  BY <1>1, <1>4, SameTile
<1>6. \A y \in Threads : /\ Copying(y) /\ ~Using(y) /\ ~Over(y)
                         /\ Copying(y)' /\ ~Using(y)' /\ ~Over(y)'
  BY <1>1, <1>3 DEF Control, Schedule, InPhase, Copying, Using, Over
<1>7. BlockTypeOK' /\ Shape'
  <2>1. pc' \in [Threads -> Points]
    BY <1>1, <1>2 DEF Points
  <2> QED
    BY <1>1, <1>4, <1>5, <2>1 DEF Control, BlockTypeOK, Shape
<1>8. Schedule'
  <2>1. InPhase'
    BY <1>5, <1>6 DEF Control, Schedule, InPhase, Copying, Using, Over
  <2>2. Counters'
    <3> SUFFICES ASSUME NEW y \in Threads PROVE at'[y].r0 = tile /\ at'[y].r = 0
      BY <1>5, <1>6 DEF Counters, Copying, Using
    <3> QED
      BY <1>4, <1>6 DEF Control, Schedule, Counters
  <2>3. InWarp'
    BY <1>3, <1>4, <1>6 DEF Control, Schedule, InWarp, Shuffles, Using
  <2> QED
    BY <2>1, <2>2, <2>3 DEF Schedule
<1>9. Copies'
  <2>1. /\ \A s \in Slots : Copied(s)' <=> Copied(s)
        /\ \A r \in 0 .. BLOCK_N - 1 : Listed(r)' <=> Listed(r)
    BY <1>1, <1>5 DEF Copied, Listed
  <2> SUFFICES ASSUME NEW y \in Threads
               PROVE  /\ at'[y].i % NTHREADS = y
                      /\ \A s \in Slots : s % NTHREADS = y /\ s < rn(y) * DIM4
                                            /\ Behind(y, "load", s)' => Copied(s)
                      /\ OwnsKeys /\ pc'[y] # "load" =>
                           \A r \in 0 .. BLOCK_N - 1 :
                             r % NTHREADS = y /\ r < rn(y) /\ Behind(y, "stats", r)'
                               => Listed(r)
    BY <1>5, <1>6, <2>1 DEF Copies
  <2>2. CASE y # x
    BY <1>3, <1>4, <1>6, <2>2 DEF Control, Copies, Behind
  <2>3. CASE y = x
    <3>1. at'[x].i % NTHREADS = x
      BY <1>4, StartOfStride
    <3>2. ASSUME NEW s \in Slots, s % NTHREADS = x, s < rn(x) * DIM4 PROVE Copied(s)
      <4>1. pc[x] = "load" => s < at[x].i
        BY <1>1, <1>2, <3>2 DEF Slots
      <4> QED
        BY <1>6, <3>2, <4>1 DEF Control, Copies, Behind
    <3>3. ASSUME OwnsKeys, NEW r \in 0 .. BLOCK_N - 1, r % NTHREADS = x, r < rn(x),
                 Behind(x, "stats", r)'
          PROVE  Listed(r)
      <4>1. CASE pc[x] = "load"
        <5>1. r < x
          BY <1>3, <1>4, <3>3, <4>1 DEF Behind
        <5> QED
          BY <3>3, <5>1, StartOfStride
      <4>2. CASE pc[x] # "load"
        <5>1. pc[x] = "stats" /\ r < at[x].i
          BY <1>1, <1>2, <3>3, <4>2
        <5> QED
          BY <1>6, <3>3, <5>1 DEF Control, Copies, Behind
      <4> QED
        BY <4>1, <4>2
    <3> QED
      BY <2>3, <3>1, <3>2, <3>3
  <2> QED
    BY <2>2, <2>3
<1>10. Halves'
  BY <1>6 DEF Halves, Copying
<1> QED
  BY <1>4, <1>6, <1>7, <1>8, <1>9, <1>10 DEF Control, Over

(* A step of one thread between the barriers, from the copies' end on.     *)
LEMMA UseStep ==
  ASSUME Control, NEW x \in Threads, NEW point, Use(x) \/ Store(x),
         pc' = [pc EXCEPT ![x] = point],
         point \in IF pc[x] = "store" THEN {"done"} ELSE {"shfl", "dot", "sync2"},
         \A y \in Threads : at'[y].r0 = at[y].r0, arg' = arg, T' = T, Stats' = Stats
  PROVE  /\ pc'[x] = point /\ \A y \in Threads : y # x => pc'[y] = pc[y]
         /\ pc' \in [Threads -> Points]
         /\ \A y \in Threads : (Using(y)' <=> Using(y)) /\ (Over(y)' <=> Over(y)) /\ ~Copying(y)
                               /\ ~Copying(y)'
         /\ tile' = tile /\ End' = End /\ first' = first /\ (OwnsKeys' <=> OwnsKeys)
         /\ \A y \in Threads : rn(y)' = rn(y)
         /\ InPhase' /\ Copies'
<1>1. pc[x] \in {"dot", "fold", "store"} /\ pc \in [Threads -> Points]
  BY DEF Use, Dots, Fold, Store, Control, Shape
<1>2. /\ pc'[x] = point /\ \A y \in Threads : y # x => pc'[y] = pc[y]
      /\ pc' \in [Threads -> Points]
  BY <1>1 DEF Points
<1>3. \A y \in Threads : ~Copying(y)
  BY <1>1 DEF Control, Schedule, InPhase, Copying, Using, Over
<1>4. \A y \in Threads : (Using(y)' <=> Using(y)) /\ (Over(y)' <=> Over(y)) /\ ~Copying(y)'
  BY <1>1, <1>2, <1>3 DEF Copying, Using, Over
<1>5. /\ tile' = tile /\ End' = End /\ first' = first /\ (OwnsKeys' <=> OwnsKeys)
      /\ \A y \in Threads : rn(y)' = rn(y)
  BY SameTile
<1>6. InPhase'
  BY <1>3, <1>4, <1>5 DEF Control, Schedule, InPhase
<1>7. Copies'
  BY <1>3, <1>4, <1>5 DEF Control, Copies, Copied, Listed
<1> QED
  BY <1>2, <1>3, <1>4, <1>5, <1>6, <1>7

LEMMA DotsControl ==
  ASSUME Control, NEW x \in Threads, Dots(x)
  PROVE  Control'
<1>1. /\ pc[x] = "dot"
      /\ part' = [part EXCEPT ![x] = {T[i] : i \in HalfSlots(x, at[x].r)}]
      /\ pc' = [pc EXCEPT ![x] = "shfl"]
      /\ UNCHANGED <<arg, at, grad, T, Stats, out>>
  BY DEF Dots
<1>2. /\ pc'[x] = "shfl" /\ \A y \in Threads : y # x => pc'[y] = pc[y]
      /\ pc' \in [Threads -> Points]
      /\ \A y \in Threads : (Using(y)' <=> Using(y)) /\ (Over(y)' <=> Over(y)) /\ ~Copying(y)
                            /\ ~Copying(y)'
      /\ tile' = tile /\ End' = End /\ first' = first /\ (OwnsKeys' <=> OwnsKeys)
      /\ \A y \in Threads : rn(y)' = rn(y)
      /\ InPhase' /\ Copies'
  BY <1>1, UseStep DEF Use
<1>3. /\ part'[x] = HalfChunks(x, tile + at[x].r)
      /\ \A y \in Threads : y # x => part'[y] = part[y]
      /\ part' = [y \in Threads |-> part'[y]]
  <2>1. /\ at[x].r < rn(x) /\ at[x].r \in Nat /\ rn(x) \in Nat
    <3>1. at[x].r < rn(x) /\ at[x].r \in 0 .. BLOCK_N /\ rn(x) \in 1 .. BLOCK_N
      BY <1>1, Basics DEF Control, Schedule, Counters, Over
    <3> QED
      BY <3>1, Sizes
  <2>2. at[x].r \in at[x].r .. rn(x) - 1 /\ Using(x)
    BY <1>1, <2>1 DEF Using
  <2>3. {T[i] : i \in HalfSlots(x, at[x].r)} = HalfChunks(x, tile + at[x].r)
    BY <2>2, FreshRow
  <2> QED
    BY <1>1, <2>3 DEF Control, Shape
<1>4. BlockTypeOK' /\ Shape'
  BY <1>1, <1>2, <1>3 DEF Control, BlockTypeOK, Shape
<1>5. Schedule'
  <2>1. Counters'
    BY <1>1, <1>2 DEF Control, Schedule, Counters
  <2>2. InWarp'
    BY <1>1, <1>2 DEF Control, Schedule, InWarp, Shuffles
  <2> QED
    BY <1>2, <2>1, <2>2 DEF Schedule
<1>6. Halves'
  BY <1>1, <1>2, <1>3 DEF Control, Halves, HalfChunks, HalfSlots, Chunks, Half
<1> QED
  BY <1>2, <1>4, <1>5, <1>6 DEF Control

LEMMA ShuffleControl ==
  ASSUME Control, NEW w \in Warps, Shuffle(w)
  PROVE  Control'
<1>1. /\ \A x \in ThreadsOf(w) : pc[x] = "shfl"
      /\ part' = [x \in Threads |-> IF x \in ThreadsOf(w)
                                    THEN part[x] \cup part[Partner(x)] ELSE part[x]]
      /\ pc' = [x \in Threads |-> IF x \in ThreadsOf(w) THEN "fold" ELSE pc[x]]
      /\ UNCHANGED <<arg, at, grad, T, Stats, out>>
  BY DEF Shuffle
<1>2. /\ tile' = tile /\ End' = End /\ first' = first /\ (OwnsKeys' <=> OwnsKeys)
      /\ \A y \in Threads : rn(y)' = rn(y)
  BY <1>1, SameTile
<1>3. \A y \in Threads : /\ Using(y)' <=> Using(y)
                         /\ Copying(y)' <=> Copying(y)
                         /\ Over(y)' <=> Over(y)
  BY <1>1 DEF Copying, Using, Over
<1>4. \A x \in ThreadsOf(w) : /\ x \in Threads /\ Partner(x) \in ThreadsOf(w)
                              /\ pc[x] = "shfl" /\ pc[Partner(x)] = "shfl"
                              /\ Partner(x) \in Threads
  BY <1>1, PartnerOf DEF ThreadsOf
<1>5. BlockTypeOK' /\ Shape'
  <2>1. pc' \in [Threads -> Points]
    BY <1>1 DEF Control, Shape, Points
  <2> QED
    BY <1>1, <1>2, <2>1 DEF Control, BlockTypeOK, Shape
<1>6. Schedule'
  <2>1. InPhase'
    BY <1>1, <1>2, <1>3 DEF Control, Schedule, InPhase
  <2>2. Counters'
    BY <1>1, <1>2, <1>3 DEF Control, Schedule, Counters
  <2>3. InWarp'
    <3>1. \A x \in Threads : Shuffles(x)' = IF x \in ThreadsOf(w) THEN Shuffles(x) + 1
                                            ELSE Shuffles(x)
      BY <1>1 DEF Shuffles, ThreadsOf
    <3> QED
      BY <3>1 DEF Control, Schedule, InWarp, ThreadsOf
  <2> QED
    BY <2>1, <2>2, <2>3 DEF Schedule
<1>7. Copies'
  <2>1. \A y \in Threads : Copying(y) => pc'[y] = pc[y]
    BY <1>1 DEF Copying
  <2> QED
    BY <1>1, <1>2, <1>3, <2>1 DEF Control, Copies, Copied, Listed, Behind
<1>8. Halves'
  <2> SUFFICES ASSUME NEW x \in Threads
               PROVE  /\ pc'[x] = "shfl" => part'[x] = HalfChunks(x, tile + at[x].r)
                      /\ pc'[x] = "fold" => part'[x] = Chunks(tile + at[x].r)
    BY <1>1, <1>2 DEF Halves, HalfChunks, HalfSlots, Chunks, Half
  <2>1. CASE x \in ThreadsOf(w)
    <3>1. Shuffles(x) = at[x].r /\ Shuffles(Partner(x)) = at[Partner(x)].r
      BY <1>4, <2>1 DEF Shuffles
    <3>2. at[Partner(x)].r = at[x].r
      BY <1>4, <2>1, <3>1, PartnerOf DEF Control, Schedule, InWarp
    <3>3. part[x] = HalfSlots(x, tile + at[x].r)
          /\ part[Partner(x)] = HalfSlots(Partner(x), tile + at[x].r)
      BY <1>4, <2>1, <3>2 DEF Control, Halves, HalfChunks
    <3>4. tile + at[x].r \in Nat
      <4>1. tile \in Nat /\ at[x].r \in 0 .. BLOCK_N
        BY Basics
      <4> QED
        BY <4>1
    <3> QED
      BY <1>1, <2>1, <3>3, <3>4, HalvesOf
  <2>2. CASE x \notin ThreadsOf(w)
    BY <1>1, <2>2 DEF Control, Halves
  <2> QED
    BY <2>1, <2>2
<1> QED
  BY <1>5, <1>6, <1>7, <1>8 DEF Control

(* What a thread adds is the term of the row it is at.                     *)
LEMMA FoldedTerm ==
  ASSUME Control, NEW x \in Threads, pc[x] = "fold"
  PROVE  Term(x) = tile + at[x].r
<1> DEFINE k == tile + at[x].r
<1>1. Using(x) /\ ~Over(x)
  BY DEF Using, Over
<1>2. /\ at[x].r < rn(x) /\ at[x].r \in Nat /\ rn(x) \in Nat /\ tile \in Nat
      /\ rn(x) <= BLOCK_N /\ tile + rn(x) <= arg.seq /\ arg.seq \in Nat /\ arg.seq <= MaxSeq
  <2>1. /\ at[x].r < rn(x) /\ at[x].r \in 0 .. BLOCK_N /\ tile \in Nat
        /\ rn(x) \in 1 .. BLOCK_N /\ tile + rn(x) <= arg.seq /\ arg.seq \in 1 .. MaxSeq
    BY <1>1, Basics DEF Control, Schedule, Counters
  <2> QED
    BY <2>1, Sizes
<1>3. k \in Nat /\ k \in Rows
  BY <1>2, Sizes DEF Rows
<1>4. IsTerm(x, k)
  <2>1. at[x].r \in at[x].r .. rn(x) - 1 /\ at[x].r \in 0 .. BLOCK_N - 1
    BY <1>2, Sizes
  <2>2. {T[i] : i \in HalfSlots(x, at[x].r)} = HalfChunks(x, k)
    BY <1>1, <2>1, FreshRow
  <2>3. part[x] = Chunks(k)
    BY DEF Control, Halves
  <2>4. OwnsKeys => Stats[at[x].r] = k
    BY <1>1, <1>2, <2>1 DEF Control, Copies, Listed
  <2> QED
    BY <2>2, <2>3, <2>4 DEF IsTerm
<1> HIDE DEF k
<1>5. \A d \in Rows : IsTerm(x, d) => d = k
  <2> SUFFICES ASSUME NEW d \in Rows, Chunks(k) = Chunks(d) PROVE d = k
    BY <1>4 DEF IsTerm
  <2>1. d \in Int /\ k \in Int
    BY <1>3 DEF Rows
  <2>2. k * DIM4 \in Chunks(k)
    BY <2>1, Sizes DEF Chunks
  <2> QED
    BY <2>1, <2>2, ChunksApart
<1> QED
  BY <1>3, <1>4, <1>5 DEF Term, k

LEMMA FoldControl ==
  ASSUME Control, NEW x \in Threads, Fold(x)
  PROVE  /\ Control'
         /\ at'[x].r = at[x].r + 1 /\ \A y \in Threads : y # x => at'[y] = at[y]
         /\ \A y \in Threads : at'[y].r0 = at[y].r0
         /\ \A y \in Threads : pc[y] # "done" /\ pc'[y] # "done"
<1>1. /\ pc[x] = "fold"
      /\ grad' = [grad EXCEPT ![x] = IF Masked(x) THEN grad[x] ELSE Append(grad[x], Term(x))]
      /\ at' = [at EXCEPT ![x].r = @ + 1]
      /\ pc' = [pc EXCEPT ![x] = AfterRow(x)]
      /\ part' = [part EXCEPT ![x] = {}]
      /\ UNCHANGED <<arg, T, Stats, out>>
  BY DEF Fold
<1>2. at \in [Threads -> Counts]
  BY DEF Control, Shape
<1>3. /\ at'[x].r = at[x].r + 1 /\ at'[x].r0 = at[x].r0 /\ at'[x].i = at[x].i
      /\ \A y \in Threads : y # x => at'[y] = at[y]
      /\ \A y \in Threads : at'[y].r0 = at[y].r0
  BY <1>1, <1>2 DEF Counts
<1>4. AfterRow(x) \in {"dot", "sync2"}
  BY DEF AfterRow
<1>5. /\ pc'[x] = AfterRow(x) /\ \A y \in Threads : y # x => pc'[y] = pc[y]
      /\ pc' \in [Threads -> Points]
      /\ \A y \in Threads : (Using(y)' <=> Using(y)) /\ (Over(y)' <=> Over(y)) /\ ~Copying(y)
                            /\ ~Copying(y)'
      /\ tile' = tile /\ End' = End /\ first' = first /\ (OwnsKeys' <=> OwnsKeys)
      /\ \A y \in Threads : rn(y)' = rn(y)
      /\ InPhase' /\ Copies'
  BY <1>1, <1>3, <1>4, UseStep DEF Use
<1>6. /\ at[x].r < rn(x) /\ at[x].r \in Nat /\ rn(x) \in Nat /\ rn(x) <= BLOCK_N
  <2>1. at[x].r < rn(x) /\ at[x].r \in 0 .. BLOCK_N /\ rn(x) \in 1 .. BLOCK_N
    BY <1>1, Basics DEF Control, Schedule, Counters, Over
  <2> QED
    BY <2>1, Sizes
<1>7. \A y \in Threads : Using(y) /\ Using(y)' /\ ~Over(y)'
  BY <1>1, <1>5 DEF Control, Schedule, InPhase, Copying, Using, Over
<1>8. BlockTypeOK' /\ Shape'
  <2>1. at' \in [Threads -> Counts]
    <3>1. at[x].r + 1 \in 0 .. BLOCK_N
      BY <1>6, Sizes
    <3> QED
      BY <1>1, <1>2, <3>1 DEF Counts
  <2>2. grad' = [y \in Threads |-> grad'[y]] /\ part' = [y \in Threads |-> part'[y]]
    BY <1>1 DEF Control, Shape
  <2>3. \A y \in Threads : at'[y].r0 \in 0 .. MaxSeq + BLOCK_N /\ at'[y].r \in 0 .. BLOCK_N
    BY <2>1 DEF Counts
  <2> QED
    BY <1>1, <1>5, <2>1, <2>2, <2>3 DEF Control, BlockTypeOK, Shape
<1>9. Schedule'
  <2>1. Counters'
    <3> SUFFICES ASSUME NEW y \in Threads
                 PROVE  /\ at'[y].r0 = tile
                        /\ pc'[y] \in {"dot", "shfl", "fold"} => at'[y].r < rn(y)
                        /\ pc'[y] = "sync2" => at'[y].r = rn(y)
      BY <1>5, <1>7 DEF Counters
    <3>1. CASE y = x
      BY <1>3, <1>5, <1>6, <3>1 DEF AfterRow, Control, Schedule, Counters
    <3>2. CASE y # x
      BY <1>3, <1>5, <3>2 DEF Control, Schedule, Counters
    <3> QED
      BY <3>1, <3>2
  <2>2. InWarp'
    <3>1. \A y \in Threads : Shuffles(y)' = Shuffles(y)
      BY <1>1, <1>3, <1>4, <1>5 DEF Shuffles
    <3> QED
      BY <3>1 DEF Control, Schedule, InWarp
  <2> QED
    BY <1>5, <2>1, <2>2 DEF Schedule
<1>10. Halves'
  BY <1>1, <1>3, <1>4, <1>5 DEF Control, Halves, HalfChunks, HalfSlots, Chunks, Half
<1>11. \A y \in Threads : pc[y] # "done" /\ pc'[y] # "done"
  BY <1>7 DEF Using
<1> QED
  BY <1>3, <1>5, <1>8, <1>9, <1>10, <1>11 DEF Control

(* At a barrier the whole block waits for the same one.                    *)
LEMMA SyncCases ==
  ASSUME Control, SyncThreads
  PROVE  \/ \A x \in Threads : pc[x] = "sync1" /\ pc'[x] = "dot" /\ at'[x] = at[x]
         \/ \A x \in Threads : /\ pc[x] = "sync2" /\ pc'[x] = AfterTile(x)
                               /\ at'[x] = TileAfter(x)
<1>1. /\ \A x \in Threads : pc[x] \in {"sync1", "sync2"}
      /\ pc' = [x \in Threads |-> IF pc[x] = "sync1" THEN "dot" ELSE AfterTile(x)]
      /\ at' = [x \in Threads |-> IF pc[x] = "sync1" THEN at[x] ELSE TileAfter(x)]
  BY DEF SyncThreads
<1>2. \/ \A x \in Threads : pc[x] = "sync1"
      \/ \A x \in Threads : pc[x] = "sync2"
  BY <1>1, Sizes DEF Control, Schedule, InPhase, Copying, Using, Over
<1> QED
  BY <1>1, <1>2

(* The first barrier of a tile: every slot has a thread, and is copied.    *)
LEMMA FirstSync ==
  ASSUME Control, SyncThreads,
         \A x \in Threads : pc[x] = "sync1" /\ pc'[x] = "dot" /\ at'[x] = at[x]
  PROVE  Control'
<1>1. UNCHANGED <<arg, part, grad, T, Stats, out>>
      /\ pc' = [x \in Threads |-> pc'[x]] /\ at' = [x \in Threads |-> at'[x]]
  BY DEF SyncThreads
<1>2. /\ tile' = tile /\ End' = End /\ first' = first /\ (OwnsKeys' <=> OwnsKeys)
      /\ \A y \in Threads : rn(y)' = rn(y)
  BY <1>1, SameTile
<1>3. \A y \in Threads : /\ Copying(y) /\ ~Using(y) /\ ~Over(y)
                         /\ Using(y)' /\ ~Copying(y)' /\ ~Over(y)'
  BY DEF Copying, Using, Over
<1>4. \A x \in Threads : at[x].r = 0 /\ at[x].r0 = tile /\ 0 < rn(x)
  <2> TAKE x \in Threads
  <2>1. at[x].r = 0 /\ at[x].r0 = tile /\ rn(x) \in 1 .. BLOCK_N
    BY <1>3, Basics DEF Control, Schedule, Counters
  <2> QED
    BY <2>1, Sizes
<1>5. at' = at
  BY <1>1 DEF Control, Shape
<1>6. BlockTypeOK' /\ Shape'
  <2>1. pc' \in [Threads -> Points]
    BY <1>1 DEF Points
  <2> QED
    BY <1>1, <1>2, <1>5, <2>1 DEF Control, BlockTypeOK, Shape
<1>7. Schedule'
  <2>1. InPhase'
    BY <1>2, <1>3, Sizes DEF Control, Schedule, InPhase
  <2>2. Counters'
    BY <1>2, <1>3, <1>4, <1>5 DEF Counters
  <2>3. InWarp'
    BY <1>4, <1>5 DEF InWarp, Shuffles
  <2> QED
    BY <2>1, <2>2, <2>3 DEF Schedule
<1>8. Copies'
  <2>1. \A s \in Nat : s % NTHREADS \in Threads
    BY Sizes DEF Threads
  <2>2. \A x, y \in Threads : rn(y) = rn(x)
    BY <1>4 DEF rn
  <2>3. ASSUME NEW x \in Threads, NEW s \in Slots, s < rn(x) * DIM4 PROVE Copied(s)
    <3>1. PICK y \in Threads : s % NTHREADS = y
      BY <2>1 DEF Slots
    <3> QED
      BY <1>3, <2>2, <2>3, <3>1 DEF Control, Copies, Behind
  <2>4. ASSUME OwnsKeys, NEW x \in Threads, NEW r \in 0 .. BLOCK_N - 1, r < rn(x)
        PROVE  Listed(r)
    <3>1. PICK y \in Threads : r % NTHREADS = y
      BY <2>1
    <3> QED
      BY <1>3, <2>2, <2>4, <3>1 DEF Control, Copies, Behind
  <2>5. /\ \A s \in Slots : Copied(s)' <=> Copied(s)
        /\ \A r \in 0 .. BLOCK_N - 1 : Listed(r)' <=> Listed(r)
    BY <1>1, <1>2 DEF Copied, Listed
  <2> QED
    BY <1>2, <1>3, <2>3, <2>4, <2>5 DEF Copies
<1>9. Halves'
  BY DEF Halves
<1> QED
  BY <1>6, <1>7, <1>8, <1>9 DEF Control

(* The second: the next tile, or the end.                                  *)
LEMMA SecondSync ==
  ASSUME Control, SyncThreads,
         \A x \in Threads : pc[x] = "sync2" /\ pc'[x] = AfterTile(x) /\ at'[x] = TileAfter(x)
  PROVE  Control'
<1>1. UNCHANGED <<arg, part, grad, T, Stats, out>>
      /\ pc' = [x \in Threads |-> pc'[x]] /\ at' = [x \in Threads |-> at'[x]]
  BY DEF SyncThreads
<1>2. first' = first /\ End' = End /\ (OwnsKeys' <=> OwnsKeys)
  BY <1>1 DEF first, End, kv_end, OwnsKeys
<1>3. \A x \in Threads : /\ at'[x].i = x /\ at'[x].r0 = tile + BLOCK_N /\ at'[x].r = 0
                         /\ at'[x] = [i |-> x, r0 |-> tile + BLOCK_N, r |-> 0]
                         /\ pc'[x] = IF tile + BLOCK_N < End THEN "load" ELSE "store"
  BY DEF TileAfter, AfterTile, Control, Schedule, Counters
<1>4. tile' = tile + BLOCK_N
  BY <1>3, Sizes DEF tile
<1>5. tile \in Nat /\ tile < End /\ End \in Nat /\ End <= MaxSeq
  <2>1. ~Over(0)
    BY Sizes DEF Over
  <2>2. tile \in Nat /\ tile < End /\ End \in Nat /\ End <= arg.seq
        /\ arg.seq \in 1 .. MaxSeq
    BY <2>1, Basics, Sizes
  <2> QED
    BY <2>2, Sizes
<1>6. BlockTypeOK' /\ Shape'
  <2>1. pc' \in [Threads -> Points]
    BY <1>1, <1>3 DEF Points
  <2>2. at' \in [Threads -> Counts]
    <3>1. tile + BLOCK_N \in 0 .. MaxSeq + BLOCK_N /\ 0 \in 0 .. BLOCK_N
      BY <1>5, Sizes
    <3>2. \A a \in Nat, b \in 0 .. MaxSeq + BLOCK_N, c \in 0 .. BLOCK_N :
            [i |-> a, r0 |-> b, r |-> c] \in Counts
      BY DEF Counts
    <3>3. \A x \in Threads : x \in Nat
      BY Sizes
    <3>4. ASSUME NEW x \in Threads PROVE at'[x] \in Counts
      <4>1. at'[x] = [i |-> x, r0 |-> tile + BLOCK_N, r |-> 0] /\ x \in Nat
        BY <1>3, <3>3
      <4> QED
        BY <3>1, <3>2, <4>1, Zenon
    <3> QED
      BY <1>1, <3>4
  <2>3. \A y \in Threads : at'[y].r0 \in 0 .. MaxSeq + BLOCK_N /\ at'[y].r \in 0 .. BLOCK_N
    BY <2>2 DEF Counts
  <2> QED
    BY <1>1, <1>2, <2>1, <2>2, <2>3 DEF Control, BlockTypeOK, Shape
<1>7. Schedule'
  <2>1. InPhase'
    <3>1. tile' < End' + BLOCK_N
      BY <1>2, <1>4, <1>5, Sizes
    <3>2. CASE tile + BLOCK_N < End
      BY <1>2, <1>3, <1>4, <3>1, <3>2 DEF InPhase, Copying
    <3>3. CASE ~(tile + BLOCK_N < End)
      <4>1. End' <= tile'
        BY <1>2, <1>4, <1>5, <3>3, Sizes
      <4>2. \A x \in Threads : pc'[x] = "store"
        BY <1>3, <3>3
      <4> QED
        BY <3>1, <4>1, <4>2 DEF InPhase, Over
    <3> QED
      BY <3>2, <3>3
  <2>2. Counters'
    BY <1>3, <1>4 DEF Counters
  <2>3. InWarp'
    <3>1. \A x \in Threads : pc'[x] # "fold" /\ at'[x].r = 0
      BY <1>3 DEF AfterTile, TileAfter
    <3>2. \A x \in Threads : Shuffles(x)' = 0
      BY <3>1 DEF Shuffles
    <3> QED
      BY <3>2 DEF InWarp
  <2> QED
    BY <2>1, <2>2, <2>3 DEF Schedule
<1>8. Copies'
  <2>1. \A x \in Threads : pc'[x] \in {"load", "store"}
    BY <1>3
  <2>2. \A x \in Threads : at'[x].i % NTHREADS = x
    BY <1>3, StartOfStride
  <2>3. \A x \in Threads, s \in Nat : s % NTHREADS = x => ~(s < at'[x].i)
    BY <1>3, StartOfStride
  <2>4. Slots \subseteq Nat
    BY DEF Slots
  <2> QED
    BY <2>1, <2>2, <2>3, <2>4 DEF Copies, Copying, Using, Behind
<1>9. Halves'
  BY <1>3 DEF Halves
<1> QED
  BY <1>6, <1>7, <1>8, <1>9 DEF Control

LEMMA SyncControl ==
  ASSUME Control, SyncThreads
  PROVE  Control'
BY SyncCases, FirstSync, SecondSync

(* The epilogue.                                                           *)
LEMMA StoreControl ==
  ASSUME Control, NEW x \in Threads, Store(x)
  PROVE  /\ Control' /\ pc'[x] = "done"
         /\ \A y \in Threads : y # x => pc'[y] = pc[y]
<1>1. /\ pc[x] = "store" /\ pc' = [pc EXCEPT ![x] = "done"]
      /\ out' = IF Live(x) THEN [out EXCEPT ![Own(x)][Half(x)] = grad[x]] ELSE out
      /\ UNCHANGED <<arg, at, part, grad, T, Stats>>
  BY DEF Store, Writes
<1>2. /\ pc'[x] = "done" /\ \A y \in Threads : y # x => pc'[y] = pc[y]
      /\ pc' \in [Threads -> Points]
      /\ \A y \in Threads : (Using(y)' <=> Using(y)) /\ (Over(y)' <=> Over(y)) /\ ~Copying(y)
                            /\ ~Copying(y)'
      /\ tile' = tile /\ End' = End /\ first' = first /\ (OwnsKeys' <=> OwnsKeys)
      /\ \A y \in Threads : rn(y)' = rn(y)
      /\ InPhase' /\ Copies'
  BY <1>1, UseStep
<1>3. \A y \in Threads : Over(y) /\ ~Using(y)
  BY <1>1 DEF Control, Schedule, InPhase, Copying, Using, Over
<1>4. /\ out' = [k \in Rows |-> [hf \in 0 .. 1 |-> out'[k][hf]]]
      /\ \A k \in Rows, hf \in 0 .. 1 :
           out'[k][hf] # out[k][hf] => k = Own(x) /\ Live(x)
  <2>1. out = [k \in Rows |-> [hf \in 0 .. 1 |-> out[k][hf]]]
    BY DEF Control, Shape
  <2>2. CASE ~Live(x)
    BY <1>1, <2>1, <2>2
  <2>3. CASE Live(x)
    <3> DEFINE g == [out[Own(x)] EXCEPT ![Half(x)] = grad[x]]
    <3>1. out' = [out EXCEPT ![Own(x)] = g]
      BY <1>1, <2>3
    <3>2. g = [hf \in 0 .. 1 |-> g[hf]]
      BY <2>1, <2>3, Basics
    <3> HIDE DEF g
    <3>3. \A k \in Rows : out'[k] = IF k = Own(x) THEN g ELSE out[k]
      BY <2>1, <3>1
    <3>4. out' = [k \in Rows |-> out'[k]]
      BY <2>1, <3>1
    <3> QED
      BY <2>1, <2>3, <3>2, <3>3, <3>4
  <2> QED
    BY <2>2, <2>3
<1>5. BlockTypeOK' /\ Shape'
  <2>1. \A k \in Rows, hf \in 0 .. 1 : out'[k][hf] # NotStored => k < arg.seq
    BY <1>4 DEF Control, BlockTypeOK, Live
  <2>2. DOMAIN out' = Rows
    BY <1>4
  <2> QED
    BY <1>1, <1>2, <1>4, <2>1, <2>2 DEF Control, BlockTypeOK, Shape, Rows
<1>6. Schedule'
  <2>1. Counters'
    BY <1>1, <1>2, <1>3 DEF Control, Schedule, Counters, Over
  <2>2. InWarp'
    BY <1>1, <1>2 DEF Control, Schedule, InWarp, Shuffles
  <2> QED
    BY <1>2, <2>1, <2>2 DEF Schedule
<1>7. Halves'
  BY <1>2, <1>3 DEF Halves, Using
<1> QED
  BY <1>2, <1>5, <1>6, <1>7 DEF Control
-----------------------------------------------------------------------------
(* Steps that touch neither the registers nor the output.                  *)
LEMMA SameSums ==
  ASSUME arg' = arg
  PROVE  /\ first' = first /\ \A y \in Threads : Own(y)' = Own(y) /\ (Live(y)' <=> Live(y))
         /\ \A k, n : SumTo(k, n)' = SumTo(k, n)
         /\ \A k : ReferenceGradient(k)' = ReferenceGradient(k) /\ (OwnRow(k)' <=> OwnRow(k))
         /\ \A k, hf : Owner(k, hf)' = Owner(k, hf)
BY DEF first, Own, Live, SumTo, ReferenceGradient, OwnsKeys, OwnRow, Owner

LEMMA QuietData ==
  ASSUME Control, Running, Output, UNCHANGED <<arg, grad, out>>,
         \A y \in Threads : /\ at'[y].r0 = at[y].r0 /\ at'[y].r = at[y].r
                            /\ pc'[y] = "done" <=> pc[y] = "done"
  PROVE  Running' /\ Output'
<1>1. Running'
  BY SameSums DEF Running, Passed
<1>2. first \in Nat
  BY Basics, Sizes
<1>3. \A k \in Rows, hf \in 0 .. 1 : Written(k, hf)' <=> Written(k, hf)
  BY <1>2, SameSums, OwnerOf DEF Written
<1>4. Output'
  BY <1>3, SameSums DEF Output
<1> QED
  BY <1>1, <1>4

(* A thread of a live row adds the term of the row it is at, if the two    *)
(* see each other, and nothing otherwise.                                  *)
LEMMA FoldSum ==
  ASSUME Control, Running, NEW x \in Threads, Fold(x), Live(x)
  PROVE  grad'[x] = SumTo(Own(x), Passed(x)')
<1> DEFINE k == tile + at[x].r
           o == Own(x)
<1>1. pc[x] = "fold" /\ arg' = arg
      /\ grad'[x] = IF Masked(x) THEN grad[x] ELSE Append(grad[x], k)
  BY FoldedTerm DEF Fold, Control, Shape
<1>2. /\ at[x].r0 = tile /\ tile \in Nat /\ at[x].r \in Nat /\ at[x].r < rn(x)
      /\ rn(x) \in Nat /\ tile + rn(x) <= arg.seq /\ arg.seq \in Nat
      /\ o \in Nat /\ arg.causal \in BOOLEAN
  <2>1. /\ at[x].r0 = tile /\ tile \in Nat /\ at[x].r \in 0 .. BLOCK_N /\ at[x].r < rn(x)
        /\ rn(x) \in 1 .. BLOCK_N /\ tile + rn(x) <= arg.seq /\ arg.seq \in 1 .. MaxSeq
        /\ o \in Nat /\ arg.causal \in BOOLEAN
    BY <1>1, Basics DEF Control, Schedule, Counters, Over
  <2> QED
    BY <2>1, Sizes
<1>3. k \in Nat /\ k < arg.seq /\ o < arg.seq
  BY <1>2 DEF Live
<1>4. Passed(x) = k /\ Passed(x)' = k + 1
  <2>1. at'[x].r0 + at'[x].r = k + 1
    BY <1>2, FoldControl
  <2> QED
    BY <1>1, <1>2, <1>3, <2>1 DEF Passed, Least
<1>5. grad[x] = SumTo(o, k)
  BY <1>4 DEF Running
<1>6. Masked(x) <=> arg.causal /\ IF OwnsKeys THEN k < o ELSE k > o
  BY <1>2 DEF Masked, Streamed
<1> HIDE DEF k, o
<1>7. CASE OwnsKeys
  <2> DEFINE f == FirstQuery(o, arg.causal)
  <2>1. f \in Nat /\ (Masked(x) <=> k < f)
    BY <1>2, <1>3, <1>6, <1>7 DEF FirstQuery
  <2>2. SumTo(o, k) = Ascending(f, k) /\ SumTo(o, k + 1) = Ascending(f, k + 1)
    BY <1>7 DEF SumTo
  <2> HIDE DEF f
  <2>3. CASE Masked(x)
    BY <1>1, <1>3, <1>4, <1>5, <2>1, <2>2, <2>3, NoRows DEF o
  <2>4. CASE ~Masked(x)
    <3>1. Append(Ascending(f, k), k) = Ascending(f, k + 1)
      <4>1. f \in Int /\ k \in Int /\ f <= k
        BY <1>3, <2>1, <2>4
      <4> QED
        BY <4>1, OneMoreRow, Zenon
    <3>2. grad'[x] = Append(grad[x], k)
      BY <1>1, <2>4
    <3>3. SumTo(Own(x), Passed(x)') = Ascending(f, k + 1) /\ grad[x] = Ascending(f, k)
      BY <1>4, <1>5, <2>2 DEF o
    <3> QED
      BY <3>1, <3>2, <3>3, Zenon
  <2> QED
    BY <2>3, <2>4
<1>8. CASE ~OwnsKeys
  <2> DEFINE m == kmax(o, arg.seq, arg.causal)
  <2>1. m \in Nat /\ (Masked(x) <=> k >= m)
    BY <1>2, <1>3, <1>6, <1>8 DEF kmax
  <2>2. SumTo(o, k) = Ascending(0, Least(k, m)) /\ SumTo(o, k + 1) = Ascending(0, Least(k + 1, m))
    BY <1>8 DEF SumTo
  <2> HIDE DEF m
  <2>3. CASE Masked(x)
    <3>1. Least(k, m) = m /\ Least(k + 1, m) = m
      BY <1>3, <2>1, <2>3 DEF Least
    <3> QED
      BY <1>1, <1>4, <1>5, <2>2, <2>3, <3>1 DEF o
  <2>4. CASE ~Masked(x)
    <3>1. Least(k, m) = k /\ Least(k + 1, m) = k + 1
      BY <1>3, <2>1, <2>4 DEF Least
    <3>2. Append(Ascending(0, k), k) = Ascending(0, k + 1)
      <4>1. 0 \in Int /\ k \in Int /\ 0 <= k
        BY <1>3
      <4> QED
        BY <4>1, OneMoreRow, Zenon
    <3>3. grad'[x] = Append(grad[x], k)
      BY <1>1, <2>4
    <3>4. SumTo(Own(x), Passed(x)') = Ascending(0, k + 1) /\ grad[x] = Ascending(0, k)
      BY <1>4, <1>5, <2>2, <3>1 DEF o
    <3> QED
      BY <3>2, <3>3, <3>4, Zenon
  <2> QED
    BY <2>3, <2>4
<1> QED
  BY <1>7, <1>8

LEMMA FoldData ==
  ASSUME Control, Running, Output, NEW x \in Threads, Fold(x)
  PROVE  Running' /\ Output'
<1>1. /\ UNCHANGED <<arg, out>> /\ \A y \in Threads : y # x => grad'[y] = grad[y]
  BY DEF Fold, Control, Shape
<1>2. /\ \A y \in Threads : y # x => at'[y] = at[y]
      /\ \A y \in Threads : pc[y] # "done" /\ pc'[y] # "done"
  BY FoldControl
<1>3. Running'
  <2> SUFFICES ASSUME NEW y \in Threads, Live(y) PROVE grad'[y] = SumTo(Own(y), Passed(y)')
    BY <1>1, SameSums DEF Running
  <2>1. CASE y = x
    BY <2>1, FoldSum
  <2>2. CASE y # x
    BY <1>1, <1>2, <2>2 DEF Running, Passed
  <2> QED
    BY <2>1, <2>2
<1>4. first \in Nat
  BY Basics
<1>5. \A k \in Rows, hf \in 0 .. 1 : Written(k, hf)' <=> Written(k, hf)
  BY <1>1, <1>2, <1>4, SameSums, OwnerOf DEF Written
<1>6. Output'
  BY <1>1, <1>5, SameSums DEF Output
<1> QED
  BY <1>3, <1>6

(* A tile that is not full is the last.                                    *)
LEMMA SyncData ==
  ASSUME Control, Running, Output, SyncThreads
  PROVE  Running' /\ Output'
<1>1. UNCHANGED <<arg, part, grad, T, Stats, out>>
  BY DEF SyncThreads
<1>2. CASE \A x \in Threads : pc[x] = "sync1" /\ pc'[x] = "dot" /\ at'[x] = at[x]
  BY <1>1, <1>2, QuietData
<1>3. CASE \A x \in Threads : pc[x] = "sync2" /\ pc'[x] = AfterTile(x) /\ at'[x] = TileAfter(x)
  <2>1. ASSUME NEW x \in Threads PROVE Passed(x)' = Passed(x)
    <3>1. /\ at[x].r0 = tile /\ at[x].r = rn(x) /\ tile \in Nat
          /\ rn(x) \in 1 .. BLOCK_N /\ tile + rn(x) <= arg.seq /\ arg.seq \in 1 .. MaxSeq
      BY <1>3, Basics DEF Control, Schedule, Counters, Over
    <3>2. at'[x].r0 + at'[x].r = tile + BLOCK_N
      <4> DEFINE n == tile + BLOCK_N
      <4>1. at'[x] = [i |-> x, r0 |-> n, r |-> 0]
        BY <1>3, <3>1, Zenon DEF TileAfter
      <4> HIDE DEF n
      <4>2. at'[x].r0 = n /\ at'[x].r = 0
        BY <4>1
      <4> QED
        BY <3>1, <4>2, Sizes DEF n
    <3>3. rn(x) = Least(BLOCK_N, arg.seq - tile)
      BY <3>1 DEF rn
    <3>4. rn(x) \in Nat /\ arg.seq \in Nat
      BY <3>1, Sizes
    <3>5. Least(tile + BLOCK_N, arg.seq) = Least(tile + rn(x), arg.seq)
      BY <3>1, <3>3, <3>4, Sizes DEF Least
    <3> QED
      BY <1>1, <3>1, <3>2, <3>5 DEF Passed
  <2>2. Running'
    BY <1>1, <2>1, SameSums DEF Running
  <2>3. \A x \in Threads : pc[x] # "done" /\ pc'[x] # "done"
    BY <1>3 DEF AfterTile
  <2>4. first \in Nat
    BY Basics, Sizes
  <2>5. \A k \in Rows, hf \in 0 .. 1 : Written(k, hf)' <=> Written(k, hf)
    BY <1>1, <2>3, <2>4, SameSums, OwnerOf DEF Written
  <2>6. Output'
    BY <1>1, <2>5, SameSums DEF Output
  <2> QED
    BY <2>2, <2>6
<1> QED
  BY <1>2, <1>3, SyncCases

(* A reference sum is no unwritten row.                                    *)
LEMMA ReferenceIsResult ==
  ASSUME arg.seq \in 1 .. MaxSeq, arg.causal \in BOOLEAN, NEW k \in Nat, k < arg.seq
  PROVE  ReferenceGradient(k) # NotStored
<1>1. /\ FirstQuery(k, arg.causal) \in 0 .. MaxSeq /\ 0 \in 0 .. MaxSeq
      /\ kmax(k, arg.seq, arg.causal) \in 0 .. MaxSeq /\ arg.seq \in 0 .. MaxSeq
  BY Sizes DEF FirstQuery, kmax
<1> QED
  BY <1>1, NotStoredIsNoResult DEF ReferenceGradient, QueriesOf, KeysOf

(* Past the last tile a live row's sum is the reference's.                 *)
LEMMA WholeSum ==
  ASSUME Control, Running, NEW x \in Threads, pc[x] = "store", Live(x)
  PROVE  grad[x] = ReferenceGradient(Own(x))
<1> DEFINE o == Own(x)
<1>1. /\ arg.seq \in Nat /\ arg.seq <= MaxSeq /\ arg.causal \in BOOLEAN /\ first \in Nat
      /\ o \in Nat /\ o < arg.seq /\ o < first + BLOCK_M
      /\ at[x].r0 = tile /\ tile \in Nat /\ at[x].r = 0
  <2>1. /\ arg.seq \in 1 .. MaxSeq /\ arg.causal \in BOOLEAN /\ first \in Nat
        /\ o \in Nat /\ at[x].r0 = tile /\ tile \in Nat /\ at[x].r = 0
    BY Basics DEF Control, Schedule, Counters, Over
  <2>2. o = first + x \div 2 /\ x \div 2 \in 0 .. BLOCK_M - 1
    BY PairOf DEF Own
  <2> QED
    BY <2>1, <2>2, Sizes DEF Live
<1>2. End <= tile
  BY DEF Control, Schedule, InPhase, Copying, Using
<1>3. Passed(x) = Least(tile, arg.seq)
  BY <1>1 DEF Passed
<1>4. grad[x] = SumTo(o, Passed(x))
  BY DEF Running
<1> HIDE DEF o
<1>5. CASE OwnsKeys
  <2>1. Passed(x) = arg.seq
    BY <1>1, <1>2, <1>3, <1>5 DEF End, Least
  <2> QED
    BY <1>4, <1>5, <2>1 DEF SumTo, ReferenceGradient, QueriesOf, o
<1>6. CASE ~OwnsKeys
  <2> DEFINE m == kmax(o, arg.seq, arg.causal)
  <2>1. Least(Passed(x), m) = m
    BY <1>1, <1>2, <1>3, <1>6, Sizes DEF End, kv_end, Least, kmax
  <2> QED
    BY <1>4, <1>6, <2>1 DEF SumTo, ReferenceGradient, KeysOf, o
<1> QED
  BY <1>5, <1>6

LEMMA StoreData ==
  ASSUME Control, Running, Output, NEW x \in Threads, Store(x)
  PROVE  Running' /\ Output'
<1>1. /\ pc[x] = "store" /\ UNCHANGED <<arg, at, grad>>
      /\ out' = IF Live(x) THEN [out EXCEPT ![Own(x)][Half(x)] = grad[x]] ELSE out
  BY DEF Store, Writes
<1>2. Running'
  BY <1>1, SameSums DEF Running, Passed
<1>3. pc'[x] = "done" /\ \A y \in Threads : y # x => pc'[y] = pc[y]
  BY StoreControl
<1>4. /\ first \in Nat /\ Owner(Own(x), Half(x)) = x /\ Half(x) \in 0 .. 1
      /\ (Live(x) => Own(x) \in Rows /\ OwnRow(Own(x)))
  BY Basics, OwnedBy
<1>5. ASSUME NEW k \in Rows, NEW hf \in 0 .. 1
      PROVE  out'[k][hf] = IF Written(k, hf)' THEN ReferenceGradient(k)' ELSE NotStored
  <2>1. Written(k, hf)' <=> OwnRow(k) /\ pc'[Owner(k, hf)] = "done"
    BY <1>1, SameSums DEF Written
  <2>2. ReferenceGradient(k)' = ReferenceGradient(k)
    BY <1>1, SameSums
  <2>3. out[k][hf] = IF Written(k, hf) THEN ReferenceGradient(k) ELSE NotStored
    BY DEF Output
  <2>4. CASE Live(x) /\ k = Own(x) /\ hf = Half(x)
    <3>1. out'[k][hf] = grad[x]
      BY <1>1, <1>4, <2>4 DEF Control, Shape
    <3> QED
      BY <1>1, <1>3, <1>4, <2>1, <2>2, <2>4, <3>1, WholeSum
  <2>5. CASE ~(Live(x) /\ k = Own(x) /\ hf = Half(x))
    <3>1. out'[k][hf] = out[k][hf]
      BY <1>1, <1>4, <2>5 DEF Control, Shape
    <3>2. OwnRow(k) => Owner(k, hf) \in Threads /\ Owner(k, hf) # x
      BY <1>4, <2>5, OwnerOf DEF OwnRow, Live
    <3> QED
      BY <1>3, <2>1, <2>2, <2>3, <3>1, <3>2 DEF Written
  <2> QED
    BY <2>4, <2>5
<1>6. Output'
  BY <1>5 DEF Output
<1> QED
  BY <1>2, <1>6

LEMMA NextInductive == Inductive /\ [BlockNext]_blockVars => Inductive'
<1> SUFFICES ASSUME Inductive, [BlockNext]_blockVars PROVE Inductive'
  OBVIOUS
<1>1. Control /\ Running /\ Output
  BY DEF Inductive
<1>2. CASE UNCHANGED blockVars
  <2>1. UNCHANGED <<arg, pc, at, part, grad, T, Stats, out>>
    BY <1>2 DEF blockVars
  <2>2. BlockTypeOK'
    BY <1>1, <2>1 DEF Control, BlockTypeOK
  <2>3. /\ tile' = tile /\ End' = End /\ first' = first /\ (OwnsKeys' <=> OwnsKeys)
        /\ \A y \in Threads : rn(y)' = rn(y)
    BY <2>1, SameTile
  <2>4. Shape'
    BY <1>1, <2>1, <2>3 DEF Control, Shape
  <2>5. Schedule'
    BY <1>1, <2>1, <2>3 DEF Control, Schedule, InPhase, Counters, InWarp, Copying, Using,
       Over, Shuffles
  <2>6. Copies'
    BY <1>1, <2>1, <2>3 DEF Control, Copies, Copying, Using, Copied, Listed, Behind
  <2>7. Halves'
    BY <1>1, <2>1, <2>3 DEF Control, Halves, HalfChunks, HalfSlots, Half, Chunks
  <2>8. Running' /\ Output'
    BY <1>1, <2>1, QuietData
  <2> QED
    BY <2>2, <2>4, <2>5, <2>6, <2>7, <2>8 DEF Inductive, Control
<1>3. ASSUME NEW x \in Threads, Load(x) \/ LoadStats(x) PROVE Inductive'
  <2>1. /\ UNCHANGED <<arg, pc, part, grad, out>> /\ pc[x] \in {"load", "stats"}
        /\ at' = [at EXCEPT ![x].i = @ + NTHREADS]
    BY <1>3 DEF Load, LoadStats
  <2>2. \A y \in Threads : at'[y].r0 = at[y].r0 /\ at'[y].r = at[y].r
    BY <1>1, <2>1, CopyStep
  <2> QED
    BY <1>1, <1>3, <2>1, <2>2, LoadControl, LoadStatsControl, QuietData DEF Inductive
<1>4. ASSUME NEW x \in Threads, Loaded(x) PROVE Inductive'
  <2>1. UNCHANGED <<arg, grad, out>>
    BY <1>4 DEF Loaded
  <2> QED
    BY <1>1, <1>4, <2>1, LoadedControl, QuietData DEF Inductive
<1>5. ASSUME NEW x \in Threads, Dots(x) PROVE Inductive'
  <2>1. UNCHANGED <<arg, at, grad, out>>
        /\ \A y \in Threads : pc'[y] = "done" <=> pc[y] = "done"
    BY <1>1, <1>5 DEF Dots, Control, Shape
  <2> QED
    BY <1>1, <1>5, <2>1, DotsControl, QuietData DEF Inductive
<1>6. ASSUME NEW w \in Warps, Shuffle(w) PROVE Inductive'
  <2>1. UNCHANGED <<arg, at, grad, out>>
        /\ \A y \in Threads : pc'[y] = "done" <=> pc[y] = "done"
    BY <1>1, <1>6 DEF Shuffle
  <2> QED
    BY <1>1, <1>6, <2>1, ShuffleControl, QuietData DEF Inductive
<1>7. ASSUME NEW x \in Threads, Fold(x) PROVE Inductive'
  BY <1>1, <1>7, FoldControl, FoldData DEF Inductive
<1>8. ASSUME NEW x \in Threads, Store(x) PROVE Inductive'
  BY <1>1, <1>8, StoreControl, StoreData DEF Inductive
<1>9. CASE SyncThreads
  BY <1>1, <1>9, SyncControl, SyncData DEF Inductive
<1> QED
  BY <1>2, <1>3, <1>4, <1>5, <1>6, <1>7, <1>8, <1>9 DEF BlockNext, Copy, Use, BlockFinished

(* The inductive invariant.                                                *)
THEOREM BlockInvariance == BlockSpec => []Inductive
BY InitInductive, NextInductive, PTL DEF BlockSpec

(* No copy, no read and no store leaves shared memory or the seq rows of   *)
(* the tensors.                                                            *)
THEOREM BlockTypeCorrect == BlockSpec => []BlockTypeOK
<1>1. Inductive => BlockTypeOK
  BY DEF Inductive, Control
<1> QED
  BY <1>1, BlockInvariance, PTL

(* The two barriers of the loop keep the copies of a tile and its use      *)
(* apart.                                                                  *)
THEOREM NoTileRaceHolds == BlockSpec => []NoTileRace
<1>1. Inductive => NoTileRace
  BY ControlNoTileRace DEF Inductive
<1> QED
  BY <1>1, BlockInvariance, PTL

(* All threads reach every barrier, and a warp's every shuffle, together.  *)
THEOREM ConvergeHolds == BlockSpec => []Converge
<1>1. Inductive => Converge
  BY ControlConverge DEF Inductive
<1> QED
  BY <1>1, BlockInvariance, PTL

(* What a block has stored of dQ, or of dK and dV, is the reference sum of *)
(* its own rows, in the reference's order; at its end all are stored.      *)
THEOREM GradientsCorrectHolds == BlockSpec => []GradientsCorrect
<1>1. Inductive => GradientsCorrect
  <2> SUFFICES ASSUME Inductive, NEW k \in Rows, NEW hf \in 0 .. 1
               PROVE  /\ out[k][hf] # NotStored => OwnRow(k) /\ out[k][hf] = ReferenceGradient(k)
                      /\ (\A x \in Threads : pc[x] = "done") /\ OwnRow(k)
                           => out[k][hf] # NotStored
    BY DEF GradientsCorrect, OwnRow
  <2>1. out[k][hf] = IF Written(k, hf) THEN ReferenceGradient(k) ELSE NotStored
    BY DEF Inductive, Output
  <2>2. OwnRow(k) => ReferenceGradient(k) # NotStored
    <3>1. arg.seq \in 1 .. MaxSeq /\ arg.causal \in BOOLEAN /\ k \in Nat
      BY DEF Inductive, Control, Shape, Rows
    <3> QED
      BY <3>1, ReferenceIsResult DEF OwnRow
  <2>3. first \in Nat
    BY Basics, Sizes DEF Inductive
  <2>4. (\A x \in Threads : pc[x] = "done") /\ OwnRow(k) => Written(k, hf)
    BY <2>3, OwnerOf DEF Written
  <2> QED
    BY <2>1, <2>2, <2>4 DEF Written
<1> QED
  BY <1>1, BlockInvariance, PTL
=============================================================================
