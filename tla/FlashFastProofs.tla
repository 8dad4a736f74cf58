--------------------------- MODULE FlashFastProofs ---------------------------
(***************************************************************************)
(* attention_flash_fast, for every number of threads, heads, rows and      *)
(* keys and every block size: its threads share no row, every row they     *)
(* store is the reference softmax, and all of them are when it returns.    *)
(***************************************************************************)
EXTENDS FlashFast, OperatorProofs, FiniteSetTheorems

Counts == [w : Nat, w1 : Nat, j0 : Nat, i : Nat, j : Nat]
At(w, w1, j0, i, j) == [w |-> w, w1 |-> w1, j0 |-> j0, i |-> i, j |-> j]

(* O and the stacks have their elements.                                   *)
Shape ==
  /\ seq \in 0 .. MaxSeq /\ causal \in BOOLEAN
  /\ next \in 0 .. chunks /\ returned \in BOOLEAN
  /\ pc \in [Threads -> {"pull", "unit", "keys", "store"}]
  /\ at \in [Threads -> Counts]
  /\ reg = [x \in Threads |-> [i \in 0 .. QBLK - 1 |-> reg[x][i]]]
  /\ O = [e \in Elements |-> O[e]]

(* Thread x has chunk c, and is at one of its units or past the last one.  *)
(* A chunk has at most one thread.                                         *)
Holds(x, c) ==
  /\ pc[x] # "pull"
  /\ at[x].w1 = ChunkHi(c, total, len)
  /\ at[x].w \in ChunkLo(c, len) .. at[x].w1
  /\ Busy(x) => at[x].w < at[x].w1

Handed ==
  /\ \A x \in Threads : pc[x] # "pull" => \E c \in 0 .. next - 1 : Holds(x, c)
  /\ \A x, y \in Threads, c \in 0 .. next - 1 : Holds(x, c) /\ Holds(y, c) => x = y

(* The loops of process_tile.                                              *)
InLoops(x) ==
  /\ at[x].i \in 0 .. nq(at[x].w) /\ at[x].j \in 0 .. KBLK
  /\ IF pc[x] = "keys" THEN at[x].j0 < kv_end(at[x].w)
     ELSE at[x].j0 >= kv_end(at[x].w) /\ at[x].j = 0
  /\ at[x].i = nq(at[x].w) => at[x].j = 0

Counters == \A x \in Threads : Busy(x) => InLoops(x)

(* The keys folded into row i of thread x's unit, and its registers.       *)
Upto(x, i) == at[x].j0 + (IF pc[x] = "store" \/ i > at[x].i THEN 0
                          ELSE IF i = at[x].i THEN at[x].j ELSE KBLK)
RowKeys(x, i) == Visible(r0(at[x].w) + i, seq, causal)
Before(x, i) == {k \in RowKeys(x, i) : k < Upto(x, i)}
Scores(x, i) == Score[head(at[x].w)][r0(at[x].w) + i]

IsSum(r, x, i) == IF Before(x, i) = {} THEN IsFresh(r)
                  ELSE IsSoftmaxOf(r, Scores(x, i), Before(x, i))

Running ==
  \A x \in Threads : Busy(x) =>
    \A i \in 0 .. nq(at[x].w) - 1 : IsSum(reg[x][i], x, i)

(* What is in O is right, and the units that are done are in it.           *)
Correct ==
  \A e \in Elements : O[e] # NotStored =>
    \E h \in 0 .. Heads - 1, t \in 0 .. seq - 1 :
      e = h * seq + t /\ IsReference(h, t, O[e])

IsStored(u, i) == O[head(u) * seq + (r0(u) + i)] # NotStored
Done(u) == \A i \in 0 .. nq(u) - 1 : IsStored(u, i)

Progress ==
  /\ \A c \in 0 .. next - 1 : \A u \in ChunkSet(c, total, len) :
       (\A x \in Threads : Holds(x, c) => u < at[x].w) => Done(u)
  /\ \A x \in Threads : pc[x] = "store" =>
       \A i \in 0 .. at[x].i - 1 : IsStored(at[x].w, i)
  /\ returned => next >= chunks /\ \A x \in Threads : pc[x] = "pull"

Control == Shape /\ Handed /\ Counters
Inductive == Control /\ Running /\ Correct /\ Progress
-----------------------------------------------------------------------------
LEMMA Sizes ==
  /\ QBLK \in Nat \ {0} /\ KBLK \in Nat \ {0} /\ Heads \in Nat /\ MaxSeq \in Nat
  /\ Sentinel \in Int /\ Under \in Nat
  /\ Cardinality(Threads) \in Nat \ {0}
<1>1. IsFiniteSet(Threads) /\ Threads # {}
  BY FlashFastAssumption
<1>2. Cardinality(Threads) \in Nat
  BY <1>1, FS_CardinalityType
<1>3. Cardinality(Threads) # 0
  BY <1>1, FS_EmptySet
<1> QED
  BY <1>2, <1>3, FlashFastAssumption

LEMMA ScoreType ==
  \A h \in 0 .. Heads - 1, t \in 0 .. MaxSeq - 1, k \in 0 .. MaxSeq - 1 :
    Score[h][t][k] \in Int /\ Score[h][t][k] - Sentinel > Under
<1> TAKE h \in 0 .. Heads - 1, t \in 0 .. MaxSeq - 1, k \in 0 .. MaxSeq - 1
<1>1. Score[h] \in [0 .. MaxSeq - 1 -> [0 .. MaxSeq - 1 -> Int]]
  BY FlashFastAssumption
<1>2. Score[h][t] \in [0 .. MaxSeq - 1 -> Int]
  BY <1>1
<1>3. Score[h][t][k] \in Int
  BY <1>2
<1>4. Vanishes(Sentinel - Score[h][t][k])
  BY FlashFastAssumption
<1> QED
  BY <1>3, <1>4, Sizes DEF Vanishes

(* A call with no rows has no units; the others' last tile is not empty.   *)
LEMMA Tiles ==
  ASSUME seq \in 0 .. MaxSeq
  PROVE  /\ seq \in Nat /\ qtiles \in Nat /\ total \in Nat
         /\ seq > 0 => qtiles > 0 /\ (qtiles - 1) * QBLK < seq /\ seq <= qtiles * QBLK
         /\ total > 0 => seq > 0 /\ Heads > 0 /\ qtiles > 0
<1>1. seq \in Nat
  BY Sizes
<1>2. CASE seq = 0
  <2>1. qtiles = 0
    <3>1. QBLK * 0 <= QBLK - 1 /\ QBLK - 1 < QBLK * 0 + QBLK /\ QBLK - 1 \in Int
          /\ 0 + QBLK - 1 = QBLK - 1
      BY Sizes
    <3>2. (QBLK - 1) \div QBLK = 0
      BY <3>1, Sizes, DivUnique
    <3> QED
      BY <1>2, <3>1, <3>2 DEF qtiles, CeilDiv
  <2>2. total = 0
    BY <2>1, Sizes DEF total
  <2> QED
    BY <1>2, <2>1, <2>2
<1>3. CASE seq > 0
  <2>1. qtiles \in Nat /\ qtiles > 0 /\ (qtiles - 1) * QBLK < seq /\ seq <= qtiles * QBLK
    BY <1>1, <1>3, Sizes, CeilDivBounds DEF qtiles
  <2>2. 0 * qtiles <= Heads * qtiles /\ Heads * qtiles \in Int
    BY <2>1, Sizes, TimesMono
  <2>3. Heads = 0 => Heads * qtiles = 0
    BY <2>1
  <2> QED
    BY <1>1, <1>3, <2>1, <2>2, <2>3, Sizes DEF total
<1> QED
  BY <1>1, <1>2, <1>3

(* The chunks of the call's units, those of parallel_for or a single one.  *)
LEMMA Split ==
  ASSUME seq \in 0 .. MaxSeq
  PROVE  /\ chunks \in Nat /\ (total = 0 => chunks = 0)
         /\ total > 0 => /\ len \in Nat \ {0} /\ chunks > 0
                         /\ (chunks - 1) * len < total /\ total <= chunks * len
<1>1. total \in Nat
  BY Tiles
<1>2. CASE total = 0
  BY <1>2 DEF chunks
<1>3. CASE total > 0 /\ Inline
  <2>1. len = total /\ chunks = 1
    BY <1>3 DEF len, chunks
  <2>2. (1 - 1) * total = 0 /\ 1 * total = total
    BY <1>1
  <2> QED
    BY <1>1, <1>3, <2>1, <2>2
<1>4. CASE total > 0 /\ ~Inline
  <2> DEFINE n == Cardinality(Threads)
             d == ChunkLen(total, 1, n)
             k == ChunkCount(total, 1, n)
  <2>1. n \in Int /\ n > 0 /\ total \in Int /\ total > 0 /\ 1 \in Int
    BY <1>1, <1>4, Sizes
  <2>2. len = d /\ chunks = k
    BY <1>4 DEF len, chunks
  <2> HIDE DEF n
  <2>3. /\ d \in Int /\ d > 0 /\ k \in Int /\ k > 0
        /\ (k - 1) * d < total /\ total <= k * d
    BY <2>1, SplitShape
  <2> HIDE DEF d, k
  <2>4. len \in Nat \ {0} /\ chunks \in Nat /\ chunks > 0
    BY <2>2, <2>3
  <2>5. (chunks - 1) * len < total /\ total <= chunks * len
    BY <2>2, <2>3
  <2> QED
    BY <1>4, <2>4, <2>5
<1> QED
  BY <1>1, <1>2, <1>3, <1>4

(* A chunk holds units, and its end tells it from the other chunks.        *)
LEMMA ChunkOf ==
  ASSUME seq \in 0 .. MaxSeq, NEW c \in 0 .. chunks - 1
  PROVE  /\ total > 0 /\ len \in Nat \ {0} /\ total \in Nat /\ c \in Nat
         /\ ChunkLo(c, len) \in Nat /\ ChunkHi(c, total, len) \in Nat
         /\ ChunkLo(c, len) < ChunkHi(c, total, len)
         /\ ChunkHi(c, total, len) <= total
<1>1. total \in Nat /\ chunks \in Nat /\ total > 0 /\ c \in Nat /\ c < chunks
  BY Tiles, Split
<1>2. len \in Nat \ {0} /\ (chunks - 1) * len < total
  BY <1>1, Split
<1>3. /\ ChunkLo(c, len) \in Nat /\ ChunkHi(c, total, len) \in Int
      /\ ChunkLo(c, len) < ChunkHi(c, total, len)
      /\ ChunkHi(c, total, len) <= total
  <2>1. total \in Int /\ len \in Int /\ chunks \in Int /\ len > 0
    BY <1>1, <1>2
  <2>2. c \in Nat /\ c < chunks /\ (chunks - 1) * len < total
    BY <1>1, <1>2
  <2> HIDE DEF total, len, chunks
  <2> QED
    BY <2>1, <2>2, ChunkNonempty
<1>4. ChunkHi(c, total, len) \in Nat
  BY <1>3
<1>5. len \in Nat \ {0}
  BY <1>2
<1> QED
  BY <1>1, <1>3, <1>4, <1>5, Zenon

LEMMA ChunkHiUnique ==
  ASSUME seq \in 0 .. MaxSeq, NEW c \in 0 .. chunks - 1, NEW d \in 0 .. chunks - 1,
         ChunkHi(c, total, len) = ChunkHi(d, total, len)
  PROVE  c = d
<1> DEFINE u == ChunkHi(c, total, len) - 1
<1>1. /\ total \in Nat /\ len \in Nat \ {0} /\ c \in Nat /\ d \in Nat
  BY ChunkOf
<1>2. u \in ChunkSet(c, total, len)
  BY ChunkOf DEF ChunkSet
<1>3. u \in ChunkSet(d, total, len)
  <2>1. ChunkLo(d, len) \in Nat /\ ChunkHi(d, total, len) \in Nat
        /\ ChunkLo(d, len) < ChunkHi(d, total, len)
    BY ChunkOf
  <2> QED
    BY <2>1 DEF ChunkSet
<1> HIDE DEF u
<1> QED
  BY <1>1, <1>2, <1>3, ChunksDisjoint
-----------------------------------------------------------------------------
(* A unit is a nonempty range of rows of one head.                         *)
LEMMA UnitOf ==
  ASSUME seq \in 0 .. MaxSeq, NEW u \in 0 .. total - 1
  PROVE  /\ seq \in Nat /\ seq > 0 /\ qtiles \in Nat \ {0}
         /\ head(u) \in 0 .. Heads - 1
         /\ u % qtiles \in 0 .. qtiles - 1 /\ u = qtiles * head(u) + (u % qtiles)
         /\ r0(u) \in Nat /\ r0(u) = (u % qtiles) * QBLK
         /\ nq(u) \in 1 .. QBLK /\ r0(u) + nq(u) = r1(u) /\ r1(u) <= seq
<1> DEFINE h == u \div qtiles
           t == u % qtiles
<1>1. /\ total \in Nat /\ u \in Nat /\ u < total
      /\ seq \in Nat /\ seq > 0 /\ qtiles \in Nat \ {0}
      /\ (qtiles - 1) * QBLK < seq
  BY Tiles
<1>2. /\ h \in Int /\ t \in 0 .. qtiles - 1 /\ u = qtiles * h + t
  BY <1>1
<1> HIDE DEF h, t
<1>3. h >= 0
  <2>1. SUFFICES ASSUME h + 1 <= 0 PROVE FALSE
    BY <1>2
  <2>2. (h + 1) * qtiles <= 0 * qtiles
    BY <1>1, <1>2, <2>1, TimesMono
  <2>3. (h + 1) * qtiles = qtiles * h + qtiles /\ 0 * qtiles = 0
    BY <1>1, <1>2
  <2> QED
    BY <1>1, <1>2, <2>2, <2>3
<1>4. h < Heads
  <2>1. SUFFICES ASSUME Heads <= h PROVE FALSE
    BY <1>2, Sizes
  <2>2. Heads * qtiles <= h * qtiles
    BY <1>1, <1>2, <2>1, Sizes, TimesMono
  <2>3. h * qtiles = qtiles * h /\ total = Heads * qtiles
    BY <1>1, <1>2 DEF total
  <2> QED
    BY <1>1, <1>2, <2>2, <2>3
<1>5. r0(u) = t * QBLK /\ head(u) = h
  BY DEF r0, head, t, h
<1>6. t * QBLK \in Nat /\ t * QBLK < seq
  <2>1. t * QBLK <= (qtiles - 1) * QBLK /\ 0 * QBLK <= t * QBLK
    BY <1>1, <1>2, Sizes, TimesMono
  <2>2. t * QBLK \in Int /\ (qtiles - 1) * QBLK \in Int /\ 0 * QBLK = 0
    BY <1>1, <1>2, Sizes
  <2> QED
    BY <1>1, <2>1, <2>2
<1>7. nq(u) \in 1 .. QBLK /\ r0(u) + nq(u) = r1(u) /\ r1(u) <= seq
  BY <1>1, <1>5, <1>6, Sizes DEF nq, r1, MinOf
<1>8. h \in 0 .. Heads - 1
  BY <1>2, <1>3, <1>4, Sizes
<1>9. r0(u) \in Nat
  BY <1>5, <1>6
<1> QED
  BY <1>1, <1>2, <1>5, <1>7, <1>8, <1>9 DEF t

(* The keys a unit reads are keys of its head, its row's own among them.   *)
LEMMA UnitKeys ==
  ASSUME seq \in 0 .. MaxSeq, causal \in BOOLEAN,
         NEW u \in 0 .. total - 1, NEW i \in 0 .. nq(u) - 1
  PROVE  /\ kv_end(u) \in Nat /\ 0 < kv_end(u) /\ kv_end(u) <= seq
         /\ i \in 0 .. QBLK - 1 /\ r0(u) + i \in 0 .. seq - 1 /\ r0(u) + i < r1(u)
         /\ Visible(r0(u) + i, seq, causal) # {}
         /\ \A k \in Visible(r0(u) + i, seq, causal) : k \in Nat /\ k < kv_end(u)
<1>1. /\ seq \in Nat /\ seq > 0 /\ r0(u) \in Nat /\ nq(u) \in 1 .. QBLK
      /\ r0(u) + nq(u) = r1(u) /\ r1(u) <= seq
  BY UnitOf
<1>2. /\ i \in Nat /\ i < nq(u) /\ i \in 0 .. QBLK - 1 /\ r0(u) + i \in 0 .. seq - 1
      /\ r0(u) + i < r1(u) /\ r1(u) \in Nat
  BY <1>1, Sizes
<1>3. 0 \in Visible(r0(u) + i, seq, causal)
  BY <1>1, <1>2 DEF Visible
<1>4. \A k \in Visible(r0(u) + i, seq, causal) : k \in Nat /\ k < kv_end(u)
  BY <1>1, <1>2 DEF Visible, kv_end
<1>5. kv_end(u) \in Nat /\ 0 < kv_end(u) /\ kv_end(u) <= seq
  BY <1>1, <1>2 DEF kv_end
<1> QED
  BY <1>2, <1>3, <1>4, <1>5

(* Every row of every head is in one unit.                                 *)
LEMMA UnitOfRow ==
  ASSUME seq \in 0 .. MaxSeq, NEW h \in 0 .. Heads - 1, NEW t \in 0 .. seq - 1
  PROVE  \E u \in 0 .. total - 1 : \E i \in 0 .. nq(u) - 1 :
           head(u) = h /\ r0(u) + i = t
<1> DEFINE b == t \div QBLK
           i == t % QBLK
           u == qtiles * h + b
<1>1. /\ seq \in Nat /\ seq > 0 /\ qtiles \in Nat \ {0} /\ total \in Nat
      /\ seq <= qtiles * QBLK /\ h \in Nat /\ t \in Nat /\ t < seq /\ h < Heads
  BY Tiles, Sizes
<1>2. b \in Int /\ i \in 0 .. QBLK - 1 /\ t = QBLK * b + i
  BY <1>1, Sizes
<1> HIDE DEF b, i
<1>3. b >= 0
  <2>1. SUFFICES ASSUME b + 1 <= 0 PROVE FALSE
    BY <1>2
  <2>2. (b + 1) * QBLK <= 0 * QBLK
    BY <1>2, <2>1, Sizes, TimesMono
  <2>3. (b + 1) * QBLK = QBLK * b + QBLK /\ 0 * QBLK = 0
    BY <1>2, Sizes
  <2> QED
    BY <1>1, <1>2, <2>2, <2>3, Sizes
<1>4. b < qtiles
  <2>1. SUFFICES ASSUME qtiles <= b PROVE FALSE
    BY <1>1, <1>2
  <2>2. qtiles * QBLK <= b * QBLK /\ b * QBLK = QBLK * b
    BY <1>1, <1>2, <2>1, Sizes, TimesMono
  <2> QED
    BY <1>1, <1>2, <2>2, Sizes
<1>5. u \in Nat /\ u < total
  <2>1. (h + 1) * qtiles <= Heads * qtiles /\ 0 * qtiles <= h * qtiles
    BY <1>1, Sizes, TimesMono
  <2>2. (h + 1) * qtiles = qtiles * h + qtiles /\ h * qtiles = qtiles * h
        /\ 0 * qtiles = 0 /\ qtiles * h \in Int
    BY <1>1
  <2>3. total = Heads * qtiles
    BY DEF total
  <2> QED
    BY <1>1, <1>2, <1>3, <1>4, <2>1, <2>2, <2>3
<1>6. u \div qtiles = h /\ u % qtiles = b
  <2>1. qtiles * h <= u /\ u < qtiles * h + qtiles /\ u - qtiles * h = b /\ h \in Int
        /\ u \in Int
    BY <1>1, <1>2, <1>3, <1>4
  <2> HIDE DEF u
  <2> QED
    BY <1>1, <2>1, DivUnique
<1> HIDE DEF u
<1>7. head(u) = h /\ r0(u) = QBLK * b
  BY <1>2, <1>6, Sizes DEF head, r0
<1>8. u \in 0 .. total - 1 /\ r0(u) + i = t
  BY <1>1, <1>2, <1>5, <1>7
<1>9. i \in 0 .. nq(u) - 1
  <2>1. r0(u) \in Nat /\ i \in Nat /\ i < QBLK
    BY <1>2, <1>8, UnitOf, Sizes
  <2> QED
    BY <1>1, <1>8, <2>1, Sizes DEF nq, r1, MinOf
<1> QED
  BY <1>7, <1>8, <1>9

(* The rows of a call have elements of O of their own,                     *)
LEMMA ElementOf ==
  ASSUME seq \in 0 .. MaxSeq, NEW h \in 0 .. Heads - 1, NEW t \in 0 .. seq - 1
  PROVE  /\ h * seq + t \in Elements /\ h * seq + t < Heads * seq
         /\ \A g \in 0 .. Heads - 1, s \in 0 .. seq - 1 :
              g * seq + s = h * seq + t => g = h /\ s = t
<1>1. seq \in Nat \ {0} /\ h \in Nat /\ h < Heads /\ t \in Nat /\ t < seq /\ seq <= MaxSeq
  BY Sizes
<1>2. h * seq + t \in Nat /\ h * seq + t < Heads * seq /\ Heads * seq <= Heads * MaxSeq
      /\ Heads * seq \in Int /\ Heads * MaxSeq \in Int
  <2>1. (h + 1) * seq <= Heads * seq /\ 0 * seq <= h * seq
        /\ seq * Heads <= MaxSeq * Heads
    BY <1>1, Sizes, TimesMono
  <2>2. (h + 1) * seq = h * seq + seq /\ 0 * seq = 0 /\ seq * Heads = Heads * seq
        /\ MaxSeq * Heads = Heads * MaxSeq /\ h * seq \in Int
        /\ Heads * seq \in Int /\ Heads * MaxSeq \in Int
    BY <1>1, Sizes
  <2> QED
    BY <1>1, <2>1, <2>2
<1>3. h * seq + t \in Elements
  BY <1>2 DEF Elements
<1>4. \A g \in 0 .. Heads - 1, s \in 0 .. seq - 1 :
        (g * seq + s) \div seq = g /\ (g * seq + s) % seq = s
  <2> TAKE g \in 0 .. Heads - 1, s \in 0 .. seq - 1
  <2>1. g \in Int /\ s \in Nat /\ s < seq /\ g * seq = seq * g /\ seq * g \in Int
    BY <1>1, Sizes
  <2> DEFINE a == g * seq + s
  <2>2. a \in Int /\ seq * g <= a /\ a < seq * g + seq /\ a - seq * g = s
    BY <1>1, <2>1
  <2> HIDE DEF a
  <2>3. a \div seq = g /\ a % seq = s
    BY <1>1, <2>1, <2>2, DivUnique
  <2> QED
    BY <2>3 DEF a
<1>5. \A g \in 0 .. Heads - 1, s \in 0 .. seq - 1 :
        g * seq + s = h * seq + t => g = h /\ s = t
  BY <1>4
<1> QED
  BY <1>2, <1>3, <1>5

(* and so have the rows of a unit.                                         *)
LEMMA UnitsApart ==
  ASSUME seq \in 0 .. MaxSeq, causal \in BOOLEAN,
         NEW u \in 0 .. total - 1, NEW i \in 0 .. nq(u) - 1,
         NEW v \in 0 .. total - 1, NEW j \in 0 .. nq(v) - 1,
         head(u) * seq + (r0(u) + i) = head(v) * seq + (r0(v) + j)
  PROVE  u = v /\ i = j
<1>1. /\ head(u) \in 0 .. Heads - 1 /\ head(v) \in 0 .. Heads - 1
      /\ r0(u) + i \in 0 .. seq - 1 /\ r0(v) + j \in 0 .. seq - 1
  BY UnitOf, UnitKeys
<1>2. head(u) = head(v) /\ r0(u) + i = r0(v) + j
  BY <1>1, ElementOf
<1> DEFINE a == u % qtiles
           b == v % qtiles
<1>3. /\ a \in Int /\ b \in Int /\ i \in 0 .. QBLK - 1 /\ j \in 0 .. QBLK - 1
      /\ r0(u) = a * QBLK /\ r0(v) = b * QBLK
      /\ u = qtiles * head(u) + a /\ v = qtiles * head(v) + b
  <2>1. qtiles \in Nat
    BY UnitOf
  <2> QED
    BY <2>1, UnitOf, UnitKeys
<1> HIDE DEF a, b
<1>4. (a * QBLK + i) \div QBLK = a
  <2> DEFINE z == a * QBLK + i
  <2>1. z \in Int /\ QBLK * a <= z /\ z < QBLK * a + QBLK
    BY <1>3, Sizes
  <2> HIDE DEF z
  <2>2. z \div QBLK = a
    BY <1>3, <2>1, Sizes, DivUnique
  <2> QED
    BY <2>2 DEF z
<1>5. (b * QBLK + j) \div QBLK = b
  <2> DEFINE z == b * QBLK + j
  <2>1. z \in Int /\ QBLK * b <= z /\ z < QBLK * b + QBLK
    BY <1>3, Sizes
  <2> HIDE DEF z
  <2>2. z \div QBLK = b
    BY <1>3, <2>1, Sizes, DivUnique
  <2> QED
    BY <2>2 DEF z
<1>6. a = b
  BY <1>2, <1>3, <1>4, <1>5
<1>7. u = v
  BY <1>2, <1>3, <1>6
<1>8. r0(u) \in Nat /\ i \in Int /\ j \in Int
  BY <1>3, UnitOf
<1> QED
  BY <1>2, <1>7, <1>8
-----------------------------------------------------------------------------
LEMMA SameCall ==
  ASSUME UNCHANGED <<seq, causal>>
  PROVE  /\ qtiles' = qtiles /\ total' = total /\ len' = len /\ chunks' = chunks
         /\ \A u : /\ head(u)' = head(u) /\ r0(u)' = r0(u) /\ r1(u)' = r1(u)
                   /\ nq(u)' = nq(u) /\ kv_end(u)' = kv_end(u)
<1>1. qtiles' = qtiles
  BY DEF qtiles
<1>2. total' = total
  BY <1>1 DEF total
<1>3. len' = len /\ chunks' = chunks
  BY <1>2 DEF len, chunks, Inline
<1>4. \A u : head(u)' = head(u) /\ r0(u)' = r0(u)
  BY <1>1 DEF head, r0
<1>5. \A u : r1(u)' = r1(u)
  BY <1>4 DEF r1
<1>6. \A u : nq(u)' = nq(u) /\ kv_end(u)' = kv_end(u)
  BY <1>4, <1>5 DEF nq, kv_end
<1> QED
  BY <1>1, <1>2, <1>3, <1>4, <1>5, <1>6

(* The counters of a thread, and what a loop does to them.                 *)
LEMMA CountsOf ==
  ASSUME NEW r \in Counts
  PROVE  /\ r.w \in Nat /\ r.w1 \in Nat /\ r.j0 \in Nat /\ r.i \in Nat /\ r.j \in Nat
         /\ [r EXCEPT !.j0 = 0, !.i = 0, !.j = 0] = At(r.w, r.w1, 0, 0, 0)
         /\ \A n : /\ [r EXCEPT !.w = n] = At(n, r.w1, r.j0, r.i, r.j)
                  /\ [r EXCEPT !.i = n] = At(r.w, r.w1, r.j0, n, r.j)
                  /\ [r EXCEPT !.j = n] = At(r.w, r.w1, r.j0, r.i, n)
                  /\ [r EXCEPT !.i = n, !.j = 0] = At(r.w, r.w1, r.j0, n, 0)
                  /\ [r EXCEPT !.j0 = n, !.i = 0, !.j = 0] = At(r.w, r.w1, n, 0, 0)
<1>1. \A a, b, c, d, e, n :
        /\ [At(a, b, c, d, e) EXCEPT !.w = n] = At(n, b, c, d, e)
        /\ [At(a, b, c, d, e) EXCEPT !.w1 = n] = At(a, n, c, d, e)
        /\ [At(a, b, c, d, e) EXCEPT !.j0 = n] = At(a, b, n, d, e)
        /\ [At(a, b, c, d, e) EXCEPT !.i = n] = At(a, b, c, n, e)
        /\ [At(a, b, c, d, e) EXCEPT !.j = n] = At(a, b, c, d, n)
  BY DEF At
<1>2. \A n : /\ [r EXCEPT !.i = n, !.j = 0] = [[r EXCEPT !.i = n] EXCEPT !.j = 0]
             /\ [r EXCEPT !.j0 = n, !.i = 0, !.j = 0]
                  = [[[r EXCEPT !.j0 = n] EXCEPT !.i = 0] EXCEPT !.j = 0]
  OBVIOUS
<1> PICK a, b, c, d, e \in Nat : r = At(a, b, c, d, e)
  BY DEF Counts, At
<1>3. r.w = a /\ r.w1 = b /\ r.j0 = c /\ r.i = d /\ r.j = e
  BY DEF At
<1>4. \A n : /\ [r EXCEPT !.i = n, !.j = 0] = At(a, b, c, n, 0)
             /\ [r EXCEPT !.j0 = n, !.i = 0, !.j = 0] = At(a, b, n, 0, 0)
  <2> TAKE n
  <2>1. [r EXCEPT !.i = n] = At(a, b, c, n, e) /\ [r EXCEPT !.j0 = n] = At(a, b, n, d, e)
    BY <1>1
  <2>2. [At(a, b, c, n, e) EXCEPT !.j = 0] = At(a, b, c, n, 0)
        /\ [At(a, b, n, d, e) EXCEPT !.i = 0] = At(a, b, n, 0, e)
        /\ [At(a, b, n, 0, e) EXCEPT !.j = 0] = At(a, b, n, 0, 0)
    BY <1>1
  <2> QED
    BY <1>2, <2>1, <2>2
<1>5. \A n : /\ [r EXCEPT !.w = n] = At(n, b, c, d, e)
             /\ [r EXCEPT !.i = n] = At(a, b, c, n, e)
             /\ [r EXCEPT !.j = n] = At(a, b, c, d, n)
  BY <1>1
<1> QED
  BY <1>3, <1>4, <1>5

LEMMA CountsType ==
  \A w, w1, j0, i, j \in Nat :
    /\ At(w, w1, j0, i, j) \in Counts
    /\ At(w, w1, j0, i, j).w = w /\ At(w, w1, j0, i, j).w1 = w1
    /\ At(w, w1, j0, i, j).j0 = j0
    /\ At(w, w1, j0, i, j).i = i /\ At(w, w1, j0, i, j).j = j
BY DEF Counts, At

LEMMA AtParts ==
  \A w, w1, j0, i, j :
    /\ At(w, w1, j0, i, j).w = w /\ At(w, w1, j0, i, j).i = i
BY DEF At

LEMMA Update ==
  ASSUME NEW D, NEW S, NEW f \in [D -> S], NEW x \in D, NEW r \in S
  PROVE  /\ [f EXCEPT ![x] = r] \in [D -> S] /\ [f EXCEPT ![x] = r][x] = r
         /\ \A y \in D : y # x => [f EXCEPT ![x] = r][y] = f[y]
OBVIOUS

LEMMA Place ==
  ASSUME Shape, NEW x \in Threads
  PROVE  /\ at[x].w \in Nat /\ at[x].w1 \in Nat
         /\ at[x].j0 \in Nat /\ at[x].i \in Nat /\ at[x].j \in Nat
<1>1. at[x] \in Counts
  BY DEF Shape
<1> QED
  BY <1>1, CountsOf

(* A step of thread x moves that thread alone,                             *)
Only(x) ==
  /\ UNCHANGED <<seq, causal, returned>>
  /\ \A y \in Threads : y # x => pc'[y] = pc[y] /\ at'[y] = at[y] /\ reg'[y] = reg[y]

(* as follows.                                                             *)
LEMMA PullStep ==
  ASSUME Shape, NEW x \in Threads, Pull(x)
  PROVE  /\ Only(x) /\ Shape' /\ UNCHANGED <<reg, O>>
         /\ next \in 0 .. chunks - 1 /\ next' = next + 1
         /\ pc[x] = "pull" /\ pc'[x] = "unit"
         /\ at'[x] = At(ChunkLo(next, len), ChunkHi(next, total, len), 0, 0, 0)
<1>1. next \in 0 .. chunks - 1 /\ chunks \in Nat
  BY Split DEF Shape, Pull
<1>2. ChunkLo(next, len) \in Nat /\ ChunkHi(next, total, len) \in Nat
  BY <1>1, ChunkOf DEF Shape
<1>3. UNCHANGED <<seq, causal, reg, O, returned>> /\ pc[x] = "pull" /\ next' = next + 1
  BY DEF Pull
<1>4. at' = [at EXCEPT ![x] = At(ChunkLo(next, len), ChunkHi(next, total, len), 0, 0, 0)]
  <2>1. \A a, b : /\ [At(0, 0, 0, 0, 0) EXCEPT !.w = a] = At(a, 0, 0, 0, 0)
                  /\ [At(a, 0, 0, 0, 0) EXCEPT !.w1 = b] = At(a, b, 0, 0, 0)
    BY DEF At
  <2>2. \A a, b : [Idle EXCEPT !.w = a, !.w1 = b] = [[Idle EXCEPT !.w = a] EXCEPT !.w1 = b]
    OBVIOUS
  <2>3. Idle = At(0, 0, 0, 0, 0)
    BY DEF Idle, At
  <2>4. \A a, b : [Idle EXCEPT !.w = a, !.w1 = b] = At(a, b, 0, 0, 0)
    BY <2>1, <2>2, <2>3
  <2> QED
    BY <2>4 DEF Pull
<1>5. pc' = [pc EXCEPT ![x] = "unit"]
  BY DEF Pull
<1>6. chunks' = chunks
  BY <1>3, SameCall
<1>7. /\ pc' \in [Threads -> {"pull", "unit", "keys", "store"}]
      /\ at' \in [Threads -> Counts]
  <2>1. At(ChunkLo(next, len), ChunkHi(next, total, len), 0, 0, 0) \in Counts
    BY <1>2, CountsOf, CountsType DEF Shape
  <2>2. at \in [Threads -> Counts] /\ pc \in [Threads -> {"pull", "unit", "keys", "store"}]
    BY DEF Shape
  <2> QED
    BY <1>1, <1>4, <1>5, <2>1, <2>2, Update
<1>8. Shape'
  BY <1>1, <1>3, <1>6, <1>7 DEF Shape
<1> QED
  BY <1>1, <1>3, <1>4, <1>5, <1>8 DEF Only, Shape

LEMMA BeginStep ==
  ASSUME Shape, NEW x \in Threads, Begin(x)
  PROVE  /\ Only(x) /\ Shape' /\ UNCHANGED <<next, O>>
         /\ pc[x] = "unit" /\ pc'[x] = "keys" /\ at[x].w < at[x].w1
         /\ at'[x] = At(at[x].w, at[x].w1, 0, 0, 0)
         /\ reg'[x] = Fresh
<1>1. UNCHANGED <<seq, causal, next, O, returned>> /\ pc[x] = "unit" /\ at[x].w < at[x].w1
      /\ pc' = [pc EXCEPT ![x] = "keys"] /\ reg' = [reg EXCEPT ![x] = Fresh]
      /\ at' = [at EXCEPT ![x] = [at[x] EXCEPT !.j0 = 0, !.i = 0, !.j = 0]]
  BY DEF Begin
<1>2. at' = [at EXCEPT ![x] = At(at[x].w, at[x].w1, 0, 0, 0)]
  BY <1>1, CountsOf DEF Shape
<1>3. chunks' = chunks
  BY <1>1, SameCall
<1>4. /\ pc' \in [Threads -> {"pull", "unit", "keys", "store"}]
      /\ at' \in [Threads -> Counts]
  <2>1. At(at[x].w, at[x].w1, 0, 0, 0) \in Counts
    BY CountsOf, CountsType DEF Shape
  <2>2. at \in [Threads -> Counts] /\ pc \in [Threads -> {"pull", "unit", "keys", "store"}]
    BY DEF Shape
  <2> QED
    BY <1>1, <1>2, <2>1, <2>2, Update
<1>5. reg' = [y \in Threads |-> [i \in 0 .. QBLK - 1 |-> reg'[y][i]]]
  BY <1>1 DEF Shape, Fresh
<1>6. Shape'
  BY <1>1, <1>3, <1>4, <1>5 DEF Shape
<1> QED
  BY <1>1, <1>2, <1>6 DEF Only, Shape

LEMMA EndChunkStep ==
  ASSUME Shape, NEW x \in Threads, EndChunk(x)
  PROVE  /\ Only(x) /\ Shape' /\ UNCHANGED <<next, reg, O>>
         /\ pc[x] = "unit" /\ pc'[x] = "pull" /\ at[x].w >= at[x].w1
<1>1. UNCHANGED <<seq, causal, next, reg, O, returned>> /\ pc[x] = "unit"
      /\ at[x].w >= at[x].w1
      /\ pc' = [pc EXCEPT ![x] = "pull"] /\ at' = [at EXCEPT ![x] = Idle]
  BY DEF EndChunk
<1>2. chunks' = chunks
  BY <1>1, SameCall
<1>3. /\ pc' \in [Threads -> {"pull", "unit", "keys", "store"}]
      /\ at' \in [Threads -> Counts]
  <2>1. Idle \in Counts
    BY DEF Idle, Counts
  <2>2. at \in [Threads -> Counts] /\ pc \in [Threads -> {"pull", "unit", "keys", "store"}]
    BY DEF Shape
  <2> QED
    BY <1>1, <1>1, <2>1, <2>2, Update
<1>4. Shape'
  BY <1>1, <1>2, <1>3 DEF Shape
<1> QED
  BY <1>1, <1>4 DEF Only, Shape

LEMMA KeyStep ==
  ASSUME Shape, NEW x \in Threads, Key(x)
  PROVE  /\ Only(x) /\ Shape' /\ UNCHANGED <<next, O>>
         /\ pc[x] = "keys" /\ pc'[x] = "keys" /\ at[x].i < nq(at[x].w) /\ ~RowDone(x)
         /\ at'[x] = At(at[x].w, at[x].w1, at[x].j0, at[x].i, at[x].j + 1)
         /\ \A i \in 0 .. QBLK - 1 : i # at[x].i => reg'[x][i] = reg[x][i]
         /\ at[x].i \in 0 .. QBLK - 1 =>
              reg'[x][at[x].i] = FoldInto(reg[x][at[x].i], Scores(x, at[x].i)[key(x)],
                                          key(x), key(x))
<1>1. UNCHANGED <<seq, causal, next, pc, O, returned>> /\ pc[x] = "keys"
      /\ at[x].i < nq(at[x].w) /\ ~RowDone(x)
      /\ at' = [at EXCEPT ![x] = [at[x] EXCEPT !.j = at[x].j + 1]]
  BY DEF Key
<1>2. reg' = [reg EXCEPT ![x] = [reg[x] EXCEPT ![at[x].i] =
                FoldInto(reg[x][at[x].i], Scores(x, at[x].i)[key(x)], key(x), key(x))]]
  BY DEF Key, Scores, row
<1>3. at' = [at EXCEPT ![x] = At(at[x].w, at[x].w1, at[x].j0, at[x].i, at[x].j + 1)]
  <2>1. at[x] \in Counts
    BY DEF Shape
  <2> QED
    BY <1>1, <2>1, CountsOf
<1>4. chunks' = chunks
  BY <1>1, SameCall
<1>5. at' \in [Threads -> Counts]
  <2>1. At(at[x].w, at[x].w1, at[x].j0, at[x].i, at[x].j + 1) \in Counts
    <3>1. at[x].j + 1 \in Nat /\ 0 \in Nat
      BY Place
    <3> QED
      BY <3>1, Place DEF Counts, At
  <2>2. at \in [Threads -> Counts] /\ pc \in [Threads -> {"pull", "unit", "keys", "store"}]
    BY DEF Shape
  <2> QED
    BY <1>1, <1>3, <2>1, <2>2, Update
<1>6. reg[x] = [i \in 0 .. QBLK - 1 |-> reg[x][i]]
  BY DEF Shape
<1>7. reg' = [y \in Threads |-> [i \in 0 .. QBLK - 1 |-> reg'[y][i]]]
  BY <1>2, <1>6 DEF Shape
<1>8. Shape'
  BY <1>1, <1>4, <1>5, <1>7 DEF Shape
<1>9. reg'[x] = [reg[x] EXCEPT ![at[x].i] =
                  FoldInto(reg[x][at[x].i], Scores(x, at[x].i)[key(x)], key(x), key(x))]
      /\ \A y \in Threads : y # x => reg'[y] = reg[y]
  BY <1>2 DEF Shape
<1>10. /\ \A i \in 0 .. QBLK - 1 : i # at[x].i => reg'[x][i] = reg[x][i]
       /\ at[x].i \in 0 .. QBLK - 1 =>
            reg'[x][at[x].i] = FoldInto(reg[x][at[x].i], Scores(x, at[x].i)[key(x)],
                                        key(x), key(x))
  BY <1>6, <1>9
<1>11. Only(x) /\ at'[x] = At(at[x].w, at[x].w1, at[x].j0, at[x].i, at[x].j + 1)
  BY <1>1, <1>3, <1>9 DEF Only, Shape
<1> QED
  BY <1>1, <1>8, <1>10, <1>11

LEMMA NextRowStep ==
  ASSUME Shape, NEW x \in Threads, NextRow(x)
  PROVE  /\ Only(x) /\ Shape' /\ UNCHANGED <<next, reg, O>>
         /\ pc[x] = "keys" /\ pc'[x] = "keys" /\ at[x].i < nq(at[x].w) /\ RowDone(x)
         /\ at'[x] = At(at[x].w, at[x].w1, at[x].j0, at[x].i + 1, 0)
<1>1. UNCHANGED <<seq, causal, next, pc, reg, O, returned>> /\ pc[x] = "keys"
      /\ at[x].i < nq(at[x].w) /\ RowDone(x)
      /\ at' = [at EXCEPT ![x] = [at[x] EXCEPT !.i = at[x].i + 1, !.j = 0]]
  BY DEF NextRow
<1>2. at' = [at EXCEPT ![x] = At(at[x].w, at[x].w1, at[x].j0, at[x].i + 1, 0)]
  BY <1>1, CountsOf DEF Shape
<1>3. chunks' = chunks
  BY <1>1, SameCall
<1>4. at' \in [Threads -> Counts]
  <2>1. At(at[x].w, at[x].w1, at[x].j0, at[x].i + 1, 0) \in Counts
    <3>1. at[x].i + 1 \in Nat /\ 0 \in Nat
      BY Place
    <3> QED
      BY <3>1, Place DEF Counts, At
  <2>2. at \in [Threads -> Counts] /\ pc \in [Threads -> {"pull", "unit", "keys", "store"}]
    BY DEF Shape
  <2> QED
    BY <1>1, <1>2, <2>1, <2>2, Update
<1>5. Shape'
  BY <1>1, <1>3, <1>4 DEF Shape
<1> QED
  BY <1>1, <1>2, <1>5 DEF Only, Shape

LEMMA NextTileStep ==
  ASSUME Shape, NEW x \in Threads, NextTile(x)
  PROVE  /\ Only(x) /\ Shape' /\ UNCHANGED <<next, reg, O>>
         /\ pc[x] = "keys" /\ at[x].i >= nq(at[x].w)
         /\ pc'[x] = IF at[x].j0 + KBLK < kv_end(at[x].w) THEN "keys" ELSE "store"
         /\ at'[x] = At(at[x].w, at[x].w1, at[x].j0 + KBLK, 0, 0)
<1>1. UNCHANGED <<seq, causal, next, reg, O, returned>> /\ pc[x] = "keys"
      /\ at[x].i >= nq(at[x].w)
      /\ at' = [at EXCEPT ![x] = [at[x] EXCEPT !.j0 = at[x].j0 + KBLK, !.i = 0, !.j = 0]]
      /\ pc' = [pc EXCEPT ![x] =
                  IF at[x].j0 + KBLK < kv_end(at[x].w) THEN "keys" ELSE "store"]
  BY DEF NextTile
<1>2. at' = [at EXCEPT ![x] = At(at[x].w, at[x].w1, at[x].j0 + KBLK, 0, 0)]
  BY <1>1, CountsOf DEF Shape
<1>3. chunks' = chunks
  BY <1>1, SameCall
<1>4. /\ pc' \in [Threads -> {"pull", "unit", "keys", "store"}]
      /\ at' \in [Threads -> Counts]
  <2>1. At(at[x].w, at[x].w1, at[x].j0 + KBLK, 0, 0) \in Counts
    <3>1. at[x].j0 + KBLK \in Nat /\ 0 \in Nat
      BY Sizes, Place
    <3> QED
      BY <3>1, Place DEF Counts, At
  <2>2. at \in [Threads -> Counts] /\ pc \in [Threads -> {"pull", "unit", "keys", "store"}]
    BY DEF Shape
  <2> QED
    BY <1>1, <1>2, <2>1, <2>2, Update
<1>5. Shape'
  BY <1>1, <1>3, <1>4 DEF Shape
<1> QED
  BY <1>1, <1>2, <1>5 DEF Only, Shape

LEMMA StoreStep ==
  ASSUME Shape, NEW x \in Threads, Store(x)
  PROVE  /\ Only(x) /\ Shape' /\ UNCHANGED <<next, reg>>
         /\ pc[x] = "store" /\ pc'[x] = "store" /\ at[x].i < nq(at[x].w)
         /\ at'[x] = At(at[x].w, at[x].w1, at[x].j0, at[x].i + 1, at[x].j)
         /\ O' = [O EXCEPT ![head(at[x].w) * seq + (r0(at[x].w) + at[x].i)] =
                    Result(reg[x][at[x].i].acc, reg[x][at[x].i].l, reg[x][at[x].i].m)]
<1>1. UNCHANGED <<seq, causal, next, pc, reg, returned>> /\ pc[x] = "store"
      /\ at[x].i < nq(at[x].w)
      /\ at' = [at EXCEPT ![x] = [at[x] EXCEPT !.i = at[x].i + 1]]
  BY DEF Store
<1>2. at' = [at EXCEPT ![x] = At(at[x].w, at[x].w1, at[x].j0, at[x].i + 1, at[x].j)]
  BY <1>1, CountsOf DEF Shape
<1>3. chunks' = chunks
  BY <1>1, SameCall
<1>4. at' \in [Threads -> Counts]
  <2>1. At(at[x].w, at[x].w1, at[x].j0, at[x].i + 1, at[x].j) \in Counts
    <3>1. at[x].i + 1 \in Nat /\ 0 \in Nat
      BY Place
    <3> QED
      BY <3>1, Place DEF Counts, At
  <2>2. at \in [Threads -> Counts] /\ pc \in [Threads -> {"pull", "unit", "keys", "store"}]
    BY DEF Shape
  <2> QED
    BY <1>1, <1>2, <2>1, <2>2, Update
<1>5. O' = [O EXCEPT ![head(at[x].w) * seq + (r0(at[x].w) + at[x].i)] =
              Result(reg[x][at[x].i].acc, reg[x][at[x].i].l, reg[x][at[x].i].m)]
  BY DEF Store, row
<1>6. O' = [e \in Elements |-> O'[e]]
  BY <1>5 DEF Shape
<1>7. Shape'
  BY <1>1, <1>3, <1>4, <1>6 DEF Shape
<1> QED
  BY <1>1, <1>2, <1>5, <1>7 DEF Only, Shape

LEMMA EndUnitStep ==
  ASSUME Shape, NEW x \in Threads, EndUnit(x)
  PROVE  /\ Only(x) /\ Shape' /\ UNCHANGED <<next, reg, O>>
         /\ pc[x] = "store" /\ pc'[x] = "unit" /\ at[x].i >= nq(at[x].w)
         /\ at'[x] = At(at[x].w + 1, at[x].w1, at[x].j0, at[x].i, at[x].j)
<1>1. UNCHANGED <<seq, causal, next, reg, O, returned>> /\ pc[x] = "store"
      /\ at[x].i >= nq(at[x].w)
      /\ at' = [at EXCEPT ![x] = [at[x] EXCEPT !.w = at[x].w + 1]]
      /\ pc' = [pc EXCEPT ![x] = "unit"]
  BY DEF EndUnit
<1>2. at' = [at EXCEPT ![x] = At(at[x].w + 1, at[x].w1, at[x].j0, at[x].i, at[x].j)]
  BY <1>1, CountsOf DEF Shape
<1>3. chunks' = chunks
  BY <1>1, SameCall
<1>4. /\ pc' \in [Threads -> {"pull", "unit", "keys", "store"}]
      /\ at' \in [Threads -> Counts]
  <2>1. At(at[x].w + 1, at[x].w1, at[x].j0, at[x].i, at[x].j) \in Counts
    <3>1. at[x].w + 1 \in Nat /\ 0 \in Nat
      BY Place
    <3> QED
      BY <3>1, Place DEF Counts, At
  <2>2. at \in [Threads -> Counts] /\ pc \in [Threads -> {"pull", "unit", "keys", "store"}]
    BY DEF Shape
  <2> QED
    BY <1>1, <1>2, <2>1, <2>2, Update
<1>5. Shape'
  BY <1>1, <1>3, <1>4 DEF Shape
<1> QED
  BY <1>1, <1>2, <1>5 DEF Only, Shape
-----------------------------------------------------------------------------
(* A thread has one chunk, and its unit is of that chunk.                  *)
LEMMA HoldsOne ==
  ASSUME Shape, NEW x \in Threads, NEW c \in 0 .. chunks - 1, NEW d \in 0 .. chunks - 1,
         at[x].w1 = ChunkHi(d, total, len), Holds(x, c)
  PROVE  c = d
BY ChunkHiUnique DEF Shape, Holds

LEMMA HeldChunk ==
  ASSUME Shape, Handed, NEW x \in Threads, pc[x] # "pull"
  PROVE  \E c \in 0 .. next - 1 :
           /\ c \in 0 .. chunks - 1 /\ Holds(x, c)
           /\ \A d \in 0 .. chunks - 1 : Holds(x, d) => d = c
           /\ at[x].w \in ChunkLo(c, len) .. at[x].w1 /\ at[x].w1 <= total
           /\ Busy(x) => /\ at[x].w \in ChunkSet(c, total, len)
                         /\ at[x].w \in 0 .. total - 1
<1>1. PICK c \in 0 .. next - 1 : Holds(x, c)
  BY DEF Handed
<1>2. chunks \in Nat /\ next \in 0 .. chunks
  BY Split DEF Shape
<1>3. c \in 0 .. chunks - 1
  BY <1>2
<1>4. /\ total \in Nat /\ ChunkLo(c, len) \in Nat /\ ChunkHi(c, total, len) \in Nat
      /\ ChunkHi(c, total, len) <= total
  BY <1>3, ChunkOf DEF Shape
<1>5. /\ at[x].w \in ChunkLo(c, len) .. at[x].w1 /\ at[x].w1 = ChunkHi(c, total, len)
      /\ Busy(x) => at[x].w < at[x].w1
  BY <1>1 DEF Holds
<1>6. Busy(x) => at[x].w \in ChunkSet(c, total, len) /\ at[x].w \in 0 .. total - 1
  BY <1>4, <1>5 DEF ChunkSet
<1>7. \A d \in 0 .. chunks - 1 : Holds(x, d) => d = c
  BY <1>3, <1>5, HoldsOne
<1> QED
  BY <1>1, <1>3, <1>4, <1>5, <1>6, <1>7

LEMMA OthersHold ==
  ASSUME NEW x \in Threads, Only(x), NEW y \in Threads, y # x, NEW c
  PROVE  Holds(y, c)' <=> Holds(y, c)
BY SameCall DEF Only, Holds, Busy

(* A step within a chunk changes nothing of who has which.                 *)
LEMMA KeepsHanded ==
  ASSUME Shape, Handed, NEW x \in Threads, Only(x), next' = next,
         pc[x] # "pull", pc'[x] # "pull", at'[x].w1 = at[x].w1,
         at'[x].w \in at[x].w .. at[x].w1,
         pc'[x] \in {"keys", "store"} => at'[x].w < at[x].w1
  PROVE  /\ Handed'
         /\ \A y \in Threads, c \in 0 .. chunks - 1 : Holds(y, c)' <=> Holds(y, c)
<1>1. PICK d \in 0 .. next - 1 :
        /\ d \in 0 .. chunks - 1 /\ Holds(x, d)
        /\ \A c \in 0 .. chunks - 1 : Holds(x, c) => c = d
        /\ at[x].w \in ChunkLo(d, len) .. at[x].w1
  BY HeldChunk
<1>2. total' = total /\ len' = len /\ chunks' = chunks
  BY SameCall DEF Only
<1>3. ChunkLo(d, len) \in Nat /\ at[x].w1 \in Nat
  BY <1>1, ChunkOf, Place DEF Shape
<1>4. Holds(x, d)'
  <2>1. at'[x].w \in ChunkLo(d, len) .. at'[x].w1
    BY <1>1, <1>3
  <2> QED
    BY <1>1, <1>2, <2>1 DEF Holds, Busy
<1>5. \A c \in 0 .. chunks - 1 : Holds(x, c)' => c = d
  <2> SUFFICES ASSUME NEW c \in 0 .. chunks - 1, Holds(x, c)' PROVE c = d
    OBVIOUS
  <2>1. at[x].w1 = ChunkHi(c, total, len)
    BY <1>2 DEF Holds
  <2> QED
    BY <1>1, <2>1, HoldsOne
<1>6. \A y \in Threads, c \in 0 .. chunks - 1 : Holds(y, c)' <=> Holds(y, c)
  BY <1>1, <1>4, <1>5, OthersHold
<1>7. \A c \in 0 .. next - 1 : c \in 0 .. chunks - 1
  BY Split DEF Shape
<1>8. \A y \in Threads : pc'[y] # "pull" => pc[y] # "pull"
  BY DEF Only
<1>9. Handed'
  BY <1>6, <1>7, <1>8 DEF Handed
<1> QED
  BY <1>6, <1>9

LEMMA PullHanded ==
  ASSUME Shape, Handed, NEW x \in Threads, Pull(x)
  PROVE  /\ Handed'
         /\ \A c \in 0 .. chunks - 1 : Holds(x, c)' <=> c = next
         /\ \A y \in Threads, c \in 0 .. chunks - 1 : y # x =>
              (Holds(y, c)' <=> Holds(y, c))
<1>1. /\ Only(x) /\ next \in 0 .. chunks - 1 /\ next' = next + 1
      /\ pc[x] = "pull" /\ pc'[x] = "unit"
      /\ at'[x] = At(ChunkLo(next, len), ChunkHi(next, total, len), 0, 0, 0)
  BY PullStep
<1>2. total' = total /\ len' = len /\ chunks' = chunks
  BY <1>1, SameCall DEF Only
<1>3. /\ ChunkLo(next, len) \in Nat /\ ChunkHi(next, total, len) \in Nat
      /\ ChunkLo(next, len) < ChunkHi(next, total, len)
  BY <1>1, ChunkOf DEF Shape
<1>4. at'[x].w = ChunkLo(next, len) /\ at'[x].w1 = ChunkHi(next, total, len)
  BY <1>1 DEF At
<1>5. \A c \in 0 .. chunks - 1 : Holds(x, c)' <=> c = next
  <2> TAKE c \in 0 .. chunks - 1
  <2>1. ASSUME Holds(x, c)' PROVE c = next
    <3>1. ChunkHi(next, total, len) = ChunkHi(c, total, len)
      BY <1>2, <1>4, <2>1 DEF Holds
    <3> QED
      BY <1>1, <3>1, ChunkHiUnique DEF Shape
  <2>2. ASSUME c = next PROVE Holds(x, c)'
    <3>1. at'[x].w \in ChunkLo(c, len) .. at'[x].w1
      BY <1>3, <1>4, <2>2
    <3> QED
      BY <1>1, <1>2, <1>4, <2>2, <3>1 DEF Holds, Busy
  <2> QED
    BY <2>1, <2>2
<1>6. \A y \in Threads, c \in 0 .. chunks - 1 : y # x => (Holds(y, c)' <=> Holds(y, c))
  BY <1>1, OthersHold
<1>7. chunks \in Nat /\ next \in Nat /\ next < chunks
  BY <1>1, Split DEF Shape
<1>8. ASSUME NEW y \in Threads, pc'[y] # "pull"
      PROVE  \E c \in 0 .. next : Holds(y, c)'
  <2>1. CASE y = x
    BY <1>5, <1>7, <2>1
  <2>2. CASE y # x
    <3>1. pc[y] # "pull"
      BY <1>1, <1>8, <2>2 DEF Only
    <3>2. PICK c \in 0 .. next - 1 : Holds(y, c)
      BY <3>1 DEF Handed
    <3>3. c \in 0 .. next /\ c \in 0 .. chunks - 1
      BY <1>7
    <3> QED
      BY <1>6, <2>2, <3>2, <3>3
  <2> QED
    BY <2>1, <2>2
<1>9. ASSUME NEW y \in Threads, NEW z \in Threads, NEW c \in 0 .. next,
              Holds(y, c)', Holds(z, c)'
       PROVE  y = z
  <2>1. c \in 0 .. chunks - 1
    BY <1>7
  <2>2. \A v \in Threads : v # x => ~Holds(v, next)
    <3> SUFFICES ASSUME NEW v \in Threads, Holds(v, next) PROVE FALSE
      OBVIOUS
    <3>1. pc[v] # "pull"
      BY DEF Holds
    <3>2. PICK d \in 0 .. next - 1 :
                 \A e \in 0 .. chunks - 1 : Holds(v, e) => e = d
      BY <3>1, HeldChunk
    <3> QED
      BY <1>1, <1>7, <3>2
  <2>3. CASE c = next
    BY <1>6, <1>9, <2>1, <2>2, <2>3
  <2>4. CASE c # next
    <3>1. c \in 0 .. next - 1 /\ y # x /\ z # x
      BY <1>5, <1>7, <1>9, <2>1, <2>4
    <3> QED
      BY <1>6, <1>9, <2>1, <3>1 DEF Handed
  <2> QED
    BY <2>3, <2>4
<1>10. 0 .. next' - 1 = 0 .. next
  BY <1>1, <1>7
<1>11. Handed'
  BY <1>8, <1>9, <1>10 DEF Handed
<1> QED
  BY <1>5, <1>6, <1>11

LEMMA EndChunkHanded ==
  ASSUME Shape, Handed, NEW x \in Threads, EndChunk(x)
  PROVE  /\ Handed'
         /\ \A c : ~Holds(x, c)'
         /\ \A y \in Threads : \A c : y # x => (Holds(y, c)' <=> Holds(y, c))
<1>1. Only(x) /\ next' = next /\ pc[x] = "unit" /\ pc'[x] = "pull"
  BY EndChunkStep
<1>2. \A c : ~Holds(x, c)'
  BY <1>1 DEF Holds
<1>3. \A y \in Threads : \A c : y # x => (Holds(y, c)' <=> Holds(y, c))
  BY <1>1, OthersHold
<1>4. \A y \in Threads : pc'[y] # "pull" => pc[y] # "pull" /\ y # x
  BY <1>1 DEF Only
<1>5. Handed'
  BY <1>1, <1>2, <1>3, <1>4 DEF Handed
<1> QED
  BY <1>2, <1>3, <1>5
-----------------------------------------------------------------------------
(* Where a thread that is at work is: its unit, row and tile.              *)
LEMMA Position ==
  ASSUME Control, NEW x \in Threads, Busy(x)
  PROVE  /\ seq \in 0 .. MaxSeq /\ causal \in BOOLEAN /\ InLoops(x)
         /\ at[x].w \in 0 .. total - 1 /\ at[x].j0 \in Nat /\ at[x].i \in Nat
         /\ at[x].j \in Nat /\ at[x].w1 \in Nat /\ at[x].w < at[x].w1
         /\ nq(at[x].w) \in 1 .. QBLK /\ kv_end(at[x].w) \in 1 .. seq
<1>1. Shape /\ Handed /\ seq \in 0 .. MaxSeq /\ causal \in BOOLEAN /\ InLoops(x)
  BY DEF Control, Shape, Counters
<1>2. pc[x] # "pull"
  BY DEF Busy
<1>3. at[x].w \in 0 .. total - 1 /\ at[x].w < at[x].w1
  <2>1. PICK c \in 0 .. next - 1 : Holds(x, c)
    BY <1>1, <1>2 DEF Handed
  <2> QED
    BY <1>1, <1>2, <2>1, HeldChunk DEF Holds
<1>4. nq(at[x].w) \in 1 .. QBLK
  BY <1>1, <1>3, UnitOf
<1>5. kv_end(at[x].w) \in 1 .. seq
  <2>1. 0 \in 0 .. nq(at[x].w) - 1
    BY <1>4, Sizes
  <2>2. seq \in Nat /\ kv_end(at[x].w) \in Nat /\ 0 < kv_end(at[x].w)
        /\ kv_end(at[x].w) <= seq
    BY <1>1, <1>3, <2>1, UnitKeys, Sizes
  <2> QED
    BY <2>2
<1> QED
  BY <1>1, <1>3, <1>4, <1>5, Place

(* The tile and the key of a thread that has one more.                     *)
LEMMA KeyOf ==
  ASSUME Control, NEW x \in Threads, pc[x] = "keys", at[x].i < nq(at[x].w)
  PROVE  /\ at[x].i \in 0 .. nq(at[x].w) - 1 /\ at[x].i \in 0 .. QBLK - 1
         /\ row(x) = r0(at[x].w) + at[x].i /\ row(x) \in 0 .. seq - 1
         /\ jn(x) \in 1 .. KBLK
         /\ ~RowDone(x) => /\ at[x].j < jn(x) /\ key(x) \in RowKeys(x, at[x].i)
                           /\ key(x) = at[x].j0 + at[x].j
         /\ RowDone(x) => Before(x, at[x].i)
                            = {k \in RowKeys(x, at[x].i) : k < at[x].j0 + KBLK}
<1> DEFINE w == at[x].w
           i == at[x].i
           j == at[x].j
           j0 == at[x].j0
<1>1. Busy(x)
  BY DEF Busy
<1>2. /\ seq \in 0 .. MaxSeq /\ causal \in BOOLEAN /\ w \in 0 .. total - 1
      /\ j0 \in Nat /\ i \in Nat /\ j \in 0 .. KBLK
      /\ nq(w) \in 1 .. QBLK /\ kv_end(w) \in 1 .. seq /\ j0 < kv_end(w) /\ i < nq(w)
  BY <1>1, Position DEF InLoops
<1>3. /\ row(x) = r0(w) + i /\ key(x) = j0 + j /\ jn(x) = MinOf(KBLK, seq - j0)
      /\ RowKeys(x, i) = Visible(r0(w) + i, seq, causal)
      /\ (RowDone(x) <=> j >= jn(x) \/ (causal /\ key(x) > row(x)))
  BY DEF row, key, jn, RowKeys, RowDone
<1>4. Before(x, i) = {k \in RowKeys(x, i) : k < j0 + j}
  <2>1. ~(i > at[x].i)
    BY <1>2
  <2>2. Upto(x, i) = j0 + j
    BY <2>1 DEF Upto
  <2> QED
    BY <2>2 DEF Before
<1> HIDE DEF w, i, j, j0
<1>5. i \in 0 .. nq(w) - 1
  BY <1>2, Sizes
<1>6. i \in 0 .. QBLK - 1 /\ r0(w) + i \in 0 .. seq - 1
  BY <1>2, <1>5, UnitKeys
<1>7. jn(x) \in 1 .. KBLK /\ jn(x) <= seq - j0 /\ (jn(x) = KBLK \/ jn(x) = seq - j0)
      /\ seq \in Nat
  BY <1>2, <1>3, Sizes DEF MinOf
<1>8. ASSUME ~RowDone(x) PROVE j < jn(x) /\ key(x) \in RowKeys(x, i)
  BY <1>2, <1>3, <1>6, <1>7, <1>8, Sizes DEF Visible
<1>9. ASSUME RowDone(x)
      PROVE  Before(x, i) = {k \in RowKeys(x, i) : k < j0 + KBLK}
  <2> SUFFICES ASSUME NEW k \in RowKeys(x, i)
               PROVE  k < j0 + j <=> k < j0 + KBLK
    BY <1>4
  <2>1. k \in 0 .. seq - 1 /\ (causal => k <= row(x))
    BY <1>3 DEF Visible
  <2>2. CASE j >= jn(x)
    BY <1>2, <1>7, <2>1, <2>2, Sizes
  <2>3. CASE causal /\ key(x) > row(x)
    <3>1. k < j0 + j
      BY <1>2, <1>3, <1>6, <2>1, <2>3
    <3> QED
      BY <1>2, <2>1, <3>1, Sizes
  <2> QED
    BY <1>3, <1>9, <2>2, <2>3
<1> QED
  BY <1>3, <1>5, <1>6, <1>7, <1>8, <1>9 DEF w, i, j, j0

LEMMA OthersLoops ==
  ASSUME NEW x \in Threads, Only(x), NEW y \in Threads, y # x
  PROVE  /\ Busy(y)' = Busy(y) /\ InLoops(y)' = InLoops(y)
         /\ nq(at[y].w)' = nq(at[y].w)
         /\ \A i : IsSum(reg[y][i], y, i)' = IsSum(reg[y][i], y, i)
<1>1. at'[y] = at[y] /\ pc'[y] = pc[y] /\ reg'[y] = reg[y] /\ UNCHANGED <<seq, causal>>
  BY DEF Only
<1>2. \A u : head(u)' = head(u) /\ r0(u)' = r0(u) /\ nq(u)' = nq(u)
             /\ kv_end(u)' = kv_end(u)
  BY <1>1, SameCall
<1>3. /\ Busy(y)' = Busy(y) /\ nq(at[y].w)' = nq(at[y].w) /\ r0(at[y].w)' = r0(at[y].w)
      /\ head(at[y].w)' = head(at[y].w) /\ kv_end(at[y].w)' = kv_end(at[y].w)
  BY <1>1, SameCall DEF Busy, nq, r0, r1, head, kv_end, qtiles
<1>4. InLoops(y)' = InLoops(y)
  BY <1>1, <1>3 DEF InLoops
<1>5. \A i : IsSum(reg[y][i], y, i)' = IsSum(reg[y][i], y, i)
  BY <1>1, <1>3 DEF IsSum, Before, Scores, RowKeys, Upto
<1> QED
  BY <1>3, <1>4, <1>5

LEMMA OneThread ==
  ASSUME Control, Running, NEW x \in Threads, Only(x),
         Busy(x)' => /\ InLoops(x)'
                     /\ \A i : i \in (0 .. nq(at[x].w) - 1)' => IsSum(reg[x][i], x, i)'
  PROVE  Counters' /\ Running'
<1>1. \A y \in Threads : Busy(y)' => InLoops(y)'
  BY OthersLoops DEF Control, Counters
<1>2. \A y \in Threads : Busy(y)' =>
        \A i : i \in (0 .. nq(at[y].w) - 1)' => IsSum(reg[y][i], y, i)'
  <2> TAKE y \in Threads
  <2>1. CASE y = x
    BY <2>1
  <2>2. CASE y # x
    <3>1. /\ Busy(y)' = Busy(y) /\ nq(at[y].w)' = nq(at[y].w)
          /\ \A i : IsSum(reg[y][i], y, i)' = IsSum(reg[y][i], y, i)
      BY <2>2, OthersLoops
    <3>2. Busy(y) => \A i \in 0 .. nq(at[y].w) - 1 : IsSum(reg[y][i], y, i)
      BY DEF Running
    <3> QED
      BY <3>1, <3>2
  <2> QED
    BY <2>1, <2>2
<1> QED
  BY <1>1, <1>2 DEF Counters, Running

(* A row of a unit after a step that leaves its registers alone,           *)
LEMMA SameSum ==
  ASSUME UNCHANGED <<seq, causal>>, NEW x \in Threads, at'[x].w = at[x].w,
         NEW i, reg'[x][i] = reg[x][i], IsSum(reg[x][i], x, i),
         {k \in RowKeys(x, i) : k < Upto(x, i)'} = Before(x, i)
  PROVE  IsSum(reg[x][i], x, i)'
<1>1. RowKeys(x, i)' = RowKeys(x, i) /\ Scores(x, i)' = Scores(x, i)
  BY DEF RowKeys, Scores, r0, head, qtiles
<1>2. Before(x, i)' = Before(x, i)
  BY <1>1 DEF Before
<1> QED
  BY <1>1, <1>2 DEF IsSum

(* and after one more key.                                                 *)
LEMMA OneMoreSum ==
  ASSUME Control, NEW x \in Threads, pc[x] = "keys", at[x].i < nq(at[x].w),
         ~RowDone(x), IsSum(reg[x][at[x].i], x, at[x].i),
         NEW S, S = Before(x, at[x].i) \cup {key(x)},
         NEW r, r = FoldInto(reg[x][at[x].i], Scores(x, at[x].i)[key(x)], key(x), key(x))
  PROVE  /\ IsSoftmaxOf(r, Scores(x, at[x].i), S)
         /\ S = {k \in RowKeys(x, at[x].i) : k < at[x].j0 + (at[x].j + 1)}
<1> DEFINE i == at[x].i
           score == Scores(x, i)
           B == Before(x, i)
           c == key(x)
           o == reg[x][i]
<1>1. /\ i \in 0 .. nq(at[x].w) - 1 /\ row(x) \in 0 .. seq - 1
      /\ row(x) = r0(at[x].w) + i
      /\ c \in RowKeys(x, i) /\ c = at[x].j0 + at[x].j /\ at[x].j < jn(x)
  BY KeyOf
<1>2. at[x].j0 \in Nat /\ at[x].j \in Nat /\ i \in Nat /\ at[x].w \in 0 .. total - 1
      /\ seq \in 0 .. MaxSeq
  BY Position DEF Busy
<1>3. B = {k \in RowKeys(x, i) : k < c}
  <2>1. ~(i > at[x].i)
    BY <1>2
  <2>2. Upto(x, i) = c
    BY <1>1, <2>1 DEF Upto
  <2> QED
    BY <2>2 DEF Before
<1>4. S = {k \in RowKeys(x, i) : k < at[x].j0 + (at[x].j + 1)}
  <2>1. \A k \in RowKeys(x, i) : k \in Int
    BY <1>2, Sizes DEF RowKeys, Visible
  <2> QED
    BY <1>1, <1>2, <1>3, <2>1
<1>5. AreScores(score, RowKeys(x, i))
  <2>1. head(at[x].w) \in 0 .. Heads - 1
    BY <1>2, UnitOf
  <2>2. row(x) \in 0 .. MaxSeq - 1 /\ \A k \in RowKeys(x, i) : k \in 0 .. MaxSeq - 1
    <3>1. \A k : k \in 0 .. seq - 1 => k \in 0 .. MaxSeq - 1
      BY <1>2, Sizes
    <3> QED
      BY <1>1, <3>1 DEF RowKeys, Visible
  <2>3. score = Score[head(at[x].w)][row(x)]
    BY <1>1 DEF Scores
  <2> QED
    BY <2>1, <2>2, <2>3, ScoreType DEF AreScores
<1>6. AreScores(score, S)
  BY <1>4, <1>5 DEF AreScores
<1>7. Under \in Nat /\ Sentinel \in Int /\ r = FoldInto(o, score[c], c, c)
  BY Sizes
<1> HIDE DEF score, B, c, o
<1>8. CASE B = {}
  <2>1. IsFresh(o) /\ S = {c}
    BY <1>8 DEF IsSum, B, o, c
  <2>2. IsSoftmaxOf(r, score, {c})
    BY <1>6, <1>7, <2>1, FoldFirst
  <2> QED
    BY <1>4, <2>1, <2>2 DEF score
<1>9. CASE B # {}
  <2>1. IsSoftmaxOf(o, score, B)
    BY <1>9 DEF IsSum, B, o, score
  <2>2. S = B \cup {c}
    BY DEF B, c
  <2>3. AreScores(score, B \cup {c})
    BY <1>6, <2>2
  <2>4. IsSoftmaxOf(FoldInto(o, score[c], c, c), score, B \cup {c})
    BY <1>7, <2>1, <2>3, FoldOneMore
  <2> QED
    BY <1>4, <1>7, <2>2, <2>4 DEF score
<1> QED
  BY <1>8, <1>9
-----------------------------------------------------------------------------
(* Each action keeps the loops' counters and the sums of the rows.         *)
LEMMA BeginLoops ==
  ASSUME Control, Running, NEW x \in Threads, Begin(x)
  PROVE  Control' /\ Running'
         /\ \A y \in Threads, c \in 0 .. chunks - 1 : Holds(y, c)' <=> Holds(y, c)
<1>1. /\ Shape /\ Handed /\ Only(x) /\ Shape' /\ next' = next
      /\ pc[x] = "unit" /\ pc'[x] = "keys" /\ at[x].w < at[x].w1
      /\ at'[x] = At(at[x].w, at[x].w1, 0, 0, 0) /\ reg'[x] = Fresh
  BY BeginStep DEF Control
<1>2. /\ at'[x].w = at[x].w /\ at'[x].w1 = at[x].w1
      /\ at'[x].j0 = 0 /\ at'[x].i = 0 /\ at'[x].j = 0
      /\ at[x].w \in at[x].w .. at[x].w1
  BY <1>1, Place DEF At
<1>3. Handed' /\ \A y \in Threads, c \in 0 .. chunks - 1 : Holds(y, c)' <=> Holds(y, c)
  BY <1>1, <1>2, KeepsHanded
<1>4. at[x].w \in 0 .. total - 1
  <2>1. PICK c \in 0 .. next - 1 :
          at[x].w \in ChunkLo(c, len) .. at[x].w1 /\ at[x].w1 <= total
    BY <1>1, HeldChunk
  <2>2. total \in Nat
    BY <1>1, Tiles DEF Shape
  <2> QED
    BY <1>1, <2>1, <2>2, Place
<1>5. nq(at[x].w) \in 1 .. QBLK /\ kv_end(at[x].w) \in Nat /\ 0 < kv_end(at[x].w)
  <2>1. seq \in 0 .. MaxSeq /\ causal \in BOOLEAN /\ nq(at[x].w) \in 1 .. QBLK
    BY <1>1, <1>4, UnitOf DEF Shape
  <2>2. 0 \in 0 .. nq(at[x].w) - 1
    BY <2>1, Sizes
  <2> QED
    BY <1>4, <2>1, <2>2, UnitKeys
<1>6. nq(at[x].w)' = nq(at[x].w) /\ kv_end(at[x].w)' = kv_end(at[x].w)
  BY <1>1, <1>2, SameCall DEF Only, nq, r0, r1, head, kv_end, qtiles
<1>7. InLoops(x)'
  BY <1>1, <1>2, <1>5, <1>6, Sizes DEF InLoops
<1>8. ASSUME NEW i, i \in (0 .. nq(at[x].w) - 1)'
      PROVE  IsSum(reg[x][i], x, i)'
  <2>1. i \in 0 .. QBLK - 1
    BY <1>5, <1>6, <1>8, Sizes
  <2>2. IsFresh(reg'[x][i])
    BY <1>1, <2>1 DEF Fresh, IsFresh
  <2>3. Upto(x, i)' = 0
    BY <1>1, <1>2, <2>1 DEF Upto
  <2>4. \A k \in RowKeys(x, i)' : ~(k < 0)
    <3>1. \A k \in 0 .. seq - 1 : ~(k < 0)
      BY <1>1, Sizes DEF Shape
    <3> QED
      BY <1>1, <3>1 DEF RowKeys, Visible, Only
  <2>5. Before(x, i)' = {}
    BY <2>3, <2>4 DEF Before
  <2> QED
    BY <2>2, <2>5 DEF IsSum, IsFresh
<1> QED
  BY <1>1, <1>3, <1>7, <1>8, OneThread DEF Control

LEMMA KeyLoops ==
  ASSUME Control, Running, NEW x \in Threads, Key(x)
  PROVE  Control' /\ Running'
         /\ \A y \in Threads, c \in 0 .. chunks - 1 : Holds(y, c)' <=> Holds(y, c)
<1> DEFINE m == at[x].i
<1>1. /\ Shape /\ Handed /\ Only(x) /\ Shape' /\ next' = next
      /\ pc[x] = "keys" /\ pc'[x] = "keys" /\ m < nq(at[x].w) /\ ~RowDone(x)
      /\ at'[x] = At(at[x].w, at[x].w1, at[x].j0, at[x].i, at[x].j + 1)
      /\ \A i \in 0 .. QBLK - 1 : i # m => reg'[x][i] = reg[x][i]
      /\ m \in 0 .. QBLK - 1 =>
           reg'[x][m] = FoldInto(reg[x][m], Scores(x, m)[key(x)], key(x), key(x))
  BY KeyStep DEF Control
<1>2. /\ at'[x].w = at[x].w /\ at'[x].w1 = at[x].w1
      /\ at'[x].j0 = at[x].j0 /\ at'[x].i = at[x].i /\ at'[x].j = at[x].j + 1
  BY <1>1 DEF At
<1>3. /\ InLoops(x) /\ at[x].w \in Nat /\ at[x].w1 \in Nat /\ at[x].w < at[x].w1
      /\ m \in Nat /\ at[x].j \in Nat /\ at[x].j0 \in Nat /\ nq(at[x].w) \in 1 .. QBLK
      /\ seq \in 0 .. MaxSeq /\ causal \in BOOLEAN /\ at[x].w \in 0 .. total - 1
  BY <1>1, Place, Position DEF Busy
<1>4. Handed' /\ \A y \in Threads, c \in 0 .. chunks - 1 : Holds(y, c)' <=> Holds(y, c)
  <2>1. at[x].w \in at[x].w .. at[x].w1
    BY <1>3
  <2> QED
    BY <1>1, <1>2, <1>3, <2>1, KeepsHanded
<1>5. nq(at[x].w)' = nq(at[x].w) /\ kv_end(at[x].w)' = kv_end(at[x].w)
  BY <1>1, <1>2, SameCall DEF Only, nq, r0, r1, head, kv_end, qtiles
<1>6. m \in 0 .. nq(at[x].w) - 1 /\ m \in 0 .. QBLK - 1
      /\ at[x].j < jn(x) /\ jn(x) \in 1 .. KBLK
  BY <1>1, KeyOf
<1>7. InLoops(x)'
  <2>1. at[x].j + 1 \in 0 .. KBLK
    BY <1>3, <1>6, Sizes
  <2> QED
    BY <1>1, <1>2, <1>3, <1>5, <1>6, <2>1 DEF InLoops
<1>8. ASSUME NEW i, i \in (0 .. nq(at[x].w) - 1)'
      PROVE  IsSum(reg[x][i], x, i)'
  <2>1. i \in 0 .. nq(at[x].w) - 1 /\ i \in 0 .. QBLK - 1 /\ IsSum(reg[x][i], x, i)
    BY <1>1, <1>3, <1>5, <1>8, UnitKeys DEF Busy, Running
  <2>2. UNCHANGED <<seq, causal>>
    BY <1>1 DEF Only
  <2>3. CASE i = m
    <3> DEFINE S == Before(x, m) \cup {key(x)}
               r == FoldInto(reg[x][m], Scores(x, m)[key(x)], key(x), key(x))
    <3>1. IsSoftmaxOf(r, Scores(x, m), S)
          /\ S = {k \in RowKeys(x, m) : k < at[x].j0 + (at[x].j + 1)}
      BY <1>1, <2>1, <2>3, OneMoreSum
    <3>2. Upto(x, i)' = at[x].j0 + (at[x].j + 1)
      <4>1. ~(i > at'[x].i) /\ i = at'[x].i
        BY <1>2, <1>3, <2>3
      <4> QED
        BY <1>1, <1>2, <4>1 DEF Upto
    <3>3. RowKeys(x, i)' = RowKeys(x, i) /\ Scores(x, i)' = Scores(x, i)
      BY <1>2, <2>2 DEF RowKeys, Scores, r0, head, qtiles
    <3>4. Before(x, i)' = S
      BY <2>3, <3>1, <3>2, <3>3 DEF Before
    <3>5. S # {}
      OBVIOUS
    <3>6. reg'[x][i] = r
      BY <1>1, <1>6, <2>3
    <3> HIDE DEF S, r
    <3> QED
      BY <2>3, <3>1, <3>3, <3>4, <3>5, <3>6 DEF IsSum
  <2>4. CASE i # m
    <3>1. reg'[x][i] = reg[x][i]
      BY <1>1, <2>1, <2>4
    <3>2. Upto(x, i)' = Upto(x, i)
      BY <1>1, <1>2, <2>4 DEF Upto
    <3>3. {k \in RowKeys(x, i) : k < Upto(x, i)'} = Before(x, i)
      BY <3>2 DEF Before
    <3> QED
      BY <1>2, <2>1, <2>2, <3>1, <3>3, SameSum
  <2> QED
    BY <2>3, <2>4
<1> QED
  BY <1>1, <1>4, <1>7, <1>8, OneThread DEF Control

LEMMA NextRowLoops ==
  ASSUME Control, Running, NEW x \in Threads, NextRow(x)
  PROVE  Control' /\ Running'
         /\ \A y \in Threads, c \in 0 .. chunks - 1 : Holds(y, c)' <=> Holds(y, c)
<1>1. /\ Shape /\ Handed /\ Only(x) /\ Shape' /\ UNCHANGED <<next, reg>>
      /\ pc[x] = "keys" /\ pc'[x] = "keys" /\ at[x].i < nq(at[x].w) /\ RowDone(x)
      /\ at'[x] = At(at[x].w, at[x].w1, at[x].j0, at[x].i + 1, 0)
  BY NextRowStep DEF Control
<1>2. /\ at'[x].w = at[x].w /\ at'[x].w1 = at[x].w1
      /\ at'[x].j0 = at[x].j0 /\ at'[x].i = at[x].i + 1 /\ at'[x].j = 0
  BY <1>1 DEF At
<1>3. /\ InLoops(x) /\ at[x].w \in Nat /\ at[x].w1 \in Nat /\ at[x].w < at[x].w1
      /\ at[x].i \in Nat /\ at[x].j0 \in Nat /\ nq(at[x].w) \in 1 .. QBLK
      /\ seq \in 0 .. MaxSeq /\ causal \in BOOLEAN /\ at[x].w \in 0 .. total - 1
  BY <1>1, Place, Position DEF Busy
<1>4. Handed' /\ \A y \in Threads, c \in 0 .. chunks - 1 : Holds(y, c)' <=> Holds(y, c)
  <2>1. at[x].w \in at[x].w .. at[x].w1
    BY <1>3
  <2> QED
    BY <1>1, <1>2, <1>3, <2>1, KeepsHanded
<1>5. nq(at[x].w)' = nq(at[x].w) /\ kv_end(at[x].w)' = kv_end(at[x].w)
  BY <1>1, <1>2, SameCall DEF Only, nq, r0, r1, head, kv_end, qtiles
<1>6. InLoops(x)'
  <2>1. at[x].i + 1 \in 0 .. nq(at[x].w) /\ 0 \in 0 .. KBLK
    BY <1>1, <1>3, Sizes
  <2> QED
    BY <1>1, <1>2, <1>3, <1>5, <2>1 DEF InLoops
<1>7. ASSUME NEW i, i \in (0 .. nq(at[x].w) - 1)'
      PROVE  IsSum(reg[x][i], x, i)'
  <2>1. i \in 0 .. nq(at[x].w) - 1 /\ i \in Nat /\ IsSum(reg[x][i], x, i)
        /\ UNCHANGED <<seq, causal>>
    BY <1>1, <1>3, <1>5, <1>7, UnitKeys, Sizes DEF Busy, Running, Only
  <2>2. {k \in RowKeys(x, i) : k < Upto(x, i)'} = Before(x, i)
    <3>1. CASE i = at[x].i
      <4>1. Upto(x, i)' = at[x].j0 + KBLK
        <5>1. ~(i > at'[x].i) /\ i # at'[x].i
          BY <1>2, <1>3, <3>1
        <5> QED
          BY <1>1, <1>2, <5>1 DEF Upto
      <4> QED
        BY <1>1, <3>1, <4>1, KeyOf
    <3>2. CASE i < at[x].i
      <4>1. Upto(x, i)' = at[x].j0 + KBLK /\ Upto(x, i) = at[x].j0 + KBLK
        <5>1. ~(i > at'[x].i) /\ i # at'[x].i /\ ~(i > at[x].i) /\ i # at[x].i
          BY <1>2, <1>3, <2>1, <3>2
        <5> QED
          BY <1>1, <1>2, <5>1 DEF Upto
      <4> QED
        BY <4>1 DEF Before
    <3>3. CASE i > at[x].i
      <4>1. Upto(x, i)' = at[x].j0 + 0 /\ Upto(x, i) = at[x].j0 + 0
        <5>1. i > at'[x].i \/ i = at'[x].i
          BY <1>2, <1>3, <2>1, <3>3
        <5> QED
          BY <1>1, <1>2, <3>3, <5>1 DEF Upto
      <4> QED
        BY <4>1 DEF Before
    <3> QED
      BY <1>3, <2>1, <3>1, <3>2, <3>3
  <2> QED
    BY <1>1, <1>2, <2>1, <2>2, SameSum
<1> QED
  BY <1>1, <1>4, <1>6, <1>7, OneThread DEF Control

LEMMA NextTileLoops ==
  ASSUME Control, Running, NEW x \in Threads, NextTile(x)
  PROVE  Control' /\ Running'
         /\ \A y \in Threads, c \in 0 .. chunks - 1 : Holds(y, c)' <=> Holds(y, c)
<1>1. /\ Shape /\ Handed /\ Only(x) /\ Shape' /\ UNCHANGED <<next, reg>>
      /\ pc[x] = "keys" /\ at[x].i >= nq(at[x].w)
      /\ pc'[x] = IF at[x].j0 + KBLK < kv_end(at[x].w) THEN "keys" ELSE "store"
      /\ at'[x] = At(at[x].w, at[x].w1, at[x].j0 + KBLK, 0, 0)
  BY NextTileStep DEF Control
<1>2. /\ at'[x].w = at[x].w /\ at'[x].w1 = at[x].w1
      /\ at'[x].j0 = at[x].j0 + KBLK /\ at'[x].i = 0 /\ at'[x].j = 0
  BY <1>1 DEF At
<1>3. /\ InLoops(x) /\ at[x].w \in Nat /\ at[x].w1 \in Nat /\ at[x].w < at[x].w1
      /\ at[x].i \in Nat /\ at[x].j0 \in Nat /\ nq(at[x].w) \in 1 .. QBLK
      /\ kv_end(at[x].w) \in 1 .. seq
      /\ seq \in 0 .. MaxSeq /\ causal \in BOOLEAN /\ at[x].w \in 0 .. total - 1
  BY <1>1, Place, Position DEF Busy
<1>4. Handed' /\ \A y \in Threads, c \in 0 .. chunks - 1 : Holds(y, c)' <=> Holds(y, c)
  <2>1. at[x].w \in at[x].w .. at[x].w1
    BY <1>3
  <2> QED
    BY <1>1, <1>2, <1>3, <2>1, KeepsHanded
<1>5. nq(at[x].w)' = nq(at[x].w) /\ kv_end(at[x].w)' = kv_end(at[x].w)
  BY <1>1, <1>2, SameCall DEF Only, nq, r0, r1, head, kv_end, qtiles
<1>6. InLoops(x)'
  <2>1. 0 \in 0 .. nq(at[x].w) /\ 0 \in 0 .. KBLK /\ kv_end(at[x].w) \in Nat
        /\ at[x].j0 + KBLK \in Nat
    BY <1>3, Sizes
  <2> QED
    BY <1>1, <1>2, <1>5, <2>1 DEF InLoops
<1>7. ASSUME NEW i, i \in (0 .. nq(at[x].w) - 1)'
      PROVE  IsSum(reg[x][i], x, i)'
  <2>1. i \in 0 .. nq(at[x].w) - 1 /\ i \in Nat /\ IsSum(reg[x][i], x, i)
        /\ UNCHANGED <<seq, causal>>
    BY <1>1, <1>3, <1>5, <1>7, UnitKeys, Sizes DEF Busy, Running, Only
  <2>2. Upto(x, i) = at[x].j0 + KBLK
    <3>1. ~(i > at[x].i) /\ i # at[x].i
      BY <1>1, <1>3, <2>1
    <3> QED
      BY <1>1, <3>1 DEF Upto
  <2>3. Upto(x, i)' = at[x].j0 + KBLK
    <3>1. Upto(x, i)' = (at[x].j0 + KBLK) + 0
      <4>1. i > at'[x].i \/ i = at'[x].i
        BY <1>2, <2>1
      <4> QED
        BY <1>2, <4>1 DEF Upto
    <3> QED
      BY <1>3, <3>1, Sizes
  <2>4. {k \in RowKeys(x, i) : k < Upto(x, i)'} = Before(x, i)
    BY <2>2, <2>3 DEF Before
  <2> QED
    BY <1>1, <1>2, <2>1, <2>4, SameSum
<1> QED
  BY <1>1, <1>4, <1>6, <1>7, OneThread DEF Control

LEMMA StoreLoops ==
  ASSUME Control, Running, NEW x \in Threads, Store(x)
  PROVE  Control' /\ Running'
         /\ \A y \in Threads, c \in 0 .. chunks - 1 : Holds(y, c)' <=> Holds(y, c)
<1>1. /\ Shape /\ Handed /\ Only(x) /\ Shape' /\ UNCHANGED <<next, reg>>
      /\ pc[x] = "store" /\ pc'[x] = "store" /\ at[x].i < nq(at[x].w)
      /\ at'[x] = At(at[x].w, at[x].w1, at[x].j0, at[x].i + 1, at[x].j)
  BY StoreStep DEF Control
<1>2. /\ at'[x].w = at[x].w /\ at'[x].w1 = at[x].w1
      /\ at'[x].j0 = at[x].j0 /\ at'[x].i = at[x].i + 1 /\ at'[x].j = at[x].j
  BY <1>1 DEF At
<1>3. /\ InLoops(x) /\ at[x].w \in Nat /\ at[x].w1 \in Nat /\ at[x].w < at[x].w1
      /\ at[x].i \in Nat /\ nq(at[x].w) \in 1 .. QBLK
      /\ seq \in 0 .. MaxSeq /\ causal \in BOOLEAN /\ at[x].w \in 0 .. total - 1
  BY <1>1, Place, Position DEF Busy
<1>4. Handed' /\ \A y \in Threads, c \in 0 .. chunks - 1 : Holds(y, c)' <=> Holds(y, c)
  <2>1. at[x].w \in at[x].w .. at[x].w1
    BY <1>3
  <2> QED
    BY <1>1, <1>2, <1>3, <2>1, KeepsHanded
<1>5. nq(at[x].w)' = nq(at[x].w) /\ kv_end(at[x].w)' = kv_end(at[x].w)
  BY <1>1, <1>2, SameCall DEF Only, nq, r0, r1, head, kv_end, qtiles
<1>6. InLoops(x)'
  <2>1. at[x].i + 1 \in 0 .. nq(at[x].w)
    BY <1>1, <1>3, Sizes
  <2> QED
    BY <1>1, <1>2, <1>3, <1>5, <2>1 DEF InLoops
<1>7. ASSUME NEW i, i \in (0 .. nq(at[x].w) - 1)'
      PROVE  IsSum(reg[x][i], x, i)'
  <2>1. i \in 0 .. nq(at[x].w) - 1 /\ IsSum(reg[x][i], x, i)
        /\ UNCHANGED <<seq, causal>>
    BY <1>1, <1>5, <1>7 DEF Busy, Running, Only
  <2>2. Upto(x, i)' = Upto(x, i)
    BY <1>1, <1>2 DEF Upto
  <2>3. {k \in RowKeys(x, i) : k < Upto(x, i)'} = Before(x, i)
    BY <2>2 DEF Before
  <2> QED
    BY <1>1, <1>2, <2>1, <2>3, SameSum
<1> QED
  BY <1>1, <1>4, <1>6, <1>7, OneThread DEF Control

LEMMA EndUnitLoops ==
  ASSUME Control, Running, NEW x \in Threads, EndUnit(x)
  PROVE  Control' /\ Running'
         /\ \A y \in Threads, c \in 0 .. chunks - 1 : Holds(y, c)' <=> Holds(y, c)
<1>1. /\ Shape /\ Handed /\ Only(x) /\ Shape' /\ next' = next
      /\ pc[x] = "store" /\ pc'[x] = "unit"
      /\ at'[x] = At(at[x].w + 1, at[x].w1, at[x].j0, at[x].i, at[x].j)
  BY EndUnitStep DEF Control
<1>2. at'[x].w = at[x].w + 1 /\ at'[x].w1 = at[x].w1
  BY <1>1 DEF At
<1>3. at[x].w \in Nat /\ at[x].w1 \in Nat /\ at[x].w < at[x].w1
  BY <1>1, Place, Position DEF Busy
<1>4. Handed' /\ \A y \in Threads, c \in 0 .. chunks - 1 : Holds(y, c)' <=> Holds(y, c)
  <2>1. at[x].w + 1 \in at[x].w .. at[x].w1
    BY <1>3
  <2> QED
    BY <1>1, <1>2, <1>3, <2>1, KeepsHanded
<1>5. ~Busy(x)'
  BY <1>1 DEF Busy
<1> QED
  BY <1>1, <1>4, <1>5, OneThread DEF Control

LEMMA PullLoops ==
  ASSUME Control, Running, NEW x \in Threads, Pull(x)
  PROVE  Control' /\ Running'
<1>1. Only(x) /\ Shape' /\ pc'[x] = "unit"
  BY PullStep DEF Control
<1>2. Handed'
  BY PullHanded DEF Control
<1>3. ~Busy(x)'
  BY <1>1 DEF Busy
<1> QED
  BY <1>1, <1>2, <1>3, OneThread DEF Control

LEMMA EndChunkLoops ==
  ASSUME Control, Running, NEW x \in Threads, EndChunk(x)
  PROVE  Control' /\ Running'
<1>1. Only(x) /\ Shape' /\ pc'[x] = "pull"
  BY EndChunkStep DEF Control
<1>2. Handed'
  BY EndChunkHanded DEF Control
<1>3. ~Busy(x)'
  BY <1>1 DEF Busy
<1> QED
  BY <1>1, <1>2, <1>3, OneThread DEF Control
-----------------------------------------------------------------------------
(* Once past its last tile, a unit has folded all keys of its rows,        *)
LEMMA AllFolded ==
  ASSUME Control, Running, NEW x \in Threads, pc[x] = "store",
         NEW i \in 0 .. nq(at[x].w) - 1
  PROVE  IsSoftmaxOf(reg[x][i], Scores(x, i), RowKeys(x, i))
<1>1. /\ InLoops(x) /\ seq \in 0 .. MaxSeq /\ causal \in BOOLEAN
      /\ at[x].w \in 0 .. total - 1 /\ at[x].j0 \in Nat /\ kv_end(at[x].w) \in 1 .. seq
  BY Position DEF Busy
<1>2. /\ RowKeys(x, i) # {}
      /\ \A k \in RowKeys(x, i) : k \in Nat /\ k < kv_end(at[x].w)
  BY <1>1, UnitKeys DEF RowKeys
<1>3. Upto(x, i) = at[x].j0 + 0 /\ at[x].j0 >= kv_end(at[x].w)
  BY <1>1 DEF Upto, InLoops
<1>4. kv_end(at[x].w) \in Nat
  BY <1>1
<1>5. \A k \in RowKeys(x, i) : k < Upto(x, i)
  BY <1>1, <1>2, <1>3, <1>4
<1>6. Before(x, i) = RowKeys(x, i)
  BY <1>5 DEF Before
<1>7. IsSum(reg[x][i], x, i)
  BY DEF Running, Busy
<1> QED
  BY <1>2, <1>6, <1>7 DEF IsSum

(* so what it stores is the reference.                                     *)
LEMMA StoresReference ==
  ASSUME Control, Running, NEW x \in Threads, Store(x),
         NEW e, e = head(at[x].w) * seq + (r0(at[x].w) + at[x].i)
  PROVE  /\ head(at[x].w) \in 0 .. Heads - 1 /\ r0(at[x].w) + at[x].i \in 0 .. seq - 1
         /\ at[x].i \in 0 .. nq(at[x].w) - 1
         /\ e \in Elements /\ O'[e] # NotStored
         /\ IsReference(head(at[x].w), r0(at[x].w) + at[x].i, O'[e])
         /\ \A f \in Elements : f # e => O'[f] = O[f]
<1> DEFINE w == at[x].w
           i == at[x].i
           h == head(w)
           t == r0(w) + i
           r == Result(reg[x][i].acc, reg[x][i].l, reg[x][i].m)
<1>1. Shape /\ pc[x] = "store" /\ i < nq(w) /\ O' = [O EXCEPT ![h * seq + t] = r]
  BY StoreStep DEF Control
<1>2. /\ seq \in 0 .. MaxSeq /\ causal \in BOOLEAN /\ w \in 0 .. total - 1
      /\ i \in Nat /\ nq(w) \in 1 .. QBLK
  BY <1>1, Position DEF Busy
<1>3. i \in 0 .. nq(w) - 1
  BY <1>1, <1>2, Sizes
<1>4. h \in 0 .. Heads - 1 /\ t \in 0 .. seq - 1
  BY <1>2, <1>3, UnitOf, UnitKeys
<1>5. e \in Elements /\ e = h * seq + t
  BY <1>2, <1>4, ElementOf
<1>6. IsSoftmaxOf(reg[x][i], Score[h][t], Visible(t, seq, causal))
  BY <1>1, <1>3, AllFolded DEF Scores, RowKeys
<1>7. r.num = reg[x][i].acc /\ r.den = reg[x][i].l /\ r.max = reg[x][i].m
      /\ r = [num |-> reg[x][i].acc, den |-> reg[x][i].l, max |-> reg[x][i].m]
  BY DEF Result
<1> HIDE DEF r, h, t
<1>8. IsReference(h, t, r)
  BY <1>6, <1>7 DEF IsReference, IsSoftmaxOf
<1>9. r # NotStored
  <2> DEFINE terms == SUBSET [key : 0 .. MaxSeq - 1, x : Int]
             S == Visible(t, seq, causal)
  <2>1. t \in 0 .. MaxSeq - 1 /\ \A k \in S : k \in 0 .. MaxSeq - 1
    <3>1. \A k : k \in 0 .. seq - 1 => k \in 0 .. MaxSeq - 1
      BY <1>2, Sizes
    <3> QED
      BY <1>4, <3>1 DEF Visible
  <2>2. AreScores(Score[h][t], S)
    BY <1>4, <2>1, ScoreType DEF AreScores
  <2> HIDE DEF S
  <2>3. reg[x][i].m \in Int
    BY <1>6, <2>2, MaxType DEF S
  <2>4. \A k \in S : Score[h][t][k] - reg[x][i].m \in Int
    BY <2>2, <2>3 DEF AreScores
  <2>5. Weights(Score[h][t], S, reg[x][i].m) \in terms
    BY <2>1, <2>4 DEF Weights
  <2>6. reg[x][i].l \in terms /\ reg[x][i].acc \in terms
    BY <1>6, <2>5 DEF IsSoftmaxOf, S
  <2> HIDE DEF terms
  <2>7. r \in [num : terms, den : terms, max : Int]
    BY <1>7, <2>3, <2>6
  <2> QED
    BY <2>7, NotStoredIsNoResult DEF terms
<1>10. O = [f \in Elements |-> O[f]]
  BY <1>1 DEF Shape
<1>11. O' = [O EXCEPT ![e] = r]
  BY <1>1, <1>5 DEF h, t, r
<1>12. O'[e] = r /\ \A f \in Elements : f # e => O'[f] = O[f]
  BY <1>5, <1>10, <1>11
<1>13. IsReference(h, t, O'[e]) /\ O'[e] # NotStored
  BY <1>8, <1>9, <1>12
<1> QED
  BY <1>3, <1>4, <1>5, <1>12, <1>13 DEF h, t
-----------------------------------------------------------------------------
LEMMA SameOutput ==
  ASSUME Correct, UNCHANGED <<seq, causal, O>>
  PROVE  Correct'
BY DEF Correct, IsReference

LEMMA StoreOutput ==
  ASSUME Control, Running, Correct, NEW x \in Threads, Store(x)
  PROVE  Correct'
<1> DEFINE h == head(at[x].w)
           t == r0(at[x].w) + at[x].i
           e == h * seq + t
<1>1. /\ h \in 0 .. Heads - 1 /\ t \in 0 .. seq - 1
      /\ IsReference(h, t, O'[e]) /\ \A f \in Elements : f # e => O'[f] = O[f]
  BY StoresReference
<1>2. UNCHANGED <<seq, causal>>
  BY DEF Store
<1> HIDE DEF h, t
<1>3. ASSUME NEW f \in Elements, O'[f] # NotStored
      PROVE  \E g \in 0 .. Heads - 1, s \in 0 .. seq - 1 :
               f = g * seq + s /\ IsReference(g, s, O'[f])
  <2>1. CASE f = e
    BY <1>1, <2>1
  <2>2. CASE f # e
    <3>1. O'[f] = O[f]
      BY <1>1, <2>2
    <3> QED
      BY <1>3, <3>1 DEF Correct
  <2> QED
    BY <2>1, <2>2
<1> QED
  BY <1>2, <1>3 DEF Correct, IsReference

(* What was stored stays stored.                                           *)
LEMMA StaysStored ==
  ASSUME seq \in 0 .. MaxSeq, causal \in BOOLEAN, UNCHANGED <<seq, causal>>,
         \A f \in Elements : O[f] # NotStored => O'[f] # NotStored,
         NEW u \in 0 .. total - 1
  PROVE  /\ \A i \in 0 .. nq(u) - 1 : IsStored(u, i) => IsStored(u, i)'
         /\ Done(u) => Done(u)'
<1>1. head(u)' = head(u) /\ r0(u)' = r0(u) /\ nq(u)' = nq(u)
  BY SameCall
<1>2. \A i \in 0 .. nq(u) - 1 : IsStored(u, i) => IsStored(u, i)'
  <2> TAKE i \in 0 .. nq(u) - 1
  <2>1. head(u) * seq + (r0(u) + i) \in Elements
    BY UnitOf, UnitKeys, ElementOf
  <2> QED
    BY <1>1, <2>1 DEF IsStored
<1>3. Done(u) => Done(u)'
  BY <1>1, <1>2 DEF Done
<1> QED
  BY <1>2, <1>3

LEMMA ChunkUnits ==
  ASSUME Shape, NEW c \in 0 .. next - 1, NEW u \in ChunkSet(c, total, len)
  PROVE  c \in 0 .. chunks - 1 /\ u \in 0 .. total - 1
<1>1. chunks \in Nat /\ next \in 0 .. chunks
  BY Split DEF Shape
<1>2. c \in 0 .. chunks - 1
  BY <1>1
<1>3. total \in Int /\ len \in Int /\ len > 0 /\ c \in Nat
  BY <1>2, ChunkOf DEF Shape
<1>4. u \in Nat /\ u < total
  BY <1>3, ChunkWithin
<1> QED
  BY <1>2, <1>3, <1>4

(* A step within a unit.                                                   *)
LEMMA KeepsProgress ==
  ASSUME Control, Progress, NEW x \in Threads, Only(x), next' = next, pc[x] # "pull",
         at'[x].w = at[x].w,
         \A f \in Elements : O[f] # NotStored => O'[f] # NotStored,
         \A y \in Threads, c \in 0 .. chunks - 1 : Holds(y, c)' <=> Holds(y, c),
         pc'[x] = "store" => \A i \in 0 .. at'[x].i - 1 : IsStored(at[x].w, i)'
  PROVE  Progress'
<1>1. /\ Shape /\ seq \in 0 .. MaxSeq /\ causal \in BOOLEAN /\ UNCHANGED <<seq, causal>>
      /\ total' = total /\ len' = len
  BY SameCall DEF Control, Shape, Only
<1>2. \A y \in Threads : at'[y].w = at[y].w
  BY DEF Only
<1>3. ASSUME NEW c \in 0 .. next - 1, NEW u \in ChunkSet(c, total, len),
             \A y \in Threads : Holds(y, c)' => u < at'[y].w
      PROVE  Done(u)'
  <2>1. c \in 0 .. chunks - 1 /\ u \in 0 .. total - 1
    BY <1>1, ChunkUnits
  <2>2. \A y \in Threads : Holds(y, c) => u < at[y].w
    BY <1>2, <1>3, <2>1
  <2> QED
    BY <1>1, <2>1, <2>2, StaysStored DEF Progress
<1>4. ASSUME NEW y \in Threads, pc'[y] = "store", NEW i \in 0 .. at'[y].i - 1
      PROVE  IsStored(at[y].w, i)'
  <2>1. CASE y = x
    BY <1>1, <1>4, <2>1 DEF IsStored, head, r0, qtiles
  <2>2. CASE y # x
    <3>1. pc[y] = "store" /\ at'[y] = at[y]
      BY <1>4, <2>2 DEF Only
    <3>2. IsStored(at[y].w, i)
      BY <1>4, <3>1 DEF Progress
    <3>3. at[y].w \in 0 .. total - 1 /\ at[y].i \in 0 .. nq(at[y].w)
          /\ nq(at[y].w) \in 1 .. QBLK
      BY <3>1, Position DEF Busy, InLoops
    <3>4. i \in 0 .. nq(at[y].w) - 1
      BY <1>4, <3>1, <3>3, Sizes
    <3>5. head(at[y].w) * seq + (r0(at[y].w) + i) \in Elements
      BY <1>1, <3>3, <3>4, UnitOf, UnitKeys, ElementOf
    <3>6. head(at[y].w)' = head(at[y].w) /\ r0(at[y].w)' = r0(at[y].w)
      BY <1>1, <3>1 DEF head, r0, qtiles
    <3> QED
      BY <1>1, <3>2, <3>5, <3>6 DEF IsStored
  <2> QED
    BY <2>1, <2>2
<1>5. ~returned /\ ~returned'
  BY DEF Progress, Only
<1> QED
  BY <1>1, <1>3, <1>4, <1>5 DEF Progress

LEMMA StoreProgress ==
  ASSUME Control, Running, Progress, NEW x \in Threads, Store(x)
  PROVE  Progress'
<1> DEFINE w == at[x].w
           e == head(w) * seq + (r0(w) + at[x].i)
<1>1. /\ Only(x) /\ next' = next /\ pc[x] = "store" /\ at'[x].w = w
      /\ at'[x].i = at[x].i + 1 /\ UNCHANGED <<seq, causal>>
  <2>1. /\ Only(x) /\ next' = next /\ pc[x] = "store"
        /\ at'[x] = At(at[x].w, at[x].w1, at[x].j0, at[x].i + 1, at[x].j)
    BY StoreStep DEF Control
  <2> QED
    BY <2>1 DEF At, Only
<1>2. /\ O'[e] # NotStored /\ \A f \in Elements : f # e => O'[f] = O[f]
      /\ at[x].i \in 0 .. nq(w) - 1
  BY StoresReference
<1>3. \A f \in Elements : O[f] # NotStored => O'[f] # NotStored
  BY <1>2
<1>4. \A y \in Threads, c \in 0 .. chunks - 1 : Holds(y, c)' <=> Holds(y, c)
  BY StoreLoops
<1>5. ASSUME NEW i \in 0 .. at'[x].i - 1
      PROVE  O'[head(w) * seq + (r0(w) + i)] # NotStored
  <2>1. /\ seq \in 0 .. MaxSeq /\ causal \in BOOLEAN
        /\ w \in 0 .. total - 1 /\ at[x].i \in Nat /\ nq(w) \in 1 .. QBLK
    BY <1>1, Position DEF Busy
  <2>2. CASE i = at[x].i
    BY <1>2, <2>2
  <2>3. CASE i # at[x].i
    <3>1. i \in 0 .. at[x].i - 1 /\ i \in 0 .. nq(w) - 1
      BY <1>1, <1>2, <2>1, <2>3, Sizes
    <3>2. O[head(w) * seq + (r0(w) + i)] # NotStored
      BY <1>1, <3>1 DEF Progress, IsStored
    <3>3. head(w) * seq + (r0(w) + i) \in Elements
      BY <2>1, <3>1, UnitOf, UnitKeys, ElementOf
    <3> QED
      BY <1>3, <3>2, <3>3
  <2> QED
    BY <2>2, <2>3
<1>6. head(w)' = head(w) /\ r0(w)' = r0(w)
  BY <1>1 DEF head, r0, qtiles
<1>7. \A i \in 0 .. at'[x].i - 1 : IsStored(at[x].w, i)'
  BY <1>1, <1>5, <1>6 DEF IsStored
<1>8. pc[x] # "pull"
  BY <1>1
<1> QED
  BY <1>1, <1>3, <1>4, <1>7, <1>8, KeepsProgress

LEMMA UnitProgress ==
  ASSUME Control, Running, Progress, NEW x \in Threads,
         Begin(x) \/ Key(x) \/ NextRow(x) \/ NextTile(x)
  PROVE  Progress'
<1>1. Shape
  BY DEF Control
<1>2. UNCHANGED O
  BY DEF Begin, Key, NextRow, NextTile
<1>3. \A y \in Threads, c \in 0 .. chunks - 1 : Holds(y, c)' <=> Holds(y, c)
  BY BeginLoops, KeyLoops, NextRowLoops, NextTileLoops
<1>4. /\ Only(x) /\ next' = next /\ pc[x] # "pull" /\ at'[x].w = at[x].w
      /\ pc'[x] = "store" => at'[x].i = 0
  <2>1. CASE Begin(x)
    BY <1>1, <2>1, BeginStep, AtParts
  <2>2. CASE Key(x)
    BY <1>1, <2>2, KeyStep, AtParts
  <2>3. CASE NextRow(x)
    BY <1>1, <2>3, NextRowStep, AtParts
  <2>4. CASE NextTile(x)
    BY <1>1, <2>4, NextTileStep, AtParts
  <2> QED
    BY <2>1, <2>2, <2>3, <2>4
<1>5. pc'[x] = "store" => \A i \in 0 .. at'[x].i - 1 : IsStored(at[x].w, i)'
  BY <1>4
<1> QED
  BY <1>2, <1>3, <1>4, <1>5, KeepsProgress

(* A unit that ends is done,                                               *)
LEMMA EndUnitProgress ==
  ASSUME Control, Running, Progress, NEW x \in Threads, EndUnit(x)
  PROVE  Progress'
<1> DEFINE w == at[x].w
<1>1. /\ Shape /\ Only(x) /\ UNCHANGED <<next, O>> /\ pc[x] = "store" /\ pc'[x] = "unit"
      /\ at[x].i >= nq(w) /\ at'[x] = At(w + 1, at[x].w1, at[x].j0, at[x].i, at[x].j)
  BY EndUnitStep DEF Control
<1>2. at'[x].w = w + 1
  BY <1>1 DEF At
<1>3. /\ UNCHANGED <<seq, causal>> /\ total' = total /\ len' = len
      /\ \A u, i : IsStored(u, i)' = IsStored(u, i)
      /\ \A u : Done(u)' = Done(u)
  BY <1>1, SameCall DEF Only, IsStored, Done
<1>4. \A y \in Threads, c \in 0 .. chunks - 1 : Holds(y, c)' <=> Holds(y, c)
  BY EndUnitLoops
<1>5. Done(w)
  <2>1. at[x].i \in 0 .. nq(w) /\ nq(w) \in 1 .. QBLK
    BY <1>1, Position DEF Busy, InLoops
  <2>2. at[x].i = nq(w)
    BY <1>1, <2>1, Sizes
  <2> QED
    BY <1>1, <2>2 DEF Progress, Done
<1>6. ASSUME NEW c \in 0 .. next - 1, NEW u \in ChunkSet(c, total, len),
             \A y \in Threads : Holds(y, c)' => u < at'[y].w
      PROVE  Done(u)
  <2>1. c \in 0 .. chunks - 1 /\ u \in 0 .. total - 1
    BY <1>1, ChunkUnits
  <2>2. CASE u = w
    BY <1>5, <2>2
  <2>3. CASE u # w
    <3>1. ASSUME NEW y \in Threads, Holds(y, c) PROVE u < at[y].w
      <4>1. u < at'[y].w
        BY <1>4, <1>6, <2>1, <3>1
      <4>2. CASE y = x
        BY <1>1, <1>2, <2>1, <2>3, <4>1, <4>2, Place
      <4>3. CASE y # x
        BY <1>1, <4>1, <4>3 DEF Only
      <4> QED
        BY <4>2, <4>3
    <3> QED
      BY <3>1 DEF Progress
  <2> QED
    BY <2>2, <2>3
<1>7. \A y \in Threads : pc'[y] = "store" => pc[y] = "store" /\ at'[y] = at[y]
  BY <1>1 DEF Only
<1>8. ~returned /\ ~returned'
  BY <1>1 DEF Progress, Only
<1> QED
  BY <1>1, <1>3, <1>6, <1>7, <1>8 DEF Progress

(* a chunk that ends has none left to do,                                  *)
LEMMA EndChunkProgress ==
  ASSUME Control, Running, Progress, NEW x \in Threads, EndChunk(x)
  PROVE  Progress'
<1>1. /\ Shape /\ Handed /\ Only(x) /\ UNCHANGED <<next, O>>
      /\ pc[x] = "unit" /\ pc'[x] = "pull" /\ at[x].w >= at[x].w1
  BY EndChunkStep DEF Control
<1>2. /\ UNCHANGED <<seq, causal>> /\ total' = total /\ len' = len
      /\ \A u, i : IsStored(u, i)' = IsStored(u, i)
      /\ \A u : Done(u)' = Done(u)
  BY <1>1, SameCall DEF Only, IsStored, Done
<1>3. \A y \in Threads : \A c : y # x => (Holds(y, c)' <=> Holds(y, c))
  BY <1>1, EndChunkHanded
<1>4. ASSUME NEW c \in 0 .. next - 1, NEW u \in ChunkSet(c, total, len),
             \A y \in Threads : Holds(y, c)' => u < at'[y].w
      PROVE  Done(u)
  <2>1. c \in 0 .. chunks - 1 /\ u \in 0 .. total - 1
    BY <1>1, ChunkUnits
  <2>2. ASSUME NEW y \in Threads, Holds(y, c) PROVE u < at[y].w
    <3>1. CASE y = x
      <4>1. u < at[x].w1
        <5>1. at[x].w1 = ChunkHi(c, total, len) /\ ChunkHi(c, total, len) \in Nat
              /\ ChunkLo(c, len) \in Nat
          BY <1>1, <2>1, <2>2, <3>1, ChunkOf DEF Holds, Shape
        <5> QED
          BY <5>1 DEF ChunkSet
      <4> QED
        BY <1>1, <2>1, <3>1, <4>1, Place
    <3>2. CASE y # x
      BY <1>1, <1>3, <1>4, <2>2, <3>2 DEF Only
    <3> QED
      BY <3>1, <3>2
  <2> QED
    BY <2>2 DEF Progress
<1>5. \A y \in Threads : pc'[y] = "store" => pc[y] = "store" /\ at'[y] = at[y]
  BY <1>1 DEF Only
<1>6. ~returned /\ ~returned'
  BY <1>1 DEF Progress, Only
<1> QED
  BY <1>1, <1>2, <1>4, <1>5, <1>6 DEF Progress

(* and a new one has all of them.                                          *)
LEMMA PullProgress ==
  ASSUME Control, Running, Progress, NEW x \in Threads, Pull(x)
  PROVE  Progress'
<1>1. /\ Shape /\ Handed /\ Only(x) /\ UNCHANGED O
      /\ next \in 0 .. chunks - 1 /\ next' = next + 1 /\ pc[x] = "pull" /\ pc'[x] = "unit"
      /\ at'[x] = At(ChunkLo(next, len), ChunkHi(next, total, len), 0, 0, 0)
  BY PullStep DEF Control
<1>2. /\ UNCHANGED <<seq, causal>> /\ total' = total /\ len' = len /\ chunks' = chunks
      /\ \A u, i : IsStored(u, i)' = IsStored(u, i)
      /\ \A u : Done(u)' = Done(u)
  BY <1>1, SameCall DEF Only, IsStored, Done
<1>3. /\ \A c \in 0 .. chunks - 1 : Holds(x, c)' <=> c = next
      /\ \A y \in Threads, c \in 0 .. chunks - 1 : y # x =>
           (Holds(y, c)' <=> Holds(y, c))
  BY <1>1, PullHanded
<1>4. chunks \in Nat /\ next \in Nat /\ next < chunks
  BY <1>1, Split DEF Shape
<1>5. ASSUME NEW c \in 0 .. next, NEW u \in ChunkSet(c, total, len),
             \A y \in Threads : Holds(y, c)' => u < at'[y].w
      PROVE  Done(u)
  <2>1. c \in 0 .. chunks - 1
    BY <1>4
  <2>2. CASE c = next
    <3>1. u < at'[x].w
      BY <1>3, <1>5, <2>1, <2>2
    <3>2. at'[x].w = ChunkLo(c, len)
      BY <1>1, <2>2 DEF At
    <3>3. ChunkLo(c, len) \in Nat /\ ChunkHi(c, total, len) \in Nat
      BY <1>1, <2>1, ChunkOf DEF Shape
    <3> QED
      BY <3>1, <3>2, <3>3 DEF ChunkSet
  <2>3. CASE c # next
    <3>1. c \in 0 .. next - 1
      BY <1>4, <2>3
    <3>2. ASSUME NEW y \in Threads, Holds(y, c) PROVE u < at[y].w
      <4>1. y # x
        BY <1>1, <3>2 DEF Holds
      <4> QED
        BY <1>1, <1>3, <1>5, <2>1, <3>2, <4>1 DEF Only
    <3> QED
      BY <3>1, <3>2 DEF Progress
  <2> QED
    BY <2>2, <2>3
<1>6. \A y \in Threads : pc'[y] = "store" => pc[y] = "store" /\ at'[y] = at[y]
  BY <1>1 DEF Only
<1>7. ~returned /\ ~returned'
  <2>1. ~(next >= chunks)
    BY <1>4
  <2> QED
    BY <1>1, <2>1 DEF Progress, Only
<1>8. 0 .. next' - 1 = 0 .. next
  BY <1>1, <1>4
<1> QED
  BY <1>2, <1>5, <1>6, <1>7, <1>8 DEF Progress

LEMMA ReturnInductive ==
  ASSUME Inductive, Return \/ UNCHANGED vars
  PROVE  Inductive'
<1>1. /\ UNCHANGED <<seq, causal, next, pc, at, reg, O>>
      /\ returned' # returned =>
           next >= chunks /\ \A x \in Threads : pc[x] = "pull"
      /\ returned' \in BOOLEAN
  BY DEF Return, vars, Inductive, Control, Shape
<1>2. /\ qtiles' = qtiles /\ total' = total /\ len' = len /\ chunks' = chunks
      /\ \A u : /\ head(u)' = head(u) /\ r0(u)' = r0(u) /\ r1(u)' = r1(u)
                /\ nq(u)' = nq(u) /\ kv_end(u)' = kv_end(u)
  BY <1>1, SameCall
<1>3. Shape'
  BY <1>1, <1>2 DEF Inductive, Control, Shape
<1>4. \A x \in Threads : Busy(x)' = Busy(x) /\ \A c : Holds(x, c)' = Holds(x, c)
  BY <1>1, <1>2 DEF Holds, Busy
<1>5. Handed'
  BY <1>1, <1>4 DEF Inductive, Control, Handed
<1>6. \A x \in Threads : /\ nq(at[x].w)' = nq(at[x].w) /\ kv_end(at[x].w)' = kv_end(at[x].w)
                         /\ head(at[x].w)' = head(at[x].w) /\ r0(at[x].w)' = r0(at[x].w)
  BY <1>1, <1>2 DEF nq, r0, r1, head, kv_end, qtiles
<1>7. \A x \in Threads : InLoops(x)' = InLoops(x)
  BY <1>1, <1>6 DEF InLoops
<1>8. Counters'
  BY <1>4, <1>7 DEF Inductive, Control, Counters
<1>9. \A x \in Threads : \A i : IsSum(reg[x][i], x, i)' = IsSum(reg[x][i], x, i)
  <2> TAKE x \in Threads
  <2> TAKE i
  <2>1. UNCHANGED <<seq, causal, at, pc, reg>> /\ r0(at[x].w)' = r0(at[x].w)
        /\ head(at[x].w)' = head(at[x].w)
    BY <1>1, <1>6
  <2>2. Upto(x, i)' = Upto(x, i) /\ RowKeys(x, i)' = RowKeys(x, i)
        /\ Scores(x, i)' = Scores(x, i)
    BY <2>1 DEF Upto, RowKeys, Scores
  <2> QED
    BY <2>1, <2>2 DEF IsSum, Before
<1>10. Running'
  BY <1>4, <1>6, <1>9 DEF Inductive, Running
<1>11. Correct'
  BY <1>1, SameOutput DEF Inductive
<1>12. /\ \A u, i : IsStored(u, i)' = IsStored(u, i)
       /\ \A u : Done(u)' = Done(u)
       /\ \A x \in Threads : \A i : IsStored(at[x].w, i)' = IsStored(at[x].w, i)
  BY <1>1, <1>2, <1>6 DEF IsStored, Done
<1>13. Progress'
  BY <1>1, <1>2, <1>4, <1>12 DEF Inductive, Progress
<1> QED
  BY <1>3, <1>5, <1>8, <1>10, <1>11, <1>13 DEF Inductive, Control

LEMMA InitInductive == Init => Inductive
<1> SUFFICES ASSUME Init PROVE Inductive
  OBVIOUS
<1>1. /\ seq \in 0 .. MaxSeq /\ causal \in BOOLEAN /\ next = 0 /\ returned = FALSE
      /\ pc = [x \in Threads |-> "pull"] /\ at = [x \in Threads |-> Idle]
      /\ reg = [x \in Threads |-> Fresh] /\ O = [e \in Elements |-> NotStored]
  BY DEF Init
<1>2. chunks \in Nat
  BY <1>1, Split
<1>3. Idle \in Counts
  BY DEF Idle, Counts
<1>4. reg = [x \in Threads |-> [i \in 0 .. QBLK - 1 |-> reg[x][i]]]
  BY <1>1 DEF Fresh
<1>5. Shape
  <2>1. pc \in [Threads -> {"pull", "unit", "keys", "store"}] /\ at \in [Threads -> Counts]
    BY <1>1, <1>3
  <2>2. O = [e \in Elements |-> O[e]]
    BY <1>1
  <2>3. next \in 0 .. chunks
    <3>1. next = 0
      BY <1>1
    <3> QED
      BY <1>2, <3>1
  <2>4. seq \in 0 .. MaxSeq
    BY <1>1
  <2> QED
    BY <1>1, <1>4, <2>1, <2>2, <2>3, <2>4 DEF Shape
<1>6. \A x \in Threads : pc[x] = "pull"
  BY <1>1
<1>7. Handed /\ Counters /\ Running
  BY <1>6 DEF Handed, Holds, Counters, Running, Busy
<1>8. Correct
  BY <1>1 DEF Correct
<1>9. Progress
  BY <1>1, <1>6 DEF Progress
<1> QED
  BY <1>5, <1>7, <1>8, <1>9 DEF Inductive, Control

LEMMA NextInductive == Inductive /\ [Next]_vars => Inductive'
<1> SUFFICES ASSUME Inductive, [Next]_vars PROVE Inductive'
  OBVIOUS
<1>1. Control /\ Running /\ Correct /\ Progress
  BY DEF Inductive
<1>2. ASSUME NEW x \in Threads, Pull(x) PROVE Inductive'
  BY <1>1, <1>2, PullLoops, SameOutput, PullProgress DEF Inductive, Pull
<1>3. ASSUME NEW x \in Threads, Begin(x) PROVE Inductive'
  BY <1>1, <1>3, BeginLoops, SameOutput, UnitProgress DEF Inductive, Begin
<1>4. ASSUME NEW x \in Threads, Key(x) PROVE Inductive'
  BY <1>1, <1>4, KeyLoops, SameOutput, UnitProgress DEF Inductive, Key
<1>5. ASSUME NEW x \in Threads, NextRow(x) PROVE Inductive'
  BY <1>1, <1>5, NextRowLoops, SameOutput, UnitProgress DEF Inductive, NextRow
<1>6. ASSUME NEW x \in Threads, NextTile(x) PROVE Inductive'
  BY <1>1, <1>6, NextTileLoops, SameOutput, UnitProgress DEF Inductive, NextTile
<1>7. ASSUME NEW x \in Threads, Store(x) PROVE Inductive'
  BY <1>1, <1>7, StoreLoops, StoreOutput, StoreProgress DEF Inductive
<1>8. ASSUME NEW x \in Threads, EndUnit(x) PROVE Inductive'
  BY <1>1, <1>8, EndUnitLoops, SameOutput, EndUnitProgress DEF Inductive, EndUnit
<1>9. ASSUME NEW x \in Threads, EndChunk(x) PROVE Inductive'
  BY <1>1, <1>9, EndChunkLoops, SameOutput, EndChunkProgress DEF Inductive, EndChunk
<1>10. CASE Return \/ UNCHANGED vars
  BY <1>10, ReturnInductive
<1> QED
  BY <1>2, <1>3, <1>4, <1>5, <1>6, <1>7, <1>8, <1>9, <1>10
  DEF Next, Thread, Unit, Finished

(* The inductive invariant of the program.                                 *)
THEOREM Invariance == Spec => []Inductive
BY InitInductive, NextInductive, PTL DEF Spec

(* The counters stay within the blocks, the keys within the sequence, and  *)
(* nothing is stored beyond the rows of the call.                          *)
THEOREM TypeCorrect == Spec => []TypeOK
<1>1. Inductive => TypeOK
  <2> SUFFICES ASSUME Inductive PROVE TypeOK
    OBVIOUS
  <2>1. Control /\ Correct /\ Shape
    BY DEF Inductive, Control
  <2>2. next \in 0 .. chunks /\ returned \in BOOLEAN
    BY <2>1 DEF Shape
  <2>3. ASSUME NEW x \in Threads, Busy(x)
        PROVE  /\ at[x].w \in 0 .. total - 1 /\ at[x].i \in 0 .. QBLK
               /\ at[x].j \in 0 .. KBLK
               /\ at[x].i < nq(at[x].w) => row(x) < seq
               /\ pc[x] = "keys" /\ ~RowDone(x) => key(x) < seq
    <3>1. /\ InLoops(x) /\ at[x].w \in 0 .. total - 1 /\ seq \in 0 .. MaxSeq
          /\ nq(at[x].w) \in 1 .. QBLK /\ at[x].i \in Nat /\ causal \in BOOLEAN
      BY <2>1, <2>3, Position
    <3>2. at[x].i \in 0 .. QBLK /\ at[x].j \in 0 .. KBLK
      BY <3>1, Sizes DEF InLoops
    <3>3. ASSUME at[x].i < nq(at[x].w) PROVE row(x) < seq
      <4>1. at[x].i \in 0 .. nq(at[x].w) - 1
        BY <3>1, <3>3, Sizes
      <4>2. r0(at[x].w) + at[x].i \in 0 .. seq - 1
        BY <3>1, <4>1, UnitKeys
      <4> QED
        BY <3>1, <4>2, Sizes DEF row
    <3>4. ASSUME pc[x] = "keys", ~RowDone(x) PROVE key(x) < seq
      <4>1. CASE at[x].i < nq(at[x].w)
        <5>1. key(x) \in RowKeys(x, at[x].i)
          BY <2>1, <3>4, <4>1, KeyOf
        <5> QED
          BY <3>1, <5>1, Sizes DEF RowKeys, Visible
      <4>2. CASE at[x].i = nq(at[x].w)
        <5>1. /\ at[x].j = 0 /\ at[x].j0 < kv_end(at[x].w)
              /\ at[x].j0 \in Nat /\ kv_end(at[x].w) \in 1 .. seq /\ seq \in Nat
          BY <2>1, <2>3, <3>1, <3>4, <4>2, Position, Sizes DEF InLoops
        <5> QED
          BY <5>1 DEF key
      <4> QED
        BY <3>1, <4>1, <4>2 DEF InLoops
    <3> QED
      BY <3>1, <3>2, <3>3, <3>4
  <2>4. ASSUME NEW e \in Elements, O[e] # NotStored PROVE e < Heads * seq
    <3>1. PICK h \in 0 .. Heads - 1, t \in 0 .. seq - 1 : e = h * seq + t
      BY <2>1, <2>4 DEF Correct
    <3>2. seq \in 0 .. MaxSeq
      BY <2>1 DEF Shape
    <3> QED
      BY <3>1, <3>2, ElementOf
  <2> QED
    BY <2>2, <2>3, <2>4 DEF TypeOK
<1> QED
  BY <1>1, Invariance, PTL

(* No element of O belongs to the units of two threads at once.            *)
THEOREM NoSharedRowHolds == Spec => []NoSharedRow
<1>1. Inductive => NoSharedRow
  <2> SUFFICES ASSUME Inductive, NEW x \in Threads, NEW y \in Threads, x # y,
                      Busy(x), Busy(y), NEW e, e \in RowsOf(x), e \in RowsOf(y)
               PROVE  FALSE
    BY DEF NoSharedRow
  <2>1. Control /\ Shape /\ Handed /\ seq \in 0 .. MaxSeq /\ causal \in BOOLEAN
    BY DEF Inductive, Control, Shape
  <2>2. ASSUME NEW z \in Threads, Busy(z), e \in RowsOf(z)
        PROVE  /\ at[z].w \in 0 .. total - 1
               /\ \E i \in 0 .. nq(at[z].w) - 1 :
                    e = head(at[z].w) * seq + (r0(at[z].w) + i)
    <3>1. at[z].w \in 0 .. total - 1 /\ nq(at[z].w) \in 1 .. QBLK
      BY <2>1, <2>2, Position
    <3>2. r0(at[z].w) \in Nat /\ r0(at[z].w) + nq(at[z].w) = r1(at[z].w)
      BY <2>1, <3>1, UnitOf
    <3>3. PICK r \in r0(at[z].w) .. r1(at[z].w) - 1 : e = head(at[z].w) * seq + r
      BY <2>2 DEF RowsOf
    <3>4. r - r0(at[z].w) \in 0 .. nq(at[z].w) - 1
          /\ r = r0(at[z].w) + (r - r0(at[z].w))
      BY <3>1, <3>2, Sizes
    <3> QED
      BY <3>1, <3>3, <3>4
  <2>3. PICK i \in 0 .. nq(at[x].w) - 1 : e = head(at[x].w) * seq + (r0(at[x].w) + i)
    BY <2>2
  <2>4. PICK j \in 0 .. nq(at[y].w) - 1 : e = head(at[y].w) * seq + (r0(at[y].w) + j)
    BY <2>2
  <2>5. at[x].w = at[y].w
    <3>1. at[x].w \in 0 .. total - 1 /\ at[y].w \in 0 .. total - 1
      BY <2>2
    <3> QED
      BY <2>1, <2>3, <2>4, <3>1, UnitsApart
  <2>6. pc[x] # "pull" /\ pc[y] # "pull"
    BY DEF Busy
  <2>7. PICK c \in 0 .. next - 1 :
          c \in 0 .. chunks - 1 /\ Holds(x, c) /\ at[x].w \in ChunkSet(c, total, len)
    BY <2>1, <2>6, HeldChunk
  <2>8. PICK d \in 0 .. next - 1 :
          d \in 0 .. chunks - 1 /\ Holds(y, d) /\ at[y].w \in ChunkSet(d, total, len)
    BY <2>1, <2>6, HeldChunk
  <2>9. c = d
    <3>1. total \in Int /\ len \in Int /\ len > 0 /\ c \in Nat /\ d \in Nat
      BY <2>1, <2>7, <2>8, ChunkOf
    <3> QED
      BY <2>5, <2>7, <2>8, <3>1, ChunksDisjoint
  <2> QED
    BY <2>1, <2>7, <2>8, <2>9 DEF Handed
<1> QED
  BY <1>1, Invariance, PTL

(* Every row stored is the reference softmax; at return all of them are.   *)
THEOREM RowsCorrectHolds == Spec => []RowsCorrect
<1>1. Inductive => RowsCorrect
  <2> SUFFICES ASSUME Inductive, NEW h \in 0 .. Heads - 1, NEW t \in 0 .. seq - 1
               PROVE  /\ O[h * seq + t] # NotStored => IsReference(h, t, O[h * seq + t])
                      /\ returned => O[h * seq + t] # NotStored
    BY DEF RowsCorrect
  <2>1. Control /\ Shape /\ Correct /\ Progress /\ seq \in 0 .. MaxSeq /\ causal \in BOOLEAN
    BY DEF Inductive, Control, Shape
  <2>2. /\ h * seq + t \in Elements
        /\ \A g \in 0 .. Heads - 1, s \in 0 .. seq - 1 :
             g * seq + s = h * seq + t => g = h /\ s = t
    BY <2>1, ElementOf
  <2>3. ASSUME O[h * seq + t] # NotStored PROVE IsReference(h, t, O[h * seq + t])
    <3>1. PICK g \in 0 .. Heads - 1, s \in 0 .. seq - 1 :
            h * seq + t = g * seq + s /\ IsReference(g, s, O[h * seq + t])
      BY <2>1, <2>2, <2>3 DEF Correct
    <3> QED
      BY <2>2, <3>1
  <2>4. ASSUME returned PROVE O[h * seq + t] # NotStored
    <3>1. PICK u \in 0 .. total - 1 : \E i \in 0 .. nq(u) - 1 :
            head(u) = h /\ r0(u) + i = t
      BY <2>1, UnitOfRow
    <3>2. PICK i \in 0 .. nq(u) - 1 : head(u) = h /\ r0(u) + i = t
      BY <3>1
    <3>3. PICK c \in 0 .. next - 1 : u \in ChunkSet(c, total, len)
      <4>1. total \in Nat /\ u \in Nat /\ u < total
        BY <2>1, Tiles
      <4>2. total \in Int /\ len \in Int /\ len > 0 /\ total <= chunks * len
            /\ chunks \in Int
        BY <2>1, <4>1, Split
      <4>3. PICK c \in 0 .. chunks - 1 : u \in ChunkSet(c, total, len)
        BY <4>1, <4>2, ChunksCover
      <4>4. next = chunks
        BY <2>1, <2>4, Split DEF Progress, Shape
      <4> QED
        BY <4>3, <4>4
    <3>4. \A x \in Threads : ~Holds(x, c)
      BY <2>1, <2>4 DEF Progress, Holds
    <3>5. Done(u)
      BY <2>1, <3>3, <3>4 DEF Progress
    <3> QED
      BY <3>2, <3>5 DEF Done, IsStored
  <2> QED
    BY <2>3, <2>4
<1> QED
  BY <1>1, Invariance, PTL
-----------------------------------------------------------------------------
(* The refinement: handing out a chunk and computing its units changes     *)
(* nothing of what a user of parallel_for sees; the end of a chunk is the  *)
(* application of the function to it.                                      *)
LEMMA UnitsBounded ==
  ASSUME seq \in 0 .. MaxSeq
  PROVE  total \in Nat /\ MaxUnits \in Nat /\ total <= MaxUnits
<1> DEFINE p == CeilDiv(MaxSeq, QBLK)
<1>1. qtiles <= p /\ qtiles \in Nat /\ p \in Int /\ total \in Nat
  BY Tiles, CeilDivMono, Sizes DEF qtiles, CeilDiv
<1> HIDE DEF p
<1>2. p \in Nat
  BY <1>1
<1>3. qtiles * Heads <= p * Heads /\ qtiles * Heads = Heads * qtiles
      /\ p * Heads = Heads * p
  BY <1>1, Sizes, TimesMono
<1>4. 0 * Heads <= p * Heads /\ 0 * Heads = 0 /\ p * Heads \in Int
  BY <1>1, <1>2, Sizes, TimesMono
<1>5. total = Heads * qtiles /\ MaxUnits = Heads * p
  BY DEF total, MaxUnits, p
<1> QED
  BY <1>1, <1>3, <1>4, <1>5

(* The chunk of a unit.                                                    *)
LEMMA ChunkNumber ==
  ASSUME seq \in 0 .. MaxSeq, NEW u \in 0 .. total - 1
  PROVE  /\ u \div len \in 0 .. chunks - 1
         /\ \A c \in 0 .. chunks - 1 : u \in ChunkSet(c, total, len) <=> c = u \div len
<1>1. total \in Nat /\ u \in Nat /\ u < total
  BY Tiles
<1>2. len \in Nat \ {0} /\ total <= chunks * len /\ chunks \in Nat
  BY <1>1, Split
<1>3. ASSUME NEW c \in 0 .. chunks - 1, u \in ChunkSet(c, total, len)
      PROVE  u \div len = c
  <2> DEFINE b == c * len
  <2>1. c \in Nat /\ b = len * c /\ b \in Int
    BY <1>2
  <2>2. u \in b .. MinOf(b + len, total) - 1
    BY <1>3 DEF ChunkSet, ChunkLo, ChunkHi
  <2> HIDE DEF b
  <2>3. b <= u /\ u < b + len
    BY <1>1, <1>2, <2>1, <2>2 DEF MinOf
  <2> QED
    BY <1>1, <1>2, <2>1, <2>3, DivUnique
<1>4. PICK c \in 0 .. chunks - 1 : u \in ChunkSet(c, total, len)
  <2>1. total \in Int /\ len \in Int /\ len > 0 /\ chunks \in Int
    BY <1>1, <1>2
  <2> QED
    BY <1>1, <1>2, <2>1, ChunksCover
<1> QED
  BY <1>3, <1>4

LEMMA QuietUnits ==
  ASSUME UNCHANGED <<seq, causal, returned>>,
         \A u \in 0 .. MaxUnits - 1 : Applied(u)' <=> Applied(u)
  PROVE  UNCHANGED Units!vars
<1>1. total' = total
  BY SameCall
<1> QED
  BY <1>1 DEF Units!vars

LEMMA PullUnits ==
  ASSUME Inductive, NEW x \in Threads, Pull(x)
  PROVE  UNCHANGED Units!vars
<1>1. /\ Only(x) /\ next \in 0 .. chunks - 1 /\ next' = next + 1 /\ pc[x] = "pull"
      /\ at'[x] = At(ChunkLo(next, len), ChunkHi(next, total, len), 0, 0, 0)
      /\ pc'[x] = "unit" /\ seq \in 0 .. MaxSeq
  BY PullStep DEF Inductive, Control, Shape
<1>2. total' = total /\ len' = len /\ UNCHANGED <<seq, causal, returned>>
  BY <1>1, SameCall DEF Only
<1>3. chunks \in Nat /\ next \in Nat
  BY <1>1, Split
<1>4. \A y \in Threads : \A c : y # x => (InChunk(y, c)' <=> InChunk(y, c))
  BY <1>1, <1>2 DEF Only, InChunk
<1>5. \A c : ~InChunk(x, c)
  BY <1>1 DEF InChunk
<1>6. at'[x].w1 = ChunkHi(next, total, len)
  BY <1>1 DEF At
<1>7. \A c \in 0 .. chunks - 1 : InChunk(x, c)' <=> c = next
  <2> TAKE c \in 0 .. chunks - 1
  <2>1. InChunk(x, c)' <=> ChunkHi(next, total, len) = ChunkHi(c, total, len)
    BY <1>1, <1>2, <1>6 DEF InChunk
  <2> QED
    BY <1>1, <2>1, ChunkHiUnique
<1>8. ASSUME NEW u \in 0 .. MaxUnits - 1
      PROVE  Applied(u)' <=> Applied(u)
  <2>1. CASE ~(u < total)
    BY <1>2, <2>1 DEF Applied
  <2>2. CASE u < total
    <3>1. u \in 0 .. total - 1 /\ total \in Nat
      BY <1>1, <2>2, UnitsBounded
    <3>2. PICK c \in 0 .. chunks - 1 : c = u \div len
      BY <1>1, <3>1, ChunkNumber
    <3>3. Applied(u) <=> c < next /\ \A y \in Threads : ~InChunk(y, c)
      BY <2>2, <3>2 DEF Applied
    <3>4. Applied(u)' <=> c < next' /\ \A y \in Threads : ~InChunk(y, c)'
      BY <1>2, <2>2, <3>2 DEF Applied, InChunk
    <3>5. CASE c = next
      BY <1>3, <1>7, <3>2, <3>3, <3>4, <3>5
    <3>6. CASE c # next
      <4>1. \A y \in Threads : InChunk(y, c)' <=> InChunk(y, c)
        BY <1>4, <1>5, <1>7, <3>2, <3>6
      <4>2. c < next' <=> c < next
        BY <1>1, <1>3, <3>2, <3>6
      <4> QED
        BY <3>3, <3>4, <4>1, <4>2
    <3> QED
      BY <3>5, <3>6
  <2> QED
    BY <2>1, <2>2
<1> QED
  BY <1>2, <1>8, QuietUnits

LEMMA UnitSteps ==
  ASSUME Inductive, NEW x \in Threads, Unit(x)
  PROVE  UNCHANGED Units!vars
<1>1. Shape
  BY DEF Inductive, Control
<1>2. /\ Only(x) /\ next' = next /\ pc[x] # "pull" /\ pc'[x] # "pull"
      /\ at'[x].w1 = at[x].w1
  <2>1. \A w, w1, j0, i, j : At(w, w1, j0, i, j).w1 = w1
    BY DEF At
  <2>2. CASE Begin(x)
    BY <1>1, <2>1, <2>2, BeginStep
  <2>3. CASE Key(x)
    BY <1>1, <2>1, <2>3, KeyStep
  <2>4. CASE NextRow(x)
    BY <1>1, <2>1, <2>4, NextRowStep
  <2>5. CASE NextTile(x)
    BY <1>1, <2>1, <2>5, NextTileStep
  <2>6. CASE Store(x)
    BY <1>1, <2>1, <2>6, StoreStep
  <2>7. CASE EndUnit(x)
    BY <1>1, <2>1, <2>7, EndUnitStep
  <2> QED
    BY <2>2, <2>3, <2>4, <2>5, <2>6, <2>7 DEF Unit
<1>3. total' = total /\ len' = len /\ UNCHANGED <<seq, causal, returned>>
  BY <1>2, SameCall DEF Only
<1>4. \A y \in Threads : \A c : InChunk(y, c)' <=> InChunk(y, c)
  BY <1>2, <1>3 DEF Only, InChunk
<1>5. \A u : Applied(u)' <=> Applied(u)
  <2> TAKE u
  <2> PICK c : c = u \div len
    OBVIOUS
  <2>1. Applied(u) <=> u < total /\ c < next /\ \A y \in Threads : ~InChunk(y, c)
    BY DEF Applied
  <2>2. Applied(u)' <=> u < total /\ c < next /\ \A y \in Threads : ~InChunk(y, c)'
    BY <1>2, <1>3 DEF Applied, InChunk
  <2> QED
    BY <1>4, <2>1, <2>2
<1> QED
  BY <1>3, <1>5, QuietUnits

LEMMA EndChunkUnits ==
  ASSUME Inductive, NEW x \in Threads, EndChunk(x)
  PROVE  Units!ApplySome
<1>1. /\ Shape /\ Handed /\ seq \in 0 .. MaxSeq /\ Only(x) /\ next' = next
      /\ pc[x] = "unit" /\ pc'[x] = "pull"
  BY EndChunkStep DEF Inductive, Control, Shape
<1>2. total' = total /\ len' = len /\ UNCHANGED <<seq, causal, returned>>
  BY <1>1, SameCall DEF Only
<1>3. PICK d \in 0 .. next - 1 : d \in 0 .. chunks - 1 /\ Holds(x, d)
  BY <1>1, HeldChunk
<1> DEFINE b == ChunkLo(d, len)
           e == ChunkHi(d, total, len)
<1>4. b \in Nat /\ e \in Nat /\ b < e /\ e <= total
  BY <1>1, <1>3, ChunkOf
<1>5. \A y \in Threads : \A c : y # x => (InChunk(y, c)' <=> InChunk(y, c))
  BY <1>1, <1>2 DEF Only, InChunk
<1>6. \A c : ~InChunk(x, c)'
  BY <1>1 DEF InChunk
<1>7. \A c \in 0 .. chunks - 1 : InChunk(x, c) <=> c = d
  <2> TAKE c \in 0 .. chunks - 1
  <2>1. InChunk(x, c) <=> ChunkHi(d, total, len) = ChunkHi(c, total, len)
    BY <1>1, <1>3 DEF InChunk, Holds
  <2> QED
    BY <1>1, <1>3, <2>1, ChunkHiUnique
<1>8. \A y \in Threads : InChunk(y, d) => y = x
  <2> SUFFICES ASSUME NEW y \in Threads, InChunk(y, d) PROVE y = x
    OBVIOUS
  <2>1. PICK c \in 0 .. next - 1 : c \in 0 .. chunks - 1 /\ Holds(y, c)
    BY <1>1, HeldChunk DEF InChunk
  <2>2. c = d
    BY <1>1, <1>3, <2>1, ChunkHiUnique DEF InChunk, Holds
  <2> QED
    BY <1>1, <1>3, <2>1, <2>2 DEF Handed
<1>9. ASSUME NEW u \in 0 .. MaxUnits - 1
      PROVE  /\ u \in b .. e - 1 => ~Applied(u) /\ Applied(u)'
             /\ u \notin b .. e - 1 => (Applied(u)' <=> Applied(u))
  <2>1. CASE ~(u < total)
    <3>1. u \notin b .. e - 1
      BY <1>1, <1>4, <2>1, UnitsBounded
    <3> QED
      BY <1>2, <2>1, <3>1 DEF Applied
  <2>2. CASE u < total
    <3>1. u \in 0 .. total - 1 /\ total \in Nat
      BY <1>1, <2>2, UnitsBounded
    <3>2. PICK c \in 0 .. chunks - 1 : c = u \div len /\ (u \in b .. e - 1 <=> d = c)
      BY <1>1, <1>3, <3>1, ChunkNumber DEF ChunkSet
    <3>3. Applied(u) <=> c < next /\ \A y \in Threads : ~InChunk(y, c)
      BY <2>2, <3>2 DEF Applied
    <3>4. Applied(u)' <=> c < next /\ \A y \in Threads : ~InChunk(y, c)'
      BY <1>1, <1>2, <2>2, <3>2 DEF Applied, InChunk
    <3> HIDE DEF b, e
    <3>5. CASE c = d
      <4>1. c < next
        BY <1>1, <1>3, <3>5 DEF Shape
      <4>2. InChunk(x, c) /\ \A y \in Threads : ~InChunk(y, c)'
        BY <1>3, <1>5, <1>6, <1>7, <1>8, <3>5
      <4> QED
        BY <3>2, <3>3, <3>4, <3>5, <4>1, <4>2
    <3>6. CASE c # d
      <4>1. \A y \in Threads : InChunk(y, c)' <=> InChunk(y, c)
        BY <1>5, <1>6, <1>7, <3>2, <3>6
      <4> QED
        BY <3>2, <3>3, <3>4, <3>6, <4>1
    <3> QED
      BY <3>5, <3>6
  <2> QED
    BY <2>1, <2>2
<1>10. total \in Nat /\ MaxUnits \in Nat /\ total <= MaxUnits
  BY <1>1, UnitsBounded
<1>11. ~returned
  BY <1>1 DEF Inductive, Progress
<1> HIDE DEF b, e
<1>12. b \in 0 .. MaxUnits /\ e \in 0 .. MaxUnits
       /\ \A u \in b .. e - 1 : u \in 0 .. MaxUnits - 1
  BY <1>4, <1>10
<1>13. Units!Apply(b, e)
  BY <1>2, <1>4, <1>9, <1>11, <1>12 DEF Units!Apply, Units!Indices
<1> QED
  BY <1>12, <1>13 DEF Units!ApplySome

LEMMA ReturnUnits ==
  ASSUME Inductive, Return
  PROVE  Units!Return
<1>1. /\ Shape /\ seq \in 0 .. MaxSeq /\ next >= chunks /\ ~returned /\ returned' = TRUE
      /\ \A x \in Threads : pc[x] = "pull"
      /\ UNCHANGED <<seq, causal, next, pc, at, reg, O>>
  BY DEF Inductive, Control, Shape, Return
<1>2. total' = total /\ len' = len
  BY <1>1, SameCall
<1>3. \A x \in Threads : \A c : ~InChunk(x, c) /\ ~InChunk(x, c)'
  BY <1>1 DEF InChunk
<1>4. total \in Nat /\ MaxUnits \in Nat /\ total <= MaxUnits
  BY <1>1, UnitsBounded
<1>5. \A u \in 0 .. total - 1 : Applied(u) /\ u \in 0 .. MaxUnits - 1
  <2> TAKE u \in 0 .. total - 1
  <2>1. u \div len \in 0 .. chunks - 1 /\ u < total /\ u \in 0 .. MaxUnits - 1
    BY <1>1, <1>4, ChunkNumber
  <2>2. u \div len < next
    BY <1>1, <2>1, Split DEF Shape
  <2> QED
    BY <1>3, <2>1, <2>2 DEF Applied
<1>6. \A u : Applied(u)' <=> Applied(u)
  BY <1>1, <1>2 DEF Applied, InChunk
<1> QED
  BY <1>1, <1>2, <1>5, <1>6 DEF Units!Return

(* The call is one of parallel_for.                                        *)
THEOREM Refinement == Spec => ImplementsParallelFor
<1> DEFINE Each == UNCHANGED Units!vars \/ Units!Return \/ Units!ApplySome
<1>1. Inductive /\ [Next]_vars => [Each]_vars
  <2> SUFFICES ASSUME Inductive, [Next]_vars PROVE Each \/ UNCHANGED vars
    OBVIOUS
  <2>1. ASSUME NEW x \in Threads, Thread(x) PROVE Each
    BY <2>1, PullUnits, UnitSteps, EndChunkUnits DEF Thread
  <2>2. CASE Return
    BY <2>2, ReturnUnits
  <2>3. CASE UNCHANGED vars
    BY <2>3
  <2> QED
    BY <2>1, <2>2, <2>3 DEF Next, Finished
<1> HIDE DEF Each
<1>2. Spec => [][Each]_vars
  BY <1>1, Invariance, PTL DEF Spec
<1> QED
  BY <1>2 DEF ImplementsParallelFor, Each
=============================================================================
