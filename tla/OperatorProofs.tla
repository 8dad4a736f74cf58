--------------------------- MODULE OperatorProofs ---------------------------
(***************************************************************************)
(* Facts about the operators the models share. What the chunk arithmetic   *)
(* of parallel_for guarantees for every n, min_chunk and thread count: the *)
(* chunks 0 .. count-1 are nonempty, pairwise disjoint and cover [0, n).   *)
(* And what every streaming softmax rests on: rescaling the history by     *)
(* exp(m - mn) is the same as having used mn all along.                    *)
(***************************************************************************)
EXTENDS Chunking, Softmax, FiniteSetTheorems, TLAPS

(* Multiplication by a nonnegative integer is monotonic.                   *)
LEMMA TimesMono ==
  ASSUME NEW a \in Int, NEW b \in Int, NEW d \in Nat, a <= b
  PROVE  a * d <= b * d
  <1>1. (b - a) * d >= 0 BY SMT
  <1>2. (b - a) * d = b * d - a * d BY SMT
  <1> QED BY <1>1, <1>2

(* Quotient and remainder are determined by the range of the remainder.    *)
LEMMA DivUnique ==
  ASSUME NEW a \in Int, NEW n \in Nat \ {0}, NEW q \in Int,
         n * q <= a, a < n * q + n
  PROVE  a \div n = q /\ a % n = a - n * q
  <1> DEFINE e == a \div n
  <1>1. e \in Int /\ n * e <= a /\ a < n * e + n /\ a % n = a - n * e BY SMT
  <1>2. \A b, c \in Int : b < c => n * b + n <= n * c
    <2> TAKE b, c \in Int
    <2>1. b + 1 <= c => (b + 1) * n <= c * n BY TimesMono
    <2>2. (b + 1) * n = n * b + n /\ c * n = n * c BY SMT
    <2> QED BY <2>1, <2>2
  <1>3. ~(e < q) /\ ~(q < e) BY <1>1, <1>2
  <1> QED BY <1>1, <1>3

(* A stride of n keeps the remainder by n,                                 *)
LEMMA StrideRemainder ==
  ASSUME NEW a \in Int, NEW n \in Nat \ {0}
  PROVE  (a + n) % n = a % n
  <1> DEFINE e == a \div n
  <1>1. e \in Int /\ n * e <= a /\ a < n * e + n /\ a % n = a - n * e BY SMT
  <1> HIDE DEF e
  <1>2. n * (e + 1) = n * e + n BY <1>1
  <1>3. (a + n) % n = (a + n) - n * (e + 1)
    <2>1. e + 1 \in Int /\ a + n \in Int BY <1>1
    <2>2. n * (e + 1) <= a + n /\ a + n < n * (e + 1) + n BY <1>1, <1>2
    <2> QED BY <2>1, <2>2, DivUnique
  <1> QED BY <1>1, <1>2, <1>3

(* and skips no number with that remainder.                                *)
LEMMA StrideUnique ==
  ASSUME NEW a \in Int, NEW b \in Int, NEW n \in Nat \ {0},
         a % n = b % n, a <= b, b < a + n
  PROVE  a = b
  <1> DEFINE d == a \div n
             e == b \div n
  <1>1. /\ d \in Int /\ n * d <= a /\ a < n * d + n /\ a % n = a - n * d
        /\ e \in Int /\ n * e <= b /\ b < n * e + n /\ b % n = b - n * e
    BY SMT
  <1>2. CASE d = e BY <1>1, <1>2
  <1>3. CASE d + 1 <= e
    <2>1. (d + 1) * n <= e * n BY <1>1, <1>3, TimesMono
    <2>2. (d + 1) * n = n * d + n /\ e * n = n * e BY <1>1
    <2> QED BY <1>1, <2>1, <2>2
  <1>4. CASE e + 1 <= d
    <2>1. (e + 1) * n <= d * n BY <1>1, <1>4, TimesMono
    <2>2. (e + 1) * n = n * e + n /\ d * n = n * d BY <1>1
    <2> QED BY <1>1, <2>1, <2>2
  <1> QED BY <1>1, <1>2, <1>3, <1>4

(* (a + b - 1) / b is the least number of bs that reach a.                 *)
LEMMA CeilDivBounds ==
  ASSUME NEW a \in Int, NEW b \in Int, a > 0, b > 0
  PROVE  /\ CeilDiv(a, b) \in Int
         /\ CeilDiv(a, b) > 0
         /\ (CeilDiv(a, b) - 1) * b < a
         /\ a <= CeilDiv(a, b) * b
  <1> DEFINE q == CeilDiv(a, b)
  <1>1. q \in Int BY DEF CeilDiv
  <1>2. b * q <= a + b - 1 /\ a + b - 1 < b * q + b BY SMT DEF CeilDiv
  <1>3. (q - 1) * b = b * q - b /\ q * b = b * q BY <1>1, SMT
  <1>4. (q - 1) * b < a /\ a <= q * b BY <1>1, <1>2, <1>3
  <1>5. q > 0
    <2>1. SUFFICES ASSUME q <= 0 PROVE FALSE BY <1>1
    <2>2. q * b <= 0 * b BY <1>1, <2>1, TimesMono
    <2> QED BY <1>1, <1>4, <2>2
  <1> QED BY <1>1, <1>4, <1>5

(* More of them for a larger number.                                       *)
LEMMA CeilDivMono ==
  ASSUME NEW a \in Int, NEW c \in Int, NEW b \in Int, b > 0, a <= c
  PROVE  CeilDiv(a, b) <= CeilDiv(c, b)
  <1> DEFINE q == CeilDiv(a, b)
             p == CeilDiv(c, b)
  <1>1. q \in Int /\ p \in Int BY DEF CeilDiv
  <1>2. b * q <= a + b - 1 /\ c + b - 1 < b * p + b BY SMT DEF CeilDiv
  <1> HIDE DEF p, q
  <1>3. SUFFICES ASSUME p + 1 <= q PROVE FALSE BY <1>1 DEF p, q
  <1>4. (p + 1) * b <= q * b BY <1>1, <1>3, TimesMono
  <1>5. (p + 1) * b = b * p + b /\ q * b = b * q BY <1>1
  <1> QED BY <1>1, <1>2, <1>4, <1>5

(* Quotient and remainder of a number of a * b ones: a row of a by b.      *)
LEMMA Quotient ==
  ASSUME NEW a \in Nat, NEW b \in Nat \ {0}, NEW x \in Nat, x < a * b
  PROVE  /\ x \div b \in 0 .. a - 1 /\ x % b \in 0 .. b - 1
         /\ x = (x \div b) * b + (x % b)
  <1> DEFINE q == x \div b
             r == x % b
  <1>1. q \in Int /\ r \in 0 .. b - 1 /\ x = b * q + r BY SMT
  <1> HIDE DEF q, r
  <1>2. q * b = b * q BY <1>1
  <1>3. CASE q < 0
    <2>1. (q + 1) * b <= 0 * b BY <1>1, <1>3, TimesMono
    <2>2. (q + 1) * b = q * b + b /\ 0 * b = 0 BY <1>1
    <2> QED BY <1>1, <1>2, <2>1, <2>2
  <1>4. CASE q >= a
    <2>1. a * b <= q * b BY <1>1, <1>4, TimesMono
    <2>2. a * b \in Int /\ q * b \in Int BY <1>1
    <2> QED BY <1>1, <1>2, <2>1, <2>2
  <1>5. q \in 0 .. a - 1 BY <1>1, <1>3, <1>4
  <1> QED BY <1>1, <1>2, <1>5 DEF q, r

(* The tiles of b rows that a rows are cut into begin below a,             *)
LEMMA TileBegins ==
  ASSUME NEW a \in Nat \ {0}, NEW b \in Nat \ {0}, NEW q \in 0 .. CeilDiv(a, b) - 1
  PROVE  /\ q \in Nat /\ q * b \in Nat /\ (q + 1) * b = q * b + b
         /\ q * b < a
  <1>1. CeilDiv(a, b) \in Int /\ (CeilDiv(a, b) - 1) * b < a BY CeilDivBounds
  <1>2. q \in Nat /\ q * b <= (CeilDiv(a, b) - 1) * b BY <1>1, TimesMono
  <1>3. q * b \in Nat /\ (q + 1) * b = q * b + b BY <1>2
  <1>4. (CeilDiv(a, b) - 1) * b \in Int BY <1>1
  <1> QED BY <1>1, <1>2, <1>3, <1>4

(* and each row is in one.                                                 *)
LEMMA TileOf ==
  ASSUME NEW a \in Nat \ {0}, NEW b \in Nat \ {0}, NEW x \in 0 .. a - 1
  PROVE  /\ x \div b \in 0 .. CeilDiv(a, b) - 1 /\ x % b \in 0 .. b - 1
         /\ x = (x \div b) * b + (x % b)
  <1>1. CeilDiv(a, b) \in Nat /\ a <= CeilDiv(a, b) * b /\ CeilDiv(a, b) * b \in Int
    BY CeilDivBounds
  <1>2. x \in Nat /\ x < CeilDiv(a, b) * b BY <1>1
  <1> QED BY <1>1, <1>2, Quotient

(* The index of row y of a rows of b.                                      *)
LEMMA IndexOf ==
  ASSUME NEW a \in Nat, NEW b \in Nat \ {0}, NEW x \in 0 .. a - 1, NEW y \in 0 .. b - 1
  PROVE  /\ x * b + y \in Nat /\ x * b + y < a * b
         /\ (x * b + y) \div b = x /\ (x * b + y) % b = y
  <1>1. x \in Nat /\ x * b \in Nat /\ x * b = b * x /\ a * b \in Nat
        /\ (x + 1) * b = x * b + b
    OBVIOUS
  <1>2. (x + 1) * b <= a * b BY <1>1, TimesMono
  <1>3. x * b + y \in Nat /\ x * b + y < a * b BY <1>1, <1>2
  <1>4. b * x <= x * b + y /\ x * b + y < b * x + b /\ (x * b + y) - b * x = y
    BY <1>1
  <1> QED BY <1>1, <1>3, <1>4, DivUnique

(* The split of a nonempty call: at least one chunk, of positive length,   *)
(* the last of which starts before n and ends at or beyond it; and never   *)
(* more chunks than threads.                                               *)
LEMMA SplitShape ==
  ASSUME NEW n \in Int, NEW minChunk \in Int, NEW threads \in Int,
         n > 0, threads > 0,
         NEW d, d = ChunkLen(n, minChunk, threads),
         NEW k, k = ChunkCount(n, minChunk, threads)
  PROVE  /\ d \in Int /\ d > 0
         /\ k \in Int /\ k > 0
         /\ (k - 1) * d < n
         /\ n <= k * d
         /\ k <= threads
  <1> DEFINE M == MaxOf(minChunk, 1)
             K == MinOf(CeilDiv(n, M), threads)
  <1>1. M \in Int /\ M > 0 BY DEF MaxOf
  <1>2. CeilDiv(n, M) \in Int /\ CeilDiv(n, M) > 0 BY <1>1, CeilDivBounds
  <1>3. K \in Int /\ K > 0 /\ K <= threads BY <1>2 DEF MinOf
  <1>4. d = CeilDiv(n, K) BY DEF ChunkLen
  <1>5. d \in Int /\ d > 0 /\ n <= d * K BY <1>3, <1>4, CeilDivBounds
  <1>6. k = CeilDiv(n, d) BY DEF ChunkCount
  <1>7. k \in Int /\ k > 0 /\ (k - 1) * d < n /\ n <= k * d
    BY <1>5, <1>6, CeilDivBounds
  <1>8. k <= K
    <2>1. SUFFICES ASSUME K <= k - 1 PROVE FALSE BY <1>3, <1>7
    <2>2. K * d <= (k - 1) * d BY <1>3, <1>5, <1>7, <2>1, TimesMono
    <2>3. K * d = d * K BY <1>3, <1>5
    <2> QED BY <1>3, <1>5, <1>7, <2>2, <2>3
  <1> QED BY <1>3, <1>5, <1>7, <1>8

(* Every chunk has an index in it: drain's guard on an empty trailing      *)
(* chunk is never what ends its loop.                                      *)
LEMMA ChunkNonempty ==
  ASSUME NEW n \in Int, NEW d \in Int, NEW k \in Int,
         d > 0, (k - 1) * d < n,
         NEW i \in Nat, i < k
  PROVE  /\ ChunkLo(i, d) \in Nat
         /\ ChunkHi(i, n, d) \in Int
         /\ ChunkLo(i, d) < ChunkHi(i, n, d)
         /\ ChunkHi(i, n, d) <= n
  <1>1. i * d <= (k - 1) * d BY TimesMono
  <1>2. 0 * d <= i * d BY TimesMono
  <1> QED BY <1>1, <1>2 DEF ChunkLo, ChunkHi, MinOf

(* A chunk lies within [0, n).                                             *)
LEMMA ChunkWithin ==
  ASSUME NEW n \in Int, NEW d \in Int, d > 0, NEW i \in Nat,
         NEW x \in ChunkSet(i, n, d)
  PROVE  x \in Nat /\ x < n
  <1>1. 0 * d <= i * d BY TimesMono
  <1> QED BY <1>1 DEF ChunkSet, ChunkLo, ChunkHi, MinOf

(* Different chunks have no index in common.                               *)
LEMMA ChunksDisjoint ==
  ASSUME NEW n \in Int, NEW d \in Int, d > 0,
         NEW i \in Nat, NEW j \in Nat, i # j,
         NEW x \in ChunkSet(i, n, d), x \in ChunkSet(j, n, d)
  PROVE  FALSE
  <1>1. ASSUME NEW a \in Nat, NEW b \in Nat, a < b,
               x \in ChunkSet(a, n, d), x \in ChunkSet(b, n, d)
        PROVE  FALSE
    <2>1. (a + 1) * d <= b * d BY <1>1, TimesMono
    <2>2. (a + 1) * d = a * d + d BY SMT
    <2>3. x \in Int /\ x < a * d + d /\ b * d <= x
      BY <1>1 DEF ChunkSet, ChunkLo, ChunkHi, MinOf
    <2> QED BY <2>1, <2>2, <2>3
  <1> QED BY <1>1

(* Every index of [0, n) is in some chunk.                                 *)
LEMMA ChunksCover ==
  ASSUME NEW n \in Int, NEW d \in Int, NEW k \in Int,
         d > 0, n <= k * d,
         NEW x \in Nat, x < n
  PROVE  \E c \in 0 .. k - 1 : x \in ChunkSet(c, n, d)
  <1> DEFINE c == x \div d
  <1>1. c \in Int /\ d * c <= x /\ x < d * c + d BY SMT
  <1>2. c * d = d * c BY <1>1
  <1>3. c >= 0
    <2>1. SUFFICES ASSUME c + 1 <= 0 PROVE FALSE BY <1>1
    <2>2. (c + 1) * d <= 0 * d BY <1>1, <2>1, TimesMono
    <2>3. (c + 1) * d = c * d + d BY <1>1
    <2> QED BY <1>1, <1>2, <2>2, <2>3
  <1>4. c < k
    <2>1. SUFFICES ASSUME k <= c PROVE FALSE BY <1>1
    <2>2. k * d <= c * d BY <1>1, <2>1, TimesMono
    <2> QED BY <1>1, <1>2, <2>2
  <1>5. x \in ChunkSet(c, n, d) BY <1>1, <1>2 DEF ChunkSet, ChunkLo, ChunkHi, MinOf
  <1> QED BY <1>1, <1>3, <1>4, <1>5
-----------------------------------------------------------------------------
(* The weights of a union of sets of keys are the union of their weights.  *)
LEMMA WeightsOfUnion ==
  ASSUME NEW score, NEW S, NEW T, NEW m
  PROVE  Weights(score, S \cup T, m)
           = Weights(score, S, m) \cup Weights(score, T, m)
BY DEF Weights

LEMMA NoWeights ==
  ASSUME NEW score, NEW m, NEW d
  PROVE  Weights(score, {}, m) = {} /\ Decay({}, d) = {}
BY DEF Weights, Decay

(* Weights relative to m, times exp(m - mn), are the weights relative to   *)
(* mn: what vanished relative to m vanishes relative to a larger mn too.   *)
LEMMA DecayWeights ==
  ASSUME Under \in Nat, NEW S, NEW score, \A k \in S : score[k] \in Int,
         NEW m \in Int, NEW mn \in Int, m <= mn
  PROVE  Decay(Weights(score, S, m), m - mn) = Weights(score, S, mn)
<1> DEFINE D == Decay(Weights(score, S, m), m - mn)
           W == Weights(score, S, mn)
           Rel(k, c) == [key |-> k, x |-> score[k] - c]
<1>1. \A k \in S : /\ Rel(k, m).key = k /\ Rel(k, m).x + (m - mn) = Rel(k, mn).x
                   /\ Rel(k, mn).x <= Rel(k, m).x
                   /\ Rel(k, mn).x \in Int /\ Rel(k, m).x \in Int
  OBVIOUS
<1>2. ASSUME NEW z \in D PROVE z \in W
  <2>1. PICK y \in Weights(score, S, m) :
               z = [key |-> y.key, x |-> y.x + (m - mn)] /\ ~Vanishes(z.x)
    BY DEF Decay
  <2>2. PICK k \in S : y = Rel(k, m)
    BY DEF Weights
  <2>3. z = Rel(k, mn)
    BY <1>1, <2>1, <2>2
  <2> QED
    BY <2>1, <2>3 DEF Weights
<1>3. ASSUME NEW z \in W PROVE z \in D
  <2>1. PICK k \in S : z = Rel(k, mn) /\ ~Vanishes(z.x)
    BY DEF Weights
  <2>2. ~Vanishes(Rel(k, m).x)
    BY <1>1, <2>1 DEF Vanishes
  <2>3. Rel(k, m) \in Weights(score, S, m)
    BY <2>2 DEF Weights
  <2>4. z = [key |-> Rel(k, m).key, x |-> Rel(k, m).x + (m - mn)]
    BY <1>1, <2>1
  <2> QED
    BY <2>1, <2>3, <2>4 DEF Decay
<1> QED
  BY <1>2, <1>3

(* The larger of two maxima is the maximum of the union.                   *)
LEMMA MaxOfUnion ==
  ASSUME NEW score, NEW S, NEW T, NEW a \in Int, NEW b \in Int,
         \A k \in S \cup T : score[k] \in Int,
         IsMax(a, score, S), IsMax(b, score, T)
  PROVE  IsMax(IF a > b THEN a ELSE b, score, S \cup T)
BY DEF IsMax

(* Scores far enough above the sentinel for a masked key to vanish.        *)
AreScores(score, S) == \A j \in S : score[j] \in Int /\ score[j] - Sentinel > Under

(* Registers as they are initialized, and those of the keys in S.          *)
IsFresh(r) == r.m = Sentinel /\ r.l = {} /\ r.acc = {}
IsSoftmaxOf(r, score, S) ==
  /\ IsMax(r.m, score, S)
  /\ r.l = Weights(score, S, r.m) /\ r.acc = r.l

LEMMA MaxType ==
  ASSUME NEW score, NEW S, AreScores(score, S), NEW r, IsSoftmaxOf(r, score, S)
  PROVE  r.m \in Int /\ r.m - Sentinel > Under
BY DEF AreScores, IsSoftmaxOf, IsMax

(* FoldInto, given a row's first key,                                      *)
LEMMA FoldFirst ==
  ASSUME Under \in Nat, Sentinel \in Int, NEW score, NEW k, AreScores(score, {k}),
         NEW r, IsFresh(r)
  PROVE  IsSoftmaxOf(FoldInto(r, score[k], k, k), score, {k})
<1> DEFINE n == FoldInto(r, score[k], k, k)
<1>1. score[k] \in Int /\ score[k] > Sentinel
  BY DEF AreScores
<1>2. /\ n.m = score[k]
      /\ n.l = Weight(k, score[k] - n.m) /\ n.acc = n.l
  BY <1>1, NoWeights DEF FoldInto, IsFresh
<1>3. IsMax(n.m, score, {k})
  BY <1>1, <1>2 DEF IsMax
<1>4. Weight(k, score[k] - n.m) = Weights(score, {k}, n.m)
  BY DEF Weight, Weights
<1> QED
  BY <1>2, <1>3, <1>4 DEF IsSoftmaxOf

(* or one more key, makes the registers those of the keys folded so far.   *)
LEMMA FoldOneMore ==
  ASSUME Under \in Nat, NEW score, NEW S, NEW k, AreScores(score, S \cup {k}),
         NEW r, IsSoftmaxOf(r, score, S)
  PROVE  IsSoftmaxOf(FoldInto(r, score[k], k, k), score, S \cup {k})
<1> DEFINE n == FoldInto(r, score[k], k, k)
           a == r.m
           b == n.m
<1>1. /\ b = IF score[k] > a THEN score[k] ELSE a
      /\ n.l = Decay(r.l, a - b) \cup Weight(k, score[k] - b)
      /\ n.acc = Decay(r.acc, a - b) \cup Weight(k, score[k] - b)
  BY DEF FoldInto
<1>2. /\ IsMax(a, score, S) /\ r.l = Weights(score, S, a) /\ r.acc = r.l
      /\ score[k] \in Int /\ \A j \in S : score[j] \in Int
  BY DEF IsSoftmaxOf, AreScores
<1>3. a \in Int
  BY <1>2 DEF IsMax
<1> HIDE DEF n, a, b
<1>4. b \in Int /\ a <= b
  BY <1>1, <1>2, <1>3
<1>5. IsMax(b, score, S \cup {k})
  BY <1>1, <1>2, <1>3 DEF IsMax
<1>6. Decay(Weights(score, S, a), a - b) = Weights(score, S, b)
  BY <1>2, <1>3, <1>4, DecayWeights
<1>7. Weight(k, score[k] - b) = Weights(score, {k}, b)
  BY DEF Weight, Weights
<1>8. n.l = Weights(score, S \cup {k}, b) /\ n.acc = n.l
  BY <1>1, <1>2, <1>6, <1>7, WeightsOfUnion
<1> QED
  BY <1>5, <1>8 DEF IsSoftmaxOf, n, b

(* A masked key leaves no trace in the registers of a row that has folded  *)
(* a visible one before.                                                   *)
LEMMA FoldMasked ==
  ASSUME Under \in Nat, Sentinel \in Int, NEW score, NEW S, AreScores(score, S),
         NEW r, IsSoftmaxOf(r, score, S), NEW key, NEW vkey
  PROVE  FoldInto(r, Sentinel, key, vkey) = [m |-> r.m, l |-> r.l, acc |-> r.acc]
<1> DEFINE a == r.m
<1>1. a \in Int /\ a - Sentinel > Under /\ r.acc = r.l /\ r.l = Weights(score, S, a)
      /\ \A j \in S : score[j] \in Int
  BY MaxType DEF IsSoftmaxOf, AreScores
<1> HIDE DEF a
<1>2. ~(Sentinel > a) /\ Vanishes(Sentinel - a) /\ a <= a
  BY <1>1 DEF Vanishes
<1>3. Decay(Weights(score, S, a), a - a) = Weights(score, S, a)
  BY <1>1, <1>2, DecayWeights
<1> QED
  BY <1>1, <1>2, <1>3 DEF FoldInto, Weight, a
-----------------------------------------------------------------------------
(* A nonempty set of naturals has a least one; hence a set that holds 0    *)
(* and, with a number, the next, holds all numbers up to any bound.        *)
LEMMA LeastNat ==
  ASSUME NEW T \in SUBSET Nat, T # {}
  PROVE  \E x \in T : \A y \in T : x <= y
<1> DEFINE R == OpToRel(<, Nat)
<1>1. IsWellFoundedOn(R, Nat)
  BY NatLessThanWellFounded
<1> HIDE DEF R
<1>2. PICK x \in T : \A y \in T : <<y, x>> \notin R
  BY <1>1, WFMin
<1>3. \A a, b \in Nat : a < b => <<a, b>> \in R
  BY DEF R, OpToRel
<1>4. \A y \in T : x \in Nat /\ y \in Nat /\ ~(y < x)
  BY <1>2, <1>3
<1>5. \A a, b \in Nat : ~(b < a) => a <= b
  OBVIOUS
<1> QED
  BY <1>4, <1>5

LEMMA UpTo ==
  ASSUME NEW n \in Nat, NEW S, 0 \in S, \A y \in 0 .. n - 1 : y \in S => y + 1 \in S
  PROVE  0 .. n \subseteq S
<1> DEFINE T == {y \in 0 .. n : y \notin S}
<1> SUFFICES ASSUME T # {} PROVE FALSE
  OBVIOUS
<1> HIDE DEF T
<1>1. PICK x \in T : \A y \in T : x <= y
  <2>1. T \in SUBSET Nat
    BY DEF T
  <2> QED
    BY <2>1, LeastNat
<1>2. x # 0 /\ x - 1 \in 0 .. n - 1 /\ x - 1 \notin T /\ (x - 1) + 1 = x
  BY <1>1 DEF T
<1> QED
  BY <1>1, <1>2 DEF T

(* Of finitely many numbers one is the greatest.                           *)
LEMMA GreatestOf ==
  ASSUME NEW n \in Nat, NEW f, \A j \in 0 .. n : f[j] \in Int
  PROVE  \E i \in 0 .. n : \A j \in 0 .. n : f[j] <= f[i]
<1> DEFINE Top(y) == \E i \in 0 .. y : \A j \in 0 .. y : f[j] <= f[i]
           S == {y \in 0 .. n : Top(y)}
<1>1. 0 \in S
  OBVIOUS
<1>2. ASSUME NEW y \in 0 .. n - 1, y \in S PROVE y + 1 \in S
  <2>1. PICK i \in 0 .. y : \A j \in 0 .. y : f[j] <= f[i]
    BY <1>2
  <2>2. \A j \in 0 .. y + 1 : j = y + 1 \/ j \in 0 .. y
    OBVIOUS
  <2>3. f[i] \in Int /\ f[y + 1] \in Int /\ i \in 0 .. y + 1 /\ y + 1 \in 0 .. n
    OBVIOUS
  <2>4. CASE f[y + 1] <= f[i]
    BY <2>1, <2>2, <2>3, <2>4
  <2>5. CASE f[i] < f[y + 1]
    <3>1. \A j \in 0 .. y : f[j] \in Int /\ f[j] <= f[y + 1]
      BY <2>1, <2>3, <2>5
    <3>2. y + 1 \in 0 .. y + 1 /\ \A j \in 0 .. y + 1 : f[j] <= f[y + 1]
      BY <2>2, <2>3, <3>1
    <3> QED
      BY <2>3, <3>2
  <2> QED
    BY <2>3, <2>4, <2>5
<1> HIDE DEF S
<1>3. n \in S
  BY <1>1, <1>2, UpTo
<1> QED
  BY <1>3 DEF S

(* On a finite set that is not empty a number is greatest somewhere.       *)
LEMMA GreatestIn ==
  ASSUME NEW T, IsFiniteSet(T), T # {}, NEW f, \A v \in T : f[v] \in Int
  PROVE  \E v \in T : \A u \in T : f[u] <= f[v]
<1>1. PICK n \in Nat : Surjection(1 .. n, T) # {}
  <2>1. \E n \in Nat : ExistsSurjection(1 .. n, T)
    BY FS_NatSurjection
  <2> QED
    BY <2>1 DEF ExistsSurjection
<1> PICK e \in Surjection(1 .. n, T) : TRUE
  BY <1>1
<1>2. /\ \A j \in 1 .. n : e[j] \in T
      /\ \A v \in T : \E j \in 1 .. n : e[j] = v
  BY DEF Surjection
<1>3. n >= 1
  BY <1>1, <1>2
<1> DEFINE g == [j \in 0 .. n - 1 |-> f[e[j + 1]]]
<1>4. \A j \in 0 .. n - 1 : g[j] \in Int /\ g[j] = f[e[j + 1]] /\ j + 1 \in 1 .. n
  BY <1>1, <1>2
<1>5. \A j \in 1 .. n : j - 1 \in 0 .. n - 1 /\ (j - 1) + 1 = j
  BY <1>1
<1> HIDE DEF g
<1>6. n - 1 \in Nat
  BY <1>1, <1>3
<1>7. PICK i \in 0 .. n - 1 : \A j \in 0 .. n - 1 : g[j] <= g[i]
  BY <1>4, <1>6, GreatestOf
<1>8. \A j \in 1 .. n : f[e[j]] <= f[e[i + 1]]
  BY <1>4, <1>5, <1>7
<1> QED
  BY <1>2, <1>4, <1>8
=============================================================================
