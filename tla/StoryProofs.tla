---------------------------- MODULE StoryProofs ----------------------------
(***************************************************************************)
(* The demo computes each position once and reads it from the cache ever   *)
(* after; that this is the same as evaluating the whole text for every     *)
(* token is proved here for any number of layers, heads and positions, if  *)
(* there are as many K/V heads as heads. So is, for any text, that the     *)
(* tokens of the prompt, whatever encode split and merged, print the text. *)
(***************************************************************************)
EXTENDS Story, OperatorProofs, SequenceTheorems, FiniteSetTheorems
LOCAL INSTANCE SequencesExt

(* attention_step_cpu takes the rows of the cache to be n_heads wide, and  *)
(* scores are above the sentinel.                                          *)
Supported ==
  /\ KvHeads = Heads
  /\ \A y \in 0 .. Layers - 1, n, k \in 0 .. SeqLen - 1, i \in 0 .. Heads - 1 :
       \A u, v : LET d == Dot(Row(y, n, u, i), Row(y, k, v, i))
                 IN  d \in Int /\ d - Sentinel > Under
-----------------------------------------------------------------------------
(* Evaluated is the recursion it is defined by: its function exists.       *)
LEMMA EvaluatedBy ==
  ASSUME NEW s
  PROVE  Evaluated(s) = [y \in 0 .. Layers |->
           IF y = 0 THEN Embedded(s) ELSE Layer(y - 1, Len(s), Evaluated(s)[y - 1])]
<1> DEFINE E == Embedded(s)
           L(y, In) == Layer(y, Len(s), In)
           Good(f, n) == \A y \in 0 .. n : f[y] = IF y = 0 THEN E ELSE L(y - 1, f[y - 1])
           S == {n \in 0 .. Layers : \E f : Good(f, n)}
<1>1. Layers \in Nat
  BY StoryAssumption
<1>2. 0 \in S
  <2> HIDE DEF E, L
  <2> DEFINE f == [y \in 0 .. 0 |-> E]
  <2>1. Good(f, 0)
    OBVIOUS
  <2> HIDE DEF f
  <2>2. \E z : Good(z, 0)
    BY <2>1
  <2> HIDE DEF Good
  <2> QED
    BY <1>1, <2>2
<1>3. ASSUME NEW n \in 0 .. Layers - 1, n \in S PROVE n + 1 \in S
  <2> HIDE DEF E, L
  <2>1. PICK f : Good(f, n)
    BY <1>3
  <2> DEFINE g == [y \in 0 .. n + 1 |-> IF y <= n THEN f[y] ELSE L(n, f[n])]
  <2>2. ASSUME NEW y \in 0 .. n + 1 PROVE g[y] = IF y = 0 THEN E ELSE L(y - 1, g[y - 1])
    <3>1. CASE y <= n
      <4>1. g[y] = f[y] /\ (y # 0 => g[y - 1] = f[y - 1])
        BY <3>1
      <4> QED
        BY <2>1, <3>1, <4>1
    <3>2. CASE y = n + 1
      <4>1. g[y] = L(n, f[n]) /\ g[n] = f[n] /\ y # 0 /\ y - 1 = n
        BY <3>2
      <4> QED
        BY <4>1
    <3> QED
      BY <3>1, <3>2
  <2> HIDE DEF g
  <2>3. Good(g, n + 1)
    BY <2>2
  <2>4. \E z : Good(z, n + 1)
    BY <2>3
  <2> HIDE DEF Good
  <2> QED
    BY <1>1, <2>4
<1>4. PICK f : Good(f, Layers)
  <2> HIDE DEF S
  <2>1. 0 .. Layers \subseteq S
    BY <1>1, <1>2, <1>3, UpTo
  <2> QED
    BY <1>1, <2>1 DEF S
<1>5. \E X : X = [y \in 0 .. Layers |-> IF y = 0 THEN E ELSE L(y - 1, X[y - 1])]
  <2> HIDE DEF E, L
  <2> DEFINE X == [y \in 0 .. Layers |-> f[y]]
  <2>1. ASSUME NEW y \in 0 .. Layers PROVE f[y] = IF y = 0 THEN E ELSE L(y - 1, X[y - 1])
    BY <1>1, <1>4
  <2>2. X = [y \in 0 .. Layers |-> IF y = 0 THEN E ELSE L(y - 1, X[y - 1])]
    BY <2>1
  <2> QED
    BY <2>2
<1> QED
  BY <1>5 DEF Evaluated
LEMMA EvaluatedSteps ==
  ASSUME NEW s
  PROVE  /\ Evaluated(s)[0] = Embedded(s)
         /\ \A y \in 0 .. Layers - 1 :
              Evaluated(s)[y + 1] = Layer(y, Len(s), Evaluated(s)[y])
<1> DEFINE X == Evaluated(s)
<1>1. X = [y \in 0 .. Layers |->
             IF y = 0 THEN Embedded(s) ELSE Layer(y - 1, Len(s), X[y - 1])]
  BY EvaluatedBy
<1>2. Layers \in Nat
  BY StoryAssumption
<1> HIDE DEF X
<1>3. X[0] = Embedded(s)
  BY <1>1, <1>2
<1>4. ASSUME NEW y \in 0 .. Layers - 1 PROVE X[y + 1] = Layer(y, Len(s), X[y])
  <2>1. y + 1 \in 0 .. Layers /\ y + 1 # 0 /\ (y + 1) - 1 = y
    BY <1>2
  <2> QED
    BY <1>1, <2>1
<1> QED
  BY <1>3, <1>4 DEF X

(* What a layer makes of a position depends on no later one.               *)
LEMMA LayerCausal ==
  ASSUME NEW N \in Nat, NEW M \in Nat, N <= M, NEW y, NEW In, NEW Jn,
         \A n \in 0 .. N - 1 : In[n] = Jn[n]
  PROVE  \A n \in 0 .. N - 1 : Layer(y, N, In)[n] = Layer(y, M, Jn)[n]
<1> TAKE n \in 0 .. N - 1
<1>1. n \in 0 .. M - 1 /\ In[n] = Jn[n]
  OBVIOUS
<1> DEFINE A(Z, i) == Attention(Row(y, n, Z[n], i), {Row(y, k, Z[k], i) : k \in 0 .. n})
<1>2. ASSUME NEW i PROVE A(In, i) = A(Jn, i)
  <2>1. {Row(y, k, In[k], i) : k \in 0 .. n} = {Row(y, k, Jn[k], i) : k \in 0 .. n}
    <3>1. \A k \in 0 .. n : Row(y, k, In[k], i) = Row(y, k, Jn[k], i)
      OBVIOUS
    <3> QED
      BY <3>1
  <2> QED
    BY <1>1, <2>1
<1>3. Layer(y, N, In)[n] = Block(In[n], [i \in 0 .. Heads - 1 |-> A(In, i)])
  BY DEF Layer
<1>4. Layer(y, M, Jn)[n] = Block(Jn[n], [i \in 0 .. Heads - 1 |-> A(Jn, i)])
  BY <1>1 DEF Layer
<1> HIDE DEF A
<1>5. [i \in 0 .. Heads - 1 |-> A(In, i)] = [i \in 0 .. Heads - 1 |-> A(Jn, i)]
  BY <1>2
<1> QED
  BY <1>1, <1>3, <1>4, <1>5

(* So a token more changes nothing about the positions before it.          *)
LEMMA Causal ==
  ASSUME NEW S, NEW s \in Seq(S), NEW a
  PROVE  \A y \in 0 .. Layers : \A n \in 0 .. Len(s) - 1 :
           Evaluated(Append(s, a))[y][n] = Evaluated(s)[y][n]
<1> DEFINE b == Append(s, a)
           T == {y \in 0 .. Layers : \A n \in 0 .. Len(s) - 1 :
                   Evaluated(s)[y][n] = Evaluated(b)[y][n]}
<1>1. Layers \in Nat
  BY StoryAssumption
<1>2. Len(s) \in Nat /\ Len(b) = Len(s) + 1 /\ \A n \in 1 .. Len(s) : b[n] = s[n]
  <2>1. s \in Seq(S \cup {a})
    OBVIOUS
  <2> QED
    BY <2>1
<1> HIDE DEF b
<1>3. 0 \in T
  <2>1. \A n \in 0 .. Len(s) - 1 : Embedded(s)[n] = Embedded(b)[n]
    BY <1>2 DEF Embedded
  <2> QED
    BY <1>1, <2>1, EvaluatedSteps
<1>4. ASSUME NEW y \in 0 .. Layers - 1, y \in T PROVE y + 1 \in T
  <2>1. \A n \in 0 .. Len(s) - 1 :
          Layer(y, Len(s), Evaluated(s)[y])[n] = Layer(y, Len(b), Evaluated(b)[y])[n]
    BY <1>2, <1>4, LayerCausal
  <2>2. y + 1 \in 0 .. Layers
    BY <1>1
  <2> QED
    BY <2>1, <2>2, EvaluatedSteps
<1>5. 0 .. Layers \subseteq T
  <2> HIDE DEF T
  <2> QED
    BY <1>1, <1>3, <1>4, UpTo
<1> QED
  BY <1>5 DEF b
-----------------------------------------------------------------------------
Lays == 0 .. Layers - 1
Poss == 0 .. SeqLen - 1
Hds == 0 .. Heads - 1
Slots == 0 .. Layers * SeqLen * KvHeads - 1

(* The slots of a layer's rows are an array of rows of n_heads.            *)
LEMMA SlotIndex ==
  ASSUME KvHeads = Heads, NEW y \in Lays, NEW n \in Poss, NEW i \in Hds
  PROVE  /\ y * SeqLen + n \in 0 .. Layers * SeqLen - 1
         /\ StepSlot(y, n, i) = (y * SeqLen + n) * Heads + i
         /\ StepSlot(y, n, i) \in Slots
         /\ StepSlot(y, n, i) \div Heads = y * SeqLen + n
         /\ StepSlot(y, n, i) % Heads = i
         /\ StepSlot(y, n, i) \in Base(y) .. Base(y + 1) - 1
<1>1. /\ Layers \in Nat \ {0} /\ SeqLen \in Nat \ {0} /\ Heads \in Nat \ {0}
      /\ y \in Nat /\ n \in Nat /\ i \in Nat
  BY StoryAssumption DEF Lays, Poss, Hds
<1>2. y * SeqLen + n \in Nat /\ y * SeqLen + n < Layers * SeqLen
  BY <1>1, IndexOf DEF Lays, Poss
<1>3. Layers * SeqLen \in Nat
  BY <1>1
<1>4. PICK r \in Nat : r = y * SeqLen + n
  BY <1>2
<1>5. PICK N \in Nat : N = Layers * SeqLen
  BY <1>3
<1>6. /\ r * Heads + i \in Nat /\ r * Heads + i < N * Heads
      /\ (r * Heads + i) \div Heads = r /\ (r * Heads + i) % Heads = i
  <2>1. r \in 0 .. N - 1
    BY <1>2, <1>4, <1>5
  <2> QED
    BY <1>1, <1>5, <2>1, IndexOf DEF Hds
<1>7. StepSlot(y, n, i) = r * Heads + i
  <2>1. \A a, b, c \in Nat : (a + b) * c = a * c + b * c
    OBVIOUS
  <2>2. PICK a \in Nat : a = y * SeqLen
    BY <1>1
  <2>3. (a + n) * Heads = a * Heads + n * Heads
    BY <1>1, <2>1
  <2> QED
    BY <1>1, <1>4, <2>2, <2>3 DEF StepSlot, Base
<1>8. StepSlot(y, n, i) \in Slots
  BY <1>1, <1>5, <1>6, <1>7 DEF Slots
<1>9. StepSlot(y, n, i) \in Base(y) .. Base(y + 1) - 1
  <2>1. n * Heads + i \in Nat /\ n * Heads + i < SeqLen * Heads
    BY <1>1, IndexOf DEF Poss, Hds
  <2>2. Base(y + 1) = Base(y) + SeqLen * Heads /\ Base(y) \in Nat /\ SeqLen * Heads \in Nat
    <3>1. \A a, b, c \in Nat : (a + 1) * b * c = a * b * c + b * c /\ a * b * c \in Nat
      <4> TAKE a, b, c \in Nat
      <4>1. (a + 1) * b = a * b + b /\ a * b \in Nat
        OBVIOUS
      <4>2. PICK d \in Nat : d = a * b
        BY <4>1
      <4>3. (d + b) * c = d * c + b * c /\ d * c \in Nat
        OBVIOUS
      <4> QED
        BY <4>1, <4>2, <4>3
    <3> QED
      BY <1>1, <3>1 DEF Base
  <2>3. PICK e \in Nat : e = n * Heads + i
    BY <2>1
  <2>4. StepSlot(y, n, i) = Base(y) + e
    <3>1. n * Heads \in Nat
      BY <1>1
    <3> QED
      BY <1>1, <2>2, <2>3, <3>1 DEF StepSlot
  <2> QED
    BY <2>1, <2>2, <2>3, <2>4
<1> QED
  BY <1>2, <1>4, <1>5, <1>6, <1>7, <1>8, <1>9

(* A row written goes where it is read from, and nowhere else.             *)
CacheShape == cache = [i \in Slots |-> cache[i]]

LEMMA Written ==
  ASSUME KvHeads = Heads, CacheShape, NEW y \in Lays, NEW n \in Poss, NEW u,
         cache' = WriteRow(y, n, u)
  PROVE  /\ CacheShape'
         /\ \A i \in Hds : StepRow(y, n, i)' = Row(y, n, u, i)
         /\ \A z \in Lays, k \in Poss, i \in Hds :
              z # y \/ k # n => StepRow(z, k, i)' = StepRow(z, k, i)
<1>1. CacheShape'
  BY DEF CacheShape, WriteRow
<1>2. ASSUME NEW z \in Lays, NEW k \in Poss, NEW i \in Hds
      PROVE  StepRow(z, k, i)' = IF z = y /\ k = n THEN Row(y, n, u, i)
                                 ELSE StepRow(z, k, i)
  <2> DEFINE sl == StepSlot(z, k, i)
             j == sl - Base(y) - n * KvHeads
  <2>1. sl \in Slots /\ StepRow(z, k, i) = cache[sl] /\ StepRow(z, k, i)' = cache'[sl]
    BY <1>1, SlotIndex DEF StepRow, CacheShape
  <2>2. cache'[sl] = IF j \in 0 .. KvHeads - 1 THEN Row(y, n, u, j) ELSE cache[sl]
    BY <2>1 DEF WriteRow, CacheShape
  <2>3. /\ Heads \in Nat \ {0} /\ Base(y) \in Int /\ n * KvHeads \in Int /\ i \in 0 .. Heads - 1
        /\ sl \in Int
    BY <2>1, StoryAssumption DEF Base, Lays, Poss, Hds, Slots
  <2>4. ASSUME z = y, k = n PROVE j = i
    BY <2>3, <2>4 DEF StepSlot
  <2>5. ASSUME j \in 0 .. KvHeads - 1 PROVE z = y /\ k = n
    <3>1. j \in Hds /\ sl = StepSlot(y, n, j)
      <4>1. sl = Base(y) + n * KvHeads + j
        BY <2>3
      <4>2. n * KvHeads = n * Heads
        OBVIOUS
      <4> HIDE DEF j, sl
      <4> QED
        BY <2>5, <4>1, <4>2 DEF StepSlot, Hds
    <3>2. sl \div Heads = y * SeqLen + n /\ sl \div Heads = z * SeqLen + k
      BY <3>1, SlotIndex
    <3>3. /\ (y * SeqLen + n) \div SeqLen = y /\ (y * SeqLen + n) % SeqLen = n
          /\ (z * SeqLen + k) \div SeqLen = z /\ (z * SeqLen + k) % SeqLen = k
      BY IndexOf, StoryAssumption DEF Lays, Poss
    <3> HIDE DEF sl
    <3> QED
      BY <3>2, <3>3
  <2> HIDE DEF j, sl
  <2> QED
    BY <2>1, <2>2, <2>3, <2>4, <2>5 DEF Hds
<1> QED
  BY <1>1, <1>2
-----------------------------------------------------------------------------
(* Cache c holds, in layer y, the rows of the first N positions of text s. *)
ReadIn(c, y, n, i) == IF StepSlot(y, n, i) \in DOMAIN c THEN c[StepSlot(y, n, i)] ELSE NoRow
Held(c, s, y, N) ==
  \A n \in 0 .. N - 1, i \in Hds :
    ReadIn(c, y, n, i) = Row(y, n, Evaluated(s)[y][n], i)

(* The keys of head i up to n, and their scores for the current position.  *)
KeysTo(s, y, n, i) == {Row(y, k, Evaluated(s)[y][k], i) : k \in 0 .. n}
Query(i) == Row(l, pos, x, i)
ScoresOf(q, K) == [k \in K |-> Dot(q, k)]
Softmaxed(r, q, K, S) == IsSoftmaxOf(r, ScoresOf(q, K), S)

IsSeq(s) == \E S : s \in Seq(S)

(* Types, and what keeps the loops inside the context.                     *)
Bounds ==
  /\ typed \in Texts /\ steps \in Nat
  /\ pc \in {"encode", "prefill", "prompt", "loop", "row", "attend", "logits", "done"}
  /\ IsSeq(prompt) /\ IsSeq(text) /\ P \in Nat \ {0} /\ CacheShape
  /\ at \in 1 .. Len(typed) + 1
  /\ pc = "encode" => P <= at + 1 /\ p = 0 /\ l = 0
  /\ pc # "encode" => P <= SeqLen
  /\ pos \in 0 .. SeqLen /\ generated \in 0 .. steps
  /\ l \in 0 .. Layers /\ p \in 0 .. P /\ h \in 0 .. Heads
  /\ pc # "attend" => t = 0
  /\ t \in 0 .. pos + 1 /\ (h = Heads => t = 0)
  /\ pc \in {"row", "attend", "logits"} => pos < SeqLen /\ generated < steps
  /\ pc \in {"row", "attend"} => l < Layers
  /\ att = [i \in Hds |-> att[i]]

(* In prefill, the layers behind are cached whole, the current one up to p.*)
Prefilled ==
  /\ pc \in {"prefill", "prompt"} => text = prompt
  /\ pc = "prefill" =>
       /\ xall = Evaluated(text)[l]
       /\ \A y \in 0 .. l - 1 : Held(cache, text, y, P)
       /\ l < Layers => Held(cache, text, l, p)
  /\ pc = "prompt" =>
       /\ \A y \in Lays : Held(cache, text, y, P)
       /\ logits = Evaluated(text)[Layers][P - 1]

(* Between tokens all layers hold the text, and the logits are its last.   *)
Ready ==
  pc = "loop" =>
    /\ Len(text) = pos /\ pos >= 1
    /\ \A y \in Lays : Held(cache, text, y, pos)
    /\ logits = Evaluated(text)[Layers][pos - 1]

(* In decode the layers behind hold the new position too, and x is what    *)
(* evaluating the text afresh makes of it.                                 *)
Decoded ==
  pc \in {"row", "attend", "logits"} =>
    /\ Len(text) = pos + 1
    /\ \A y \in Lays : Held(cache, text, y, pos)
    /\ \A y \in 0 .. l - 1 : Held(cache, text, y, pos + 1)
    /\ x = Evaluated(text)[l][pos]
    /\ pc = "logits" => l = Layers

(* In attention_step_cpu, the heads behind are done, and the current one   *)
(* has the statistics of the keys before t.                                *)
Attended ==
  pc = "attend" =>
    /\ Held(cache, text, l, pos + 1)
    /\ \A i \in 0 .. h - 1 : att[i] = Attention(Query(i), KeysTo(text, l, pos, i))
    /\ h < Heads =>
         IF t = 0 THEN IsFresh(reg)
         ELSE Softmaxed(reg, Query(h), KeysTo(text, l, pos, h), KeysTo(text, l, t - 1, h))

StoryInv == Bounds /\ Prefilled /\ Ready /\ Decoded /\ Attended
-----------------------------------------------------------------------------
LEMMA RowsHaveScores ==
  ASSUME Supported, NEW s, NEW u, NEW y \in Lays, NEW n \in Poss, NEW i \in Hds
  PROVE  AreScores(ScoresOf(Row(y, n, u, i), KeysTo(s, y, n, i)), KeysTo(s, y, n, i))
<1> DEFINE q == Row(y, n, u, i)
           K == KeysTo(s, y, n, i)
<1>1. ASSUME NEW k \in K PROVE Dot(q, k) \in Int /\ Dot(q, k) - Sentinel > Under
  <2>1. PICK j \in 0 .. n : k = Row(y, j, Evaluated(s)[y][j], i)
    BY <1>1 DEF KeysTo
  <2>2. j \in Poss
    BY StoryAssumption DEF Poss
  <2> QED
    BY <2>1, <2>2 DEF Supported, Lays, Poss, Hds
<1> HIDE DEF q, K
<1> QED
  BY <1>1 DEF AreScores, ScoresOf, q, K

(* attention_step_cpu and attention_flash_fast compute the same of a row.  *)
LEMMA AttentionOf ==
  ASSUME NEW q, NEW K, AreScores(ScoresOf(q, K), K),
         NEW r, Softmaxed(r, q, K, K)
  PROVE  Attention(q, K) = [num |-> r.acc, den |-> r.l]
<1> DEFINE sc == ScoresOf(q, K)
           top == CHOOSE v \in {sc[k] : k \in K} : IsMax(v, sc, K)
<1>1. IsMax(r.m, sc, K) /\ r.l = Weights(sc, K, r.m) /\ r.acc = r.l
  BY DEF Softmaxed, IsSoftmaxOf
<1>2. \A k \in K : sc[k] \in Int
  BY DEF AreScores
<1>3. Attention(q, K) = [num |-> Weights(sc, K, top), den |-> Weights(sc, K, top)]
  BY DEF Attention, ScoresOf
<1> HIDE DEF sc
<1>4. r.m \in {sc[k] : k \in K}
  BY <1>1 DEF IsMax
<1>5. top \in {sc[k] : k \in K} /\ IsMax(top, sc, K)
  BY <1>1, <1>4
<1>6. top = r.m
  BY <1>1, <1>2, <1>4, <1>5 DEF IsMax
<1> QED
  BY <1>1, <1>3, <1>6

LEMMA SequenceOf ==
  ASSUME NEW n \in Nat, NEW S, NEW f \in [1 .. n -> S]
  PROVE  f \in Seq(S) /\ Len(f) = n
<1>1. f \in Seq(S)
  BY SeqDef
<1> QED
  BY <1>1, LenProperties

LEMMA PartOf ==
  ASSUME NEW S, NEW s \in Seq(S), NEW a \in 1 .. Len(s), NEW b \in a .. Len(s)
  PROVE  SubSeq(s, a, b) \in Seq(S) /\ Len(SubSeq(s, a, b)) = b - a + 1
<1>1. Len(s) \in Nat
  BY LenProperties
<1>2. \A i \in 1 .. Len(s) : s[i] \in S
  BY ElementOfSeq
<1>3. ASSUME NEW i \in a .. b PROVE s[i] \in S
  <2>1. PICK N \in Nat : N = Len(s)
    BY <1>1
  <2>2. i \in 1 .. N
    BY <2>1
  <2> QED
    BY <1>2, <2>1, <2>2
<1> QED
  BY <1>1, <1>3, SubSeqProperties

LEMMA ShiftOf ==
  ASSUME NEW s \in Seq(0 .. 255), NEW f, f = [j \in DOMAIN s |-> s[j] + 3]
  PROVE  f \in Seq(Int) /\ Len(f) = Len(s)
<1>1. Len(s) \in Nat /\ DOMAIN s = 1 .. Len(s)
  BY LenProperties
<1>2. \A i \in 1 .. Len(s) : s[i] \in 0 .. 255
  BY ElementOfSeq
<1>3. ASSUME NEW i \in 1 .. Len(s) PROVE s[i] + 3 \in Int
  <2>1. PICK b \in 0 .. 255 : s[i] = b
    BY <1>2
  <2>2. b + 3 \in Int
    OBVIOUS
  <2> QED
    BY <2>1, <2>2
<1>4. f \in [1 .. Len(s) -> Int]
  BY <1>1, <1>3
<1> QED
  BY <1>1, <1>4, SequenceOf

LEMMA InitInv == Init => StoryInv
<1> SUFFICES ASSUME Init PROVE StoryInv
  OBVIOUS
<1>1. /\ Layers \in Nat \ {0} /\ SeqLen \in Nat \ {0} /\ Heads \in Nat \ {0}
      /\ MaxSteps \in Nat
  BY StoryAssumption
<1>2. IsSeq(prompt) /\ P \in {1, 2}
  <2>1. PICK b : b = id(<<Space>>)
    OBVIOUS
  <2>2. prompt = <<BOS, b>> \/ prompt = <<BOS>>
    BY <2>1 DEF Init, Start
  <2>3. \A a : /\ <<a, b>> \in Seq({a, b}) /\ Len(<<a, b>>) = 2
               /\ <<a>> \in Seq({a}) /\ Len(<<a>>) = 1
    OBVIOUS
  <2> QED
    BY <2>2, <2>3, Zenon DEF IsSeq, P
<1>3. IsSeq(text)
  <2>1. text \in Seq({})
    BY DEF Init
  <2> QED
    BY <2>1 DEF IsSeq
<1>4. typed \in Seq(0 .. 255)
  BY StoryAssumption DEF Init
<1>5. Bounds
  BY <1>1, <1>2, <1>3, <1>4 DEF Init, Bounds, CacheShape, Slots, NoAtt, Hds
<1>6. Prefilled /\ Ready /\ Decoded /\ Attended
  BY DEF Init, Prefilled, Ready, Decoded, Attended
<1> QED
  BY <1>5, <1>6 DEF StoryInv

(* encode: a codepoint gives at most a token for each of its bytes.        *)
LEMMA CodepointStep ==
  ASSUME StoryInv, EncodeCodepoint
  PROVE  StoryInv'
<1> DEFINE cp == Codepoint(typed, at)
           tk == TokensOf(cp)
<1>1. typed \in Seq(0 .. 255) /\ at \in 1 .. Len(typed) /\ Len(typed) \in Nat
  <2>1. typed \in Texts /\ at \in 1 .. Len(typed) + 1 /\ at <= Len(typed)
    BY DEF StoryInv, Bounds, EncodeCodepoint
  <2>2. typed \in Seq(0 .. 255)
    BY <2>1, StoryAssumption
  <2>3. Len(typed) \in Nat
    BY <2>2, LenProperties
  <2> QED
    BY <2>1, <2>2, <2>3
<1>2. /\ cp \in Seq(0 .. 255) /\ Len(cp) \in Nat \ {0} /\ at + Len(cp) <= Len(typed) + 1
  <2> DEFINE end == at + Width(typed[at]) - 1
             to == IF end < Len(typed) THEN end ELSE Len(typed)
  <2>1. Width(typed[at]) \in 1 .. 4
    BY DEF Width
  <2>2. to \in at .. Len(typed)
    BY <1>1, <2>1
  <2>3. cp = SubSeq(typed, at, to)
    BY DEF Codepoint
  <2> HIDE DEF to, cp
  <2>4. cp \in Seq(0 .. 255) /\ Len(cp) = to - at + 1
    BY <1>1, <2>2, <2>3, PartOf
  <2> QED
    BY <1>1, <2>2, <2>4
<1> HIDE DEF cp
<1>3. IsSeq(tk) /\ Len(tk) \in 0 .. Len(cp)
  <2>1. CASE id(cp) # None
    <3>1. tk = <<id(cp)>>
      BY <2>1 DEF TokensOf
    <3>2. \A b : <<b>> \in Seq({b}) /\ Len(<<b>>) = 1
      OBVIOUS
    <3> HIDE DEF tk
    <3>3. tk \in Seq({id(cp)}) /\ Len(tk) = 1
      BY <3>1, <3>2, Zenon
    <3> QED
      BY <1>2, <3>3 DEF IsSeq
  <2>2. CASE id(cp) = None
    <3>1. tk = [j \in DOMAIN cp |-> cp[j] + 3]
      BY <2>2 DEF TokensOf
    <3> HIDE DEF tk
    <3>2. tk \in Seq(Int) /\ Len(tk) = Len(cp)
      BY <1>2, <3>1, ShiftOf
    <3> QED
      BY <1>2, <3>2 DEF IsSeq
  <2> QED
    BY <2>1, <2>2
<1> HIDE DEF tk
<1>4. prompt' = prompt \o tk /\ at' = at + Len(cp)
  BY DEF EncodeCodepoint, cp, tk
<1>5. IsSeq(prompt') /\ P' = P + Len(tk)
  <2>1. PICK S : prompt \in Seq(S)
    BY DEF StoryInv, Bounds, IsSeq
  <2>2. PICK T : tk \in Seq(T)
    BY <1>3 DEF IsSeq
  <2>3. prompt \in Seq(S \cup T) /\ tk \in Seq(S \cup T)
    BY <2>1, <2>2
  <2> HIDE DEF IsSeq
  <2>4. prompt' \in Seq(S \cup T) /\ Len(prompt') = Len(prompt) + Len(tk)
    BY <1>4, <2>3
  <2> QED
    BY <2>4 DEF IsSeq, P
<1>6. pc = "encode" /\ pc' = "encode"
  BY DEF EncodeCodepoint
<1>7. UNCHANGED <<typed, steps, l, p, cache, text, h, t, att, pos, generated>>
  BY DEF EncodeCodepoint, attnVars, loopVars
<1>8. Bounds'
  BY <1>1, <1>2, <1>3, <1>4, <1>5, <1>6, <1>7 DEF StoryInv, Bounds, CacheShape
<1> QED
  BY <1>6, <1>8 DEF StoryInv, Prefilled, Ready, Decoded, Attended
-----------------------------------------------------------------------------
(* A piece that has a token gives one of the vocabulary.                   *)
LEMMA TokenOf ==
  ASSUME NEW s
  PROVE  id(s) = None \/ (id(s) \in Tokens /\ Piece[id(s)] = s)
<1> DEFINE T == {v \in Tokens : Piece[v] = s}
<1>1. CASE T = {}
  BY <1>1 DEF id
<1>2. CASE T # {}
  <2>1. IsFiniteSet(T) /\ \A v \in T : v \in Int
    <3>1. T \in SUBSET Tokens
      OBVIOUS
    <3> HIDE DEF T
    <3> QED
      BY <3>1, FS_Subset, TokenizerAssumption
  <2>2. \E v \in T : \A u \in T : u <= v
    <3> HIDE DEF T
    <3> DEFINE f == [v \in T |-> v]
    <3>1. \A v \in T : f[v] = v
      OBVIOUS
    <3> HIDE DEF f
    <3>2. PICK v \in T : \A u \in T : f[u] <= f[v]
      BY <1>2, <2>1, <3>1, GreatestIn
    <3> QED
      BY <3>1, <3>2
  <2>3. id(s) \in T
    BY <1>2, <2>2 DEF id
  <2> QED
    BY <2>3
<1> QED
  BY <1>1, <1>2

(* encode merges a pair: one token fewer, as long as there is a pair.      *)
LEMMA PairBest ==
  ASSUME NEW S, NEW s \in Seq(S), Pairs(s) # {}
  PROVE  BestPair(s) \in Pairs(s)
<1> DEFINE Q == Pairs(s)
           M(i) == Merit[Joined(s, i)]
<1>1. \A i \in Q : i \in Nat /\ M(i) \in Int
  <2> TAKE i \in Q
  <2>1. i \in Nat /\ Joined(s, i) # None
    BY LenProperties DEF Pairs
  <2>2. Joined(s, i) \in Tokens
    BY <2>1, TokenOf DEF Joined
  <2> QED
    BY <2>1, <2>2, TokenizerAssumption
<1>2. IsFiniteSet(Q)
  <2>1. Len(s) \in Nat
    BY LenProperties
  <2>2. IsFiniteSet(1 .. Len(s) - 1)
    BY <2>1, FS_Interval
  <2>3. Q \in SUBSET (1 .. Len(s) - 1)
    BY DEF Pairs
  <2> QED
    BY <2>2, <2>3, FS_Subset
<1> HIDE DEF M
<1>3. BestPair(s) = CHOOSE i \in Q : \A j \in Q : M(j) < M(i) \/ (M(j) = M(i) /\ i <= j)
  BY DEF BestPair, M
<1> HIDE DEF Q
<1> DEFINE f == [i \in Q |-> M(i)]
<1>4. PICK w \in Q : \A u \in Q : M(u) <= M(w)
  <2>1. \A u \in Q : f[u] = M(u)
    OBVIOUS
  <2> HIDE DEF f
  <2>2. PICK w \in Q : \A u \in Q : f[u] <= f[w]
    <3>1. Q # {} /\ \A u \in Q : f[u] \in Int
      BY <1>1, <2>1 DEF Q
    <3> QED
      BY <1>2, <3>1, GreatestIn
  <2> QED
    BY <2>1, <2>2
<1>5. PICK i \in {j \in Q : M(j) = M(w)} : \A j \in {k \in Q : M(k) = M(w)} : i <= j
  <2>1. {j \in Q : M(j) = M(w)} \in SUBSET Nat /\ {j \in Q : M(j) = M(w)} # {}
    BY <1>1, <1>4
  <2> QED
    BY <2>1, LeastNat
<1>6. i \in Q /\ \A j \in Q : M(j) < M(i) \/ (M(j) = M(i) /\ i <= j)
  <2>1. ASSUME NEW j \in Q PROVE M(j) < M(i) \/ (M(j) = M(i) /\ i <= j)
    <3>1. M(j) \in Int /\ M(i) \in Int /\ M(i) = M(w) /\ M(j) <= M(w)
      BY <1>1, <1>4, <1>5
    <3>2. M(j) = M(w) => i <= j
      BY <1>5
    <3> QED
      BY <3>1, <3>2
  <2> QED
    BY <1>5, <2>1
<1> QED
  BY <1>3, <1>6 DEF Q

LEMMA MergeShape ==
  ASSUME NEW S, NEW s \in Seq(S), Pairs(s) # {}
  PROVE  IsSeq(Merge(s)) /\ Len(Merge(s)) = Len(s) - 1 /\ Len(s) \in Nat /\ Len(s) >= 2
<1> DEFINE i == BestPair(s)
           y == Joined(s, i)
           T == S \cup {y}
<1>1. s \in Seq(T) /\ y \in T /\ i \in 1 .. Len(s) - 1 /\ Len(s) \in Nat
  <2>1. i \in 1 .. Len(s) - 1
    BY PairBest DEF Pairs
  <2> HIDE DEF i, y
  <2>2. Len(s) \in Nat
    BY LenProperties
  <2>3. s \in Seq(T)
    BY SeqMonotonic
  <2> QED
    BY <2>1, <2>2, <2>3
<1>2. Merge(s) = RemoveAt(ReplaceAt(s, i, y), i + 1)
  BY DEF Merge
<1> HIDE DEF i, y, T
<1>3. Merge(s) \in Seq(T) /\ Len(Merge(s)) = Len(s) - 1
  BY <1>1, <1>2 DEF RemoveAt, ReplaceAt
<1> QED
  BY <1>1, <1>3 DEF IsSeq

LEMMA Sizes ==
  /\ Layers \in Nat \ {0} /\ SeqLen \in Nat \ {0} /\ Heads \in Nat \ {0}
  /\ Sentinel \in Int /\ Under \in Nat
BY StoryAssumption

LEMMA MergeStep ==
  ASSUME StoryInv, MergePair
  PROVE  StoryInv'
<1>1. PICK S : prompt \in Seq(S)
  BY DEF StoryInv, Bounds, IsSeq
<1>2. Pairs(prompt) # {} /\ prompt' = Merge(prompt) /\ pc = "encode" /\ pc' = "encode"
  BY DEF MergePair
<1>3. IsSeq(prompt') /\ P' = P - 1 /\ P \in Nat /\ P >= 2
  BY <1>1, <1>2, MergeShape DEF P
<1>4. UNCHANGED <<typed, steps, at, l, p, cache, text, h, t, att, pos, generated>>
  BY DEF MergePair, attnVars, loopVars
<1>5. at \in Int
  <2>1. typed \in Seq(0 .. 255)
    BY StoryAssumption DEF StoryInv, Bounds
  <2>2. Len(typed) \in Nat
    BY <2>1, LenProperties
  <2> QED
    BY <2>2 DEF StoryInv, Bounds
<1>6. Bounds'
  BY <1>2, <1>3, <1>4, <1>5 DEF StoryInv, Bounds, CacheShape
<1> QED
  BY <1>2, <1>6 DEF StoryInv, Prefilled, Ready, Decoded, Attended

(* The prompt fits the context, and prefill starts from its embeddings.    *)
LEMMA EncodedStep ==
  ASSUME StoryInv, Encoded
  PROVE  StoryInv'
<1>1. /\ pc = "encode" /\ pc' = "prefill" /\ text' = prompt /\ prompt' = prompt
      /\ xall' = [n \in 0 .. P - 1 |-> prompt[n + 1]]
  BY DEF Encoded
<1>2. UNCHANGED <<typed, steps, at, l, p, cache, h, t, att, pos, generated>>
  BY DEF Encoded, attnVars, loopVars
<1>3. P <= SeqLen
  <2>1. typed \in Texts /\ at \in 1 .. Len(typed) + 1 /\ P <= at + 1 /\ P \in Nat
    BY <1>1 DEF StoryInv, Bounds
  <2>2. typed \in Seq(0 .. 255)
    BY <2>1, StoryAssumption
  <2>3. Len(typed) \in Nat
    BY <2>2, LenProperties
  <2>4. Len(typed) + 2 <= SeqLen
    BY <2>1, PromptsFit
  <2> QED
    BY <2>1, <2>3, <2>4, Sizes
<1>4. Bounds'
  BY <1>1, <1>2, <1>3 DEF StoryInv, Bounds, CacheShape, P
<1>5. l = 0 /\ p = 0
  BY <1>1 DEF StoryInv, Bounds
<1>6. Prefilled'
  <2>1. xall' = Evaluated(text')[0]
    BY <1>1, EvaluatedSteps DEF Embedded, P
  <2>2. Held(cache', text', 0, 0) /\ \A y \in 0 .. 0 - 1 : Held(cache', text', y, P')
    BY DEF Held
  <2> QED
    BY <1>1, <1>2, <1>5, <2>1, <2>2 DEF Prefilled
<1> QED
  BY <1>1, <1>4, <1>6 DEF StoryInv, Ready, Decoded, Attended
-----------------------------------------------------------------------------
(* A row written adds its position to its layer, and takes none away.      *)
LEMMA RowHeld ==
  ASSUME Supported, CacheShape, NEW y \in Lays, NEW n \in Poss, NEW s,
         cache' = WriteRow(y, n, Evaluated(s)[y][n])
  PROVE  /\ CacheShape'
         /\ Held(cache, s, y, n) => Held(cache', s, y, n + 1)
         /\ \A z \in Lays, N \in 0 .. SeqLen :
              Held(cache, s, z, N) /\ (z # y \/ N <= n) => Held(cache', s, z, N)
<1>1. KvHeads = Heads /\ n \in Nat /\ n < SeqLen
  BY Sizes DEF Supported, Poss
<1> DEFINE u == Evaluated(s)[y][n]
<1>2. cache' = WriteRow(y, n, u)
  OBVIOUS
<1> HIDE DEF u
<1>3. \A z, k, i : /\ StepRow(z, k, i) = ReadIn(cache, z, k, i)
                   /\ StepRow(z, k, i)' = ReadIn(cache', z, k, i)
  BY DEF StepRow, ReadIn
<1>4. /\ CacheShape'
      /\ \A i \in Hds : ReadIn(cache', y, n, i) = Row(y, n, u, i)
      /\ \A z \in Lays, k \in Poss, i \in Hds :
           z # y \/ k # n => ReadIn(cache', z, k, i) = ReadIn(cache, z, k, i)
  BY <1>1, <1>2, <1>3, Written
<1>5. ASSUME Held(cache, s, y, n) PROVE Held(cache', s, y, n + 1)
  <2> SUFFICES ASSUME NEW k \in 0 .. n, NEW i \in Hds
               PROVE  ReadIn(cache', y, k, i) = Row(y, k, Evaluated(s)[y][k], i)
    BY <1>1 DEF Held
  <2>1. CASE k = n
    BY <1>4, <2>1 DEF u
  <2>2. CASE k # n
    <3>1. k \in Poss /\ k \in 0 .. n - 1
      BY <1>1, <2>2, Sizes DEF Poss
    <3> QED
      BY <1>4, <1>5, <2>2, <3>1 DEF Held
  <2> QED
    BY <2>1, <2>2
<1>6. ASSUME NEW z \in Lays, NEW N \in 0 .. SeqLen, Held(cache, s, z, N), z # y \/ N <= n
      PROVE  Held(cache', s, z, N)
  <2> SUFFICES ASSUME NEW k \in 0 .. N - 1, NEW i \in Hds
               PROVE  ReadIn(cache', z, k, i) = Row(z, k, Evaluated(s)[z][k], i)
    BY DEF Held
  <2>1. k \in Poss /\ (z # y \/ k # n)
    BY <1>1, <1>6, Sizes DEF Poss
  <2>2. ReadIn(cache', z, k, i) = ReadIn(cache, z, k, i)
    BY <1>4, <2>1
  <2> QED
    BY <1>6, <2>2 DEF Held
<1> QED
  BY <1>4, <1>5, <1>6

LEMMA PrefillRowStep ==
  ASSUME Supported, StoryInv, PrefillRow
  PROVE  StoryInv'
<1>1. /\ pc = "prefill" /\ pc' = "prefill" /\ l < Layers /\ p < P /\ p' = p + 1
      /\ cache' = WriteRow(l, p, xall[p])
  BY DEF PrefillRow
<1>2. UNCHANGED <<typed, steps, at, prompt, text, l, xall, h, t, att, pos, generated>>
  BY DEF PrefillRow, attnVars, loopVars
<1>3. /\ xall = Evaluated(text)[l] /\ Held(cache, text, l, p)
      /\ \A y \in 0 .. l - 1 : Held(cache, text, y, P)
      /\ text = prompt
  BY <1>1 DEF StoryInv, Prefilled
<1>4. /\ CacheShape /\ l \in Lays /\ p \in Poss /\ P \in Nat /\ P <= SeqLen /\ p \in Nat
      /\ l \in Nat
  BY <1>1, Sizes DEF StoryInv, Bounds, Lays, Poss
<1>5. /\ CacheShape' /\ Held(cache', text, l, p + 1)
      /\ \A z \in Lays, N \in 0 .. SeqLen :
           Held(cache, text, z, N) /\ (z # l \/ N <= p) => Held(cache', text, z, N)
  BY <1>1, <1>3, <1>4, RowHeld
<1>6. Bounds'
  BY <1>1, <1>2, <1>4, <1>5 DEF StoryInv, Bounds, P
<1>7. \A y \in 0 .. l - 1 : Held(cache', text, y, P)
  <2> TAKE y \in 0 .. l - 1
  <2>1. y \in Lays /\ y # l /\ P \in 0 .. SeqLen
    BY <1>4, Sizes DEF Lays
  <2> QED
    BY <1>3, <1>5, <2>1
<1>8. Prefilled'
  BY <1>1, <1>2, <1>3, <1>5, <1>7 DEF Prefilled, P
<1> QED
  BY <1>1, <1>6, <1>8 DEF StoryInv, Ready, Decoded, Attended

(* The batch attention of prefill is that of evaluating the prompt.        *)
LEMMA PrefillLayerStep ==
  ASSUME Supported, StoryInv, PrefillLayer
  PROVE  StoryInv'
<1>1. /\ pc = "prefill" /\ pc' = "prefill" /\ l < Layers /\ p >= P /\ p' = 0 /\ l' = l + 1
      /\ xall' = [n \in 0 .. P - 1 |->
           Block(xall[n], [i \in 0 .. Heads - 1 |->
             Attention(Row(l, n, xall[n], i),
                       {KRow(l, k, xall[k], i) : k \in Visible(n, P, TRUE)})])]
  BY DEF PrefillLayer
<1>2. UNCHANGED <<typed, steps, at, prompt, text, cache, h, t, att, pos, generated>>
  BY DEF PrefillLayer, attnVars, loopVars
<1>3. /\ xall = Evaluated(text)[l] /\ Held(cache, text, l, p)
      /\ \A y \in 0 .. l - 1 : Held(cache, text, y, P)
      /\ text = prompt
  BY <1>1 DEF StoryInv, Prefilled
<1>4. l \in Nat /\ l \in 0 .. Layers - 1 /\ P \in Nat /\ p = P
  <2>1. l \in 0 .. Layers /\ p \in 0 .. P /\ P \in Nat
    BY DEF StoryInv, Bounds
  <2> QED
    BY <1>1, <2>1, Sizes
<1>5. Bounds'
  <2>1. l' \in 0 .. Layers /\ p' \in 0 .. P
    BY <1>1, <1>4, Sizes
  <2> QED
    BY <1>1, <1>2, <2>1 DEF StoryInv, Bounds, CacheShape, P
<1>6. xall' = Layer(l, P, xall)
  <2>1. ASSUME NEW n \in 0 .. P - 1, NEW i \in 0 .. Heads - 1
        PROVE  {KRow(l, k, xall[k], i) : k \in Visible(n, P, TRUE)}
               = {Row(l, k, xall[k], i) : k \in 0 .. n}
    <3>1. Visible(n, P, TRUE) = 0 .. n
      BY <1>4 DEF Visible
    <3>2. \A k : KRow(l, k, xall[k], i) = Row(l, k, xall[k], i)
      BY Sizes DEF KRow, Supported
    <3> QED
      BY <3>1, <3>2
  <2>2. ASSUME NEW n \in 0 .. P - 1
        PROVE  [i \in 0 .. Heads - 1 |->
                  Attention(Row(l, n, xall[n], i),
                            {KRow(l, k, xall[k], i) : k \in Visible(n, P, TRUE)})]
               = [i \in 0 .. Heads - 1 |->
                  Attention(Row(l, n, xall[n], i), {Row(l, k, xall[k], i) : k \in 0 .. n})]
    BY <2>1
  <2> QED
    BY <1>1, <2>2, Zenon DEF Layer
<1>7. xall' = Evaluated(text)[l + 1]
  BY <1>3, <1>4, <1>6, EvaluatedSteps DEF P
<1>8. \A y \in 0 .. l : Held(cache, text, y, P)
  <2>1. \A y \in 0 .. l : y = l \/ y \in 0 .. l - 1
    BY <1>4
  <2> QED
    BY <1>3, <1>4, <2>1
<1>9. Held(cache, text, l + 1, 0)
  BY DEF Held
<1>10. Prefilled'
  <2>1. (l + 1) - 1 = l
    BY <1>4
  <2> QED
    BY <1>1, <1>2, <1>3, <1>7, <1>8, <1>9, <2>1 DEF Prefilled, P
<1> QED
  BY <1>1, <1>5, <1>10 DEF StoryInv, Ready, Decoded, Attended

LEMMA PrefillDoneStep ==
  ASSUME StoryInv, PrefillDone
  PROVE  StoryInv'
<1>1. /\ pc = "prefill" /\ pc' = "prompt" /\ l >= Layers /\ logits' = xall[P - 1]
  BY DEF PrefillDone, LastRow
<1>2. UNCHANGED <<typed, steps, at, prompt, text, l, p, cache, h, t, att, pos, generated>>
  BY DEF PrefillDone, attnVars, loopVars
<1>3. l = Layers
  BY <1>1, Sizes DEF StoryInv, Bounds
<1>4. /\ xall = Evaluated(text)[Layers] /\ text = prompt
      /\ \A y \in Lays : Held(cache, text, y, P)
  BY <1>1, <1>3 DEF StoryInv, Prefilled, Lays
<1>5. Bounds'
  BY <1>1, <1>2 DEF StoryInv, Bounds, CacheShape, P
<1>6. Prefilled'
  BY <1>1, <1>2, <1>4 DEF Prefilled, P
<1> QED
  BY <1>1, <1>5, <1>6 DEF StoryInv, Ready, Decoded, Attended

LEMMA FirstSampleStep ==
  ASSUME StoryInv, FirstSample
  PROVE  StoryInv'
<1>1. pc = "prompt" /\ pc' = "loop" /\ pos' = P
  BY DEF FirstSample
<1>2. UNCHANGED <<typed, steps, at, prompt, text, l, p, cache, h, t, att, logits, generated>>
  BY DEF FirstSample, attnVars
<1>3. /\ text = prompt /\ \A y \in Lays : Held(cache, text, y, P)
      /\ logits = Evaluated(text)[Layers][P - 1]
  BY <1>1 DEF StoryInv, Prefilled
<1>4. P \in Nat \ {0} /\ P <= SeqLen /\ t = 0
  BY <1>1 DEF StoryInv, Bounds
<1>5. Bounds'
  BY <1>1, <1>2, <1>4, Sizes DEF StoryInv, Bounds, CacheShape, P
<1>6. Ready'
  BY <1>1, <1>2, <1>3, <1>4 DEF Ready, P
<1> QED
  BY <1>1, <1>5, <1>6 DEF StoryInv, Prefilled, Decoded, Attended
-----------------------------------------------------------------------------
(* A token more leaves the positions of the text before it as they were.   *)
LEMMA ContinueStep ==
  ASSUME StoryInv, Continue
  PROVE  StoryInv'
<1>1. /\ pc = "loop" /\ pc' = "row" /\ pos < SeqLen /\ generated < steps /\ l' = 0
      /\ x' = token /\ text' = Append(text, token)
  BY DEF Continue, MayContinue
<1>2. UNCHANGED <<typed, steps, at, prompt, p, cache, h, t, att, pos, generated>>
  BY DEF Continue, attnVars
<1>3. /\ Len(text) = pos /\ pos >= 1 /\ \A y \in Lays : Held(cache, text, y, pos)
  BY <1>1 DEF StoryInv, Ready
<1>4. pos \in Nat
  BY Sizes DEF StoryInv, Bounds
<1>5. PICK S : text \in Seq(S)
  BY DEF StoryInv, Bounds, IsSeq
<1>6. /\ text' \in Seq(S \cup {token}) /\ Len(text') = pos + 1 /\ text'[pos + 1] = token
  <2>1. text \in Seq(S \cup {token})
    BY <1>5, SeqMonotonic
  <2> QED
    BY <1>1, <1>3, <2>1, AppendProperties
<1>7. Bounds'
  BY <1>1, <1>2, <1>6, Sizes DEF StoryInv, Bounds, CacheShape, P, IsSeq
<1>8. ASSUME NEW y \in Lays PROVE Held(cache, text', y, pos)
  <2>1. Held(cache, text, y, pos) /\ y \in 0 .. Layers
    BY <1>3, Sizes DEF Lays
  <2>2. \A n \in 0 .. pos - 1 : Evaluated(text')[y][n] = Evaluated(text)[y][n]
    BY <1>1, <1>3, <1>5, <2>1, Causal
  <2> QED
    BY <2>1, <2>2 DEF Held
<1>9. x' = Evaluated(text')[0][pos]
  <2>1. Evaluated(text')[0] = Embedded(text')
    BY EvaluatedSteps
  <2>2. pos \in 0 .. Len(text') - 1
    BY <1>4, <1>6
  <2> QED
    BY <1>1, <1>6, <2>1, <2>2 DEF Embedded
<1>10. Decoded'
  BY <1>1, <1>2, <1>6, <1>8, <1>9 DEF Decoded
<1> QED
  BY <1>1, <1>7, <1>10 DEF StoryInv, Prefilled, Ready, Attended

LEMMA StopStep ==
  ASSUME StoryInv, Stop
  PROVE  StoryInv'
<1>1. pc = "loop" /\ pc' = "done"
  BY DEF Stop
<1>2. UNCHANGED <<typed, steps, at, prompt, text, l, p, cache, h, t, att, pos, generated>>
  BY DEF Stop, attnVars, loopVars
<1>3. Bounds'
  BY <1>1, <1>2 DEF StoryInv, Bounds, CacheShape, P
<1> QED
  BY <1>1, <1>3 DEF StoryInv, Prefilled, Ready, Decoded, Attended

LEMMA DecodeRowStep ==
  ASSUME Supported, StoryInv, DecodeRow
  PROVE  StoryInv'
<1>1. /\ pc = "row" /\ pc' = "attend" /\ cache' = WriteRow(l, pos, x)
      /\ h' = 0 /\ t' = 0 /\ reg' = Fresh
  BY DEF DecodeRow
<1>2. UNCHANGED <<typed, steps, at, prompt, text, l, p, x, att, pos, generated>>
  BY DEF DecodeRow, loopVars
<1>3. /\ Len(text) = pos + 1 /\ x = Evaluated(text)[l][pos]
      /\ \A y \in Lays : Held(cache, text, y, pos)
      /\ \A y \in 0 .. l - 1 : Held(cache, text, y, pos + 1)
  BY <1>1 DEF StoryInv, Decoded
<1>4. /\ CacheShape /\ l \in Lays /\ pos \in Poss /\ pos \in Nat /\ pos < SeqLen /\ l \in Nat
  BY <1>1, Sizes DEF StoryInv, Bounds, Lays, Poss
<1>5. /\ CacheShape' /\ Held(cache', text, l, pos + 1)
      /\ \A z \in Lays, N \in 0 .. SeqLen :
           Held(cache, text, z, N) /\ (z # l \/ N <= pos) => Held(cache', text, z, N)
  <2>1. cache' = WriteRow(l, pos, Evaluated(text)[l][pos])
    BY <1>1, <1>3
  <2> QED
    BY <1>3, <1>4, <2>1, RowHeld
<1>6. pos \in 0 .. SeqLen /\ pos + 1 \in 0 .. SeqLen
  BY <1>4, Sizes
<1>7. Bounds'
  <2>1. h' \in 0 .. Heads /\ t' \in 0 .. pos + 1 /\ pos < SeqLen /\ l < Layers
    BY <1>1, <1>4, Sizes DEF Lays
  <2>2. generated < steps
    BY <1>1 DEF StoryInv, Bounds
  <2> QED
    BY <1>1, <1>2, <1>5, <2>1, <2>2 DEF StoryInv, Bounds, P
<1>8. \A y \in Lays : Held(cache', text, y, pos)
  <2> TAKE y \in Lays
  <2>1. Held(cache, text, y, pos) /\ pos <= pos
    BY <1>3, <1>4
  <2> QED
    BY <1>5, <1>6, <2>1
<1>9. \A y \in 0 .. l - 1 : Held(cache', text, y, pos + 1)
  <2> TAKE y \in 0 .. l - 1
  <2>1. y \in Lays /\ y # l
    BY <1>4, Sizes DEF Lays
  <2> QED
    BY <1>3, <1>5, <1>6, <2>1
<1>10. Decoded'
  BY <1>1, <1>2, <1>3, <1>8, <1>9 DEF Decoded
<1>11. Attended'
  <2>1. IsFresh(reg')
    BY <1>1 DEF IsFresh, Fresh
  <2>2. \A i \in 0 .. 0 - 1 : att'[i] = Attention(Query(i)', KeysTo(text', l', pos', i))
    OBVIOUS
  <2> QED
    BY <1>1, <1>2, <1>5, <2>1, <2>2 DEF Attended
<1> QED
  BY <1>1, <1>7, <1>10, <1>11 DEF StoryInv, Prefilled, Ready
-----------------------------------------------------------------------------
(* Each key attention_step_cpu reads is the row of that position in the    *)
(* text, and folding it in extends the statistics by it.                   *)
LEMMA KeysGrow ==
  ASSUME NEW s, NEW y, NEW n \in Nat \ {0}, NEW i
  PROVE  KeysTo(s, y, n, i)
         = KeysTo(s, y, n - 1, i) \cup {Row(y, n, Evaluated(s)[y][n], i)}
<1>1. 0 .. n = (0 .. n - 1) \cup {n}
  OBVIOUS
<1> DEFINE R(k) == Row(y, k, Evaluated(s)[y][k], i)
<1>2. KeysTo(s, y, n, i) = {R(k) : k \in 0 .. n}
      /\ KeysTo(s, y, n - 1, i) = {R(k) : k \in 0 .. n - 1}
  BY DEF KeysTo
<1> HIDE DEF R
<1>3. KeysTo(s, y, n, i) = KeysTo(s, y, n - 1, i) \cup {R(n)}
  BY <1>1, <1>2
<1> QED
  BY <1>3 DEF R

LEMMA AttendKeyStep ==
  ASSUME Supported, StoryInv, AttendKey
  PROVE  StoryInv'
<1>1. /\ pc = "attend" /\ pc' = "attend" /\ h < Heads /\ t < pos + 1 /\ t' = t + 1
      /\ LET k == StepRow(l, t, h)
         IN  reg' = FoldInto(reg, Dot(Row(l, pos, x, h), k), k, k)
  BY DEF AttendKey, n_keys
<1>2. UNCHANGED <<typed, steps, at, prompt, text, l, p, cache, x, h, att, pos, generated>>
  BY DEF AttendKey, loopVars
<1>3. /\ l \in Lays /\ pos \in Poss /\ pos \in Nat /\ h \in Hds /\ t \in Nat /\ t \in 0 .. pos
      /\ h # Heads
  <2>1. /\ pos < SeqLen /\ l < Layers /\ l \in 0 .. Layers /\ pos \in 0 .. SeqLen
        /\ h \in 0 .. Heads /\ t \in 0 .. pos + 1
    BY <1>1, Sizes DEF StoryInv, Bounds, Attended, Decoded
  <2> QED
    BY <1>1, <2>1, Sizes DEF Lays, Poss, Hds
<1> DEFINE k == StepRow(l, t, h)
           q == Query(h)
           K == KeysTo(text, l, pos, h)
           sc == ScoresOf(q, K)
<1>4. k = Row(l, t, Evaluated(text)[l][t], h)
  <2>1. Held(cache, text, l, pos + 1) /\ k = ReadIn(cache, l, t, h)
    BY <1>1 DEF StoryInv, Attended, StepRow, ReadIn
  <2>2. t \in 0 .. (pos + 1) - 1
    BY <1>3
  <2> QED
    BY <1>3, <2>1, <2>2 DEF Held
<1>5. k \in K /\ \A n \in 0 .. t : KeysTo(text, l, n, h) \subseteq K
  BY <1>3, <1>4 DEF KeysTo
<1>6. AreScores(sc, K)
  BY <1>3, RowsHaveScores DEF Query
<1>7. reg' = FoldInto(reg, sc[k], k, k)
  <2>1. reg' = FoldInto(reg, Dot(q, k), k, k)
    BY <1>1 DEF Query
  <2> QED
    BY <1>5, <2>1 DEF ScoresOf
<1> HIDE DEF k, sc, q, K
<1>8. Softmaxed(reg', q, K, KeysTo(text, l, t, h))
  <2>1. CASE t = 0
    <3>1. KeysTo(text, l, 0, h) = {k}
      BY <1>4, <2>1 DEF KeysTo
    <3>2. IsFresh(reg)
      BY <1>1, <1>3, <2>1, Sizes DEF StoryInv, Attended
    <3>3. AreScores(sc, {k})
      BY <1>5, <1>6 DEF AreScores
    <3>4. IsSoftmaxOf(reg', sc, {k})
      BY <1>7, <3>2, <3>3, Sizes, FoldFirst
    <3> QED
      BY <2>1, <3>1, <3>4 DEF Softmaxed, sc
  <2>2. CASE t # 0
    <3> DEFINE S == KeysTo(text, l, t - 1, h)
    <3>1. KeysTo(text, l, t, h) = S \cup {k}
      BY <1>3, <1>4, <2>2, KeysGrow
    <3>2. Softmaxed(reg, q, K, S)
      BY <1>1, <2>2 DEF StoryInv, Attended, q, K
    <3> HIDE DEF S
    <3>3. IsSoftmaxOf(reg, sc, S)
      BY <3>2 DEF Softmaxed, sc
    <3>4. S \cup {k} \subseteq K
      BY <1>3, <1>5, <3>1
    <3>5. AreScores(sc, S \cup {k})
      BY <1>6, <3>4 DEF AreScores
    <3>6. IsSoftmaxOf(reg', sc, S \cup {k})
      BY <1>7, <3>3, <3>5, Sizes, FoldOneMore
    <3> QED
      BY <3>1, <3>6 DEF Softmaxed, sc
  <2> QED
    BY <2>1, <2>2
<1>9. Bounds'
  <2>1. t' \in 0 .. pos + 1
    BY <1>1, <1>3
  <2> QED
    BY <1>1, <1>2, <1>3, <2>1 DEF StoryInv, Bounds, CacheShape, P
<1>10. Decoded'
  BY <1>1, <1>2 DEF StoryInv, Decoded
<1>11. Attended'
  <2>1. /\ Held(cache', text', l', pos' + 1)
        /\ \A i \in 0 .. h' - 1 : att'[i] = Attention(Query(i)', KeysTo(text', l', pos', i))
    BY <1>1, <1>2 DEF StoryInv, Attended, Query
  <2>2. t' # 0 /\ t' - 1 = t
    BY <1>1, <1>3
  <2>3. Query(h)' = Query(h) /\ h' = h /\ pos' = pos /\ text' = text /\ l' = l
    BY <1>2 DEF Query
  <2>4. Softmaxed(reg', Query(h'), KeysTo(text', l', pos', h'), KeysTo(text', l', t' - 1, h'))
    BY <1>8, <2>2, <2>3 DEF q, K
  <2> QED
    BY <1>2, <2>1, <2>2, <2>3, <2>4 DEF Attended, Query
<1> QED
  BY <1>1, <1>9, <1>10, <1>11 DEF StoryInv, Prefilled, Ready

LEMMA AttendHeadStep ==
  ASSUME Supported, StoryInv, AttendHead
  PROVE  StoryInv'
<1>1. /\ pc = "attend" /\ pc' = "attend" /\ h < Heads /\ t >= pos + 1
      /\ att' = [att EXCEPT ![h] = [num |-> reg.acc, den |-> reg.l]]
      /\ h' = h + 1 /\ t' = 0 /\ reg' = Fresh
  BY DEF AttendHead, n_keys
<1>2. UNCHANGED <<typed, steps, at, prompt, text, l, p, cache, x, pos, generated>>
  BY DEF AttendHead, loopVars
<1>3. /\ l \in Lays /\ pos \in Poss /\ pos \in Nat /\ h \in Hds /\ h \in Nat
      /\ t = pos + 1
  <2>1. /\ pos < SeqLen /\ l < Layers /\ l \in 0 .. Layers /\ pos \in 0 .. SeqLen
        /\ h \in 0 .. Heads /\ t \in 0 .. pos + 1
    BY <1>1, Sizes DEF StoryInv, Bounds, Attended, Decoded
  <2> QED
    BY <1>1, <2>1, Sizes DEF Lays, Poss, Hds
<1> DEFINE q == Query(h)
           K == KeysTo(text, l, pos, h)
<1>4. AreScores(ScoresOf(q, K), K)
  BY <1>3, RowsHaveScores DEF Query
<1>5. Softmaxed(reg, q, K, K)
  <2>1. t # 0 /\ t - 1 = pos
    BY <1>3
  <2> QED
    BY <1>1, <2>1 DEF StoryInv, Attended
<1>6. Attention(q, K) = [num |-> reg.acc, den |-> reg.l]
  <2> HIDE DEF q, K
  <2> QED
    BY <1>4, <1>5, AttentionOf
<1>7. att = [i \in Hds |-> att[i]]
  BY DEF StoryInv, Bounds
<1>8. /\ att' = [i \in Hds |-> att'[i]] /\ att'[h] = Attention(q, K)
      /\ \A i \in Hds : i # h => att'[i] = att[i]
  <2> HIDE DEF q, K
  <2>1. \A a \in {[num |-> reg.acc, den |-> reg.l]} :
          LET f == [att EXCEPT ![h] = a]
          IN  /\ f = [i \in Hds |-> f[i]] /\ f[h] = a
              /\ \A i \in Hds : i # h => f[i] = att[i]
    BY <1>3, <1>7
  <2> QED
    BY <1>1, <1>6, <2>1
<1>9. Bounds'
  <2>1. h' \in 0 .. Heads /\ t' \in 0 .. pos + 1
    BY <1>1, <1>3, Sizes DEF Hds
  <2> QED
    BY <1>1, <1>2, <1>8, <2>1 DEF StoryInv, Bounds, CacheShape, P
<1>10. Decoded'
  BY <1>1, <1>2 DEF StoryInv, Decoded
<1>11. Attended'
  <2>1. ASSUME NEW i \in 0 .. h PROVE att'[i] = Attention(Query(i), KeysTo(text, l, pos, i))
    <3>1. CASE i = h
      BY <1>8, <3>1
    <3>2. CASE i # h
      <4>1. i \in 0 .. h - 1 /\ i \in Hds
        BY <1>3, <3>2, Sizes DEF Hds
      <4> QED
        BY <1>1, <1>8, <3>2, <4>1 DEF StoryInv, Attended
    <3> QED
      BY <3>1, <3>2
  <2>2. h' - 1 = h /\ \A i : Query(i)' = Query(i)
    BY <1>1, <1>2, <1>3 DEF Query
  <2>3. IsFresh(reg')
    BY <1>1 DEF IsFresh, Fresh
  <2>4. Held(cache', text', l', pos' + 1)
    BY <1>1, <1>2 DEF StoryInv, Attended
  <2> QED
    BY <1>1, <1>2, <2>1, <2>2, <2>3, <2>4 DEF Attended
<1> QED
  BY <1>1, <1>9, <1>10, <1>11 DEF StoryInv, Prefilled, Ready

(* All heads done, x is what the layer makes of the position in the text.  *)
LEMMA DecodeLayerStep ==
  ASSUME Supported, StoryInv, DecodeLayer
  PROVE  StoryInv'
<1>1. /\ pc = "attend" /\ h >= Heads /\ x' = Block(x, att) /\ l' = l + 1
      /\ pc' = IF l + 1 < Layers THEN "row" ELSE "logits"
  BY DEF DecodeLayer
<1>2. UNCHANGED <<typed, steps, at, prompt, text, p, cache, h, t, att, pos, generated>>
  BY DEF DecodeLayer, attnVars, loopVars
<1>3. /\ l \in 0 .. Layers - 1 /\ l \in Nat /\ pos \in Nat /\ pos < SeqLen
      /\ h = Heads /\ t = 0 /\ generated < steps
  <2>1. /\ pos < SeqLen /\ l < Layers /\ l \in 0 .. Layers /\ pos \in 0 .. SeqLen
        /\ h \in 0 .. Heads /\ (h = Heads => t = 0) /\ generated < steps
    BY <1>1 DEF StoryInv, Bounds
  <2> QED
    BY <1>1, <2>1, Sizes
<1>4. /\ Len(text) = pos + 1 /\ x = Evaluated(text)[l][pos]
      /\ \A y \in Lays : Held(cache, text, y, pos)
      /\ \A y \in 0 .. l - 1 : Held(cache, text, y, pos + 1)
      /\ Held(cache, text, l, pos + 1)
      /\ \A i \in 0 .. h - 1 : att[i] = Attention(Query(i), KeysTo(text, l, pos, i))
  BY <1>1 DEF StoryInv, Decoded, Attended
<1>5. att = [i \in Hds |-> Attention(Query(i), KeysTo(text, l, pos, i))]
  <2>1. att = [i \in Hds |-> att[i]]
    BY DEF StoryInv, Bounds
  <2>2. \A i \in Hds : att[i] = Attention(Query(i), KeysTo(text, l, pos, i))
    BY <1>3, <1>4 DEF Hds
  <2> QED
    BY <2>1, <2>2
<1>6. x' = Evaluated(text)[l + 1][pos]
  <2> DEFINE X == Evaluated(text)[l]
  <2>1. Evaluated(text)[l + 1] = Layer(l, Len(text), X)
    BY <1>3, EvaluatedSteps
  <2>2. pos \in 0 .. Len(text) - 1
    BY <1>3, <1>4
  <2>3. Layer(l, Len(text), X)[pos] =
          Block(X[pos], [i \in Hds |-> Attention(Row(l, pos, X[pos], i),
                                                 {Row(l, k, X[k], i) : k \in 0 .. pos})])
    BY <2>2 DEF Layer, Hds
  <2>4. att = [i \in Hds |-> Attention(Row(l, pos, X[pos], i),
                                       {Row(l, k, X[k], i) : k \in 0 .. pos})]
    BY <1>4, <1>5 DEF Query, KeysTo
  <2> QED
    BY <1>1, <1>4, <2>1, <2>3, <2>4
<1>7. \A y \in 0 .. l : Held(cache, text, y, pos + 1)
  <2>1. \A y \in 0 .. l : y = l \/ y \in 0 .. l - 1
    BY <1>3
  <2> QED
    BY <1>4, <2>1
<1>8. (l + 1) - 1 = l /\ l + 1 \in 0 .. Layers /\ (~(l + 1 < Layers) => l + 1 = Layers)
  BY <1>3, Sizes
<1>9. Bounds'
  BY <1>1, <1>2, <1>3, <1>8 DEF StoryInv, Bounds, CacheShape, P
<1>10. Decoded'
  BY <1>1, <1>2, <1>4, <1>6, <1>7, <1>8 DEF Decoded
<1> QED
  BY <1>1, <1>9, <1>10 DEF StoryInv, Prefilled, Ready, Attended

LEMMA NextSampleStep ==
  ASSUME StoryInv, NextSample
  PROVE  StoryInv'
<1>1. /\ pc = "logits" /\ pc' = "loop" /\ logits' = x /\ pos' = pos + 1
      /\ generated' = generated + 1
  BY DEF NextSample
<1>2. UNCHANGED <<typed, steps, at, prompt, text, l, p, cache, h, t, att>>
  BY DEF NextSample, attnVars
<1>3. /\ pos \in 0 .. SeqLen /\ pos < SeqLen /\ generated \in 0 .. steps /\ generated < steps
      /\ steps \in Nat /\ t = 0
  BY <1>1 DEF StoryInv, Bounds
<1>4. /\ Len(text) = pos + 1 /\ x = Evaluated(text)[Layers][pos] /\ l = Layers
      /\ \A y \in 0 .. l - 1 : Held(cache, text, y, pos + 1)
  BY <1>1 DEF StoryInv, Decoded
<1>5. /\ pos' \in 0 .. SeqLen /\ generated' \in 0 .. steps /\ pos' >= 1 /\ pos' - 1 = pos
      /\ t' \in 0 .. pos' + 1
  BY <1>1, <1>2, <1>3, Sizes
<1>6. Bounds'
  BY <1>1, <1>2, <1>3, <1>5 DEF StoryInv, Bounds, CacheShape, P
<1>7. Ready'
  BY <1>1, <1>2, <1>4, <1>5 DEF Ready, Lays
<1> QED
  BY <1>1, <1>6, <1>7 DEF StoryInv, Prefilled, Decoded, Attended

LEMMA StutterStep ==
  ASSUME StoryInv, UNCHANGED vars
  PROVE  StoryInv'
<1>1. UNCHANGED <<typed, steps, pc, at, prompt, l, p, xall, cache, x, h, t, reg, att,
                  logits, pos, generated, text>>
  BY DEF vars
<1>2. Bounds'
  BY <1>1 DEF StoryInv, Bounds, CacheShape, P
<1>3. Prefilled' /\ Ready' /\ Decoded'
  BY <1>1 DEF StoryInv, Prefilled, Ready, Decoded, P
<1>4. Attended'
  BY <1>1 DEF StoryInv, Attended, Query
<1> QED
  BY <1>2, <1>3, <1>4 DEF StoryInv
-----------------------------------------------------------------------------
(* Between tokens every layer of the cache holds the whole text; inside    *)
(* prefill and decode, the layers behind also the positions in progress.   *)
THEOREM StoryInvariance == Supported => (Spec => []StoryInv)
<1> SUFFICES ASSUME Supported PROVE Spec => []StoryInv
  OBVIOUS
<1>1. Init => StoryInv
  BY InitInv
<1>2. StoryInv /\ [Next]_vars => StoryInv'
  BY CodepointStep, MergeStep, EncodedStep, PrefillRowStep, PrefillLayerStep,
     PrefillDoneStep, FirstSampleStep, ContinueStep, StopStep, DecodeRowStep,
     AttendKeyStep, AttendHeadStep, DecodeLayerStep, NextSampleStep, StutterStep
     DEF Next, Encode, Prefill, Decode, Main, Finished
<1> QED
  BY <1>1, <1>2, PTL DEF Spec

(* Nothing leaves its array: rows are written inside the layer's part of   *)
(* the cache and read inside it, positions stay within the context.        *)
THEOREM TypeCorrect == Supported => (Spec => []TypeOK)
<1> SUFFICES ASSUME Supported PROVE Spec => []TypeOK
  OBVIOUS
<1>1. StoryInv => TypeOK
  <2> SUFFICES ASSUME StoryInv PROVE TypeOK
    OBVIOUS
  <2>1. ASSUME pc = "attend", h < Heads, t < n_keys
        PROVE  StepSlot(l, t, h) \in Base(l) .. Base(l + 1) - 1
    <3>1. /\ pos < SeqLen /\ l < Layers /\ l \in 0 .. Layers /\ pos \in 0 .. SeqLen
          /\ h \in 0 .. Heads /\ t \in 0 .. pos + 1
      BY <2>1 DEF StoryInv, Bounds
    <3>2. l \in Lays /\ t \in Poss /\ h \in Hds
      BY <2>1, <3>1, Sizes DEF Lays, Poss, Hds, n_keys
    <3> QED
      BY <3>2, SlotIndex DEF Supported
  <2>2. pc # "encode" => P \in 1 .. SeqLen
    BY Sizes DEF StoryInv, Bounds
  <2> QED
    BY <2>1, <2>2 DEF StoryInv, Bounds, TypeOK, n_keys
<1> QED
  BY <1>1, StoryInvariance, PTL

(* attention_step_cpu's n_heads-wide reading of the cache finds the row of *)
(* the current text for every head and every position up to the query's.   *)
THEOREM CacheLayoutHolds == Supported => (Spec => []CacheLayout)
<1> SUFFICES ASSUME Supported PROVE Spec => []CacheLayout
  OBVIOUS
<1>1. StoryInv => CacheLayout
  <2> SUFFICES ASSUME StoryInv, pc = "attend", NEW n \in 0 .. pos, NEW i \in 0 .. Heads - 1
               PROVE  StepRow(l, n, i) = Row(l, n, Evaluated(text)[l][n], i)
    BY DEF CacheLayout
  <2>1. Held(cache, text, l, pos + 1) /\ pos \in 0 .. SeqLen
    BY DEF StoryInv, Attended, Bounds
  <2>2. n \in 0 .. (pos + 1) - 1
    BY <2>1, Sizes
  <2> QED
    BY <2>1, <2>2 DEF Held, ReadIn, StepRow, Hds
<1> QED
  BY <1>1, StoryInvariance, PTL

(* What is sampled from are the logits of the whole text, evaluated anew.  *)
THEOREM SampledFromTextHolds == Supported => (Spec => []SampledFromText)
<1> SUFFICES ASSUME Supported PROVE Spec => []SampledFromText
  OBVIOUS
<1>1. StoryInv => SampledFromText
  BY DEF StoryInv, Ready, SampledFromText
<1> QED
  BY <1>1, StoryInvariance, PTL
-----------------------------------------------------------------------------
(* FlattenSeq is the recursion it is defined by.                           *)
Flattens(f, ss, n, S) ==
  /\ f[1] = ss[1] /\ FlattenSeq(ss) = f[n]
  /\ \A i \in 2 .. n : f[i] = f[i - 1] \o ss[i]
  /\ \A i \in 1 .. n : f[i] \in Seq(S)

LEMMA FlattenSteps ==
  ASSUME NEW S, NEW ss \in Seq(Seq(S)), NEW n \in Nat \ {0}, Len(ss) = n
  PROVE  \E f : Flattens(f, ss, n, S)
<1> DEFINE J(r, i) == IF i = 1 THEN ss[i] ELSE r \o ss[i]
           Good(f, k) == \A i \in 1 .. k : f[i] = J(f[i - 1], i)
           K == {k \in 0 .. n : \E f : Good(f, k)}
<1>1. 0 \in K
  <2>1. Good(<<>>, 0)
    OBVIOUS
  <2>2. \E f : Good(f, 0)
    BY <2>1
  <2> QED
    BY <2>2
<1>2. ASSUME NEW k \in 0 .. n - 1, k \in K PROVE k + 1 \in K
  <2> HIDE DEF J
  <2>1. PICK f : Good(f, k)
    BY <1>2
  <2> DEFINE g == [i \in 0 .. k + 1 |-> IF i <= k THEN f[i] ELSE J(f[k], k + 1)]
  <2>2. ASSUME NEW i \in 1 .. k + 1 PROVE g[i] = J(g[i - 1], i)
    <3>1. g[i - 1] = f[i - 1] /\ i - 1 \in 0 .. k
      OBVIOUS
    <3>2. CASE i <= k
      BY <2>1, <3>1, <3>2
    <3>3. CASE i = k + 1
      <4>1. g[i] = J(f[k], k + 1) /\ i - 1 = k
        BY <3>3
      <4> QED
        BY <3>1, <3>3, <4>1
    <3> QED
      BY <3>2, <3>3
  <2> HIDE DEF g
  <2>3. Good(g, k + 1)
    BY <2>2
  <2>4. \E z : Good(z, k + 1)
    BY <2>3
  <2> HIDE DEF Good
  <2> QED
    BY <2>4
<1> HIDE DEF J
<1>3. PICK f : Good(f, n)
  <2> HIDE DEF K
  <2>1. 0 .. n \subseteq K
    BY <1>1, <1>2, UpTo
  <2>2. n \in K
    BY <2>1
  <2> HIDE DEF Good
  <2> QED
    BY <2>2 DEF K
<1>4. \E X : X = [i \in 1 .. n |-> J(X[i - 1], i)]
  <2> DEFINE X == [i \in 1 .. n |-> f[i]]
  <2>1. ASSUME NEW i \in 1 .. n PROVE f[i] = J(X[i - 1], i)
    <3>1. CASE i = 1
      BY <1>3, <3>1 DEF J
    <3>2. CASE i # 1
      <4>1. X[i - 1] = f[i - 1]
        BY <3>2
      <4> HIDE DEF X
      <4> QED
        BY <1>3, <4>1
    <3> QED
      BY <3>1, <3>2
  <2>2. X = [i \in 1 .. n |-> J(X[i - 1], i)]
    BY <2>1
  <2> QED
    BY <2>2
<1> DEFINE flatten == CHOOSE X : X = [i \in 1 .. n |-> J(X[i - 1], i)]
<1>5. flatten = [i \in 1 .. n |-> J(flatten[i - 1], i)]
  BY <1>4
<1>6. FlattenSeq(ss) = flatten[n]
  BY DEF FlattenSeq, J
<1> HIDE DEF flatten
<1>7. \A i \in 1 .. n : flatten[i] = J(flatten[i - 1], i)
  BY <1>5
<1>8. flatten[1] = ss[1]
  <2>1. flatten[1] = J(flatten[0], 1)
    BY <1>7
  <2> QED
    BY <2>1, Zenon DEF J
<1>9. ASSUME NEW i \in 2 .. n PROVE flatten[i] = flatten[i - 1] \o ss[i]
  <2>1. flatten[i] = J(flatten[i - 1], i) /\ i # 1
    BY <1>7
  <2> QED
    BY <2>1, Zenon DEF J
<1>10. ASSUME NEW i \in 1 .. n PROVE flatten[i] \in Seq(S)
  <2> DEFINE T == {k \in 0 .. n : k = 0 \/ flatten[k] \in Seq(S)}
  <2>1. \A k \in 1 .. n : ss[k] \in Seq(S)
    BY ElementOfSeq
  <2>2. ASSUME NEW k \in 0 .. n - 1, k \in T PROVE k + 1 \in T
    <3>1. CASE k = 0
      BY <1>8, <2>1, <3>1
    <3>2. CASE k # 0
      <4>1. k + 1 \in 2 .. n /\ (k + 1) - 1 = k
        BY <3>2
      <4>2. \E r \in Seq(S), e \in Seq(S) : flatten[k + 1] = r \o e
        <5>1. flatten[k] \in Seq(S) /\ ss[k + 1] \in Seq(S)
          BY <2>1, <2>2, <3>2, <4>1
        <5>2. flatten[k + 1] = flatten[k] \o ss[k + 1]
          BY <1>9, <4>1
        <5> QED
          BY <5>1, <5>2, Zenon
      <4>3. flatten[k + 1] \in Seq(S)
        BY <4>2, ConcatProperties, Zenon
      <4> QED
        BY <4>1, <4>3
    <3> QED
      BY <3>1, <3>2
  <2>3. 0 \in T
    OBVIOUS
  <2> HIDE DEF T
  <2>4. 0 .. n \subseteq T
    BY <2>2, <2>3, UpTo
  <2> QED
    BY <2>4 DEF T
<1>11. Flattens(flatten, ss, n, S)
  BY <1>6, <1>8, <1>9, <1>10 DEF Flattens
<1> QED
  BY <1>11

LEMMA FlattenEmpty == FlattenSeq(<<>>) = <<>>
BY EmptySeq DEF FlattenSeq

(* FlattenSeq grows with its argument.                                     *)
LEMMA FlattenAppend ==
  ASSUME NEW S, NEW ss \in Seq(Seq(S)), NEW e \in Seq(S)
  PROVE  /\ FlattenSeq(ss) \in Seq(S)
         /\ FlattenSeq(Append(ss, e)) = FlattenSeq(ss) \o e
<1>1. PICK n \in Nat : Len(ss) = n
  BY LenProperties
<1> DEFINE tt == Append(ss, e)
<1>2. /\ tt \in Seq(Seq(S)) /\ Len(tt) = n + 1 /\ tt[n + 1] = e
      /\ \A i \in 1 .. n : tt[i] = ss[i]
  BY <1>1, AppendProperties
<1> HIDE DEF tt
<1>3. PICK g : Flattens(g, tt, n + 1, S)
  <2>1. n + 1 \in Nat \ {0}
    OBVIOUS
  <2> QED
    BY <1>2, <2>1, FlattenSteps, Zenon
<1>4. CASE n = 0
  <2>1. ss = <<>> /\ <<>> \in Seq(S)
    BY <1>1, <1>4, EmptySeq
  <2>2. FlattenSeq(tt) = e
    BY <1>2, <1>3, <1>4 DEF Flattens
  <2>3. <<>> \o e = e
    BY ConcatEmptySeq
  <2> QED
    BY <2>1, <2>2, <2>3, FlattenEmpty DEF tt
<1>5. CASE n # 0
  <2>1. PICK f : Flattens(f, ss, n, S)
    <3>1. n \in Nat \ {0}
      BY <1>5
    <3> QED
      BY <1>1, <3>1, FlattenSteps, Zenon
  <2> DEFINE T == {k \in 0 .. n : k = 0 \/ f[k] = g[k]}
  <2>2. ASSUME NEW k \in 0 .. n - 1, k \in T PROVE k + 1 \in T
    <3>1. CASE k = 0
      BY <1>2, <1>3, <2>1, <3>1 DEF Flattens
    <3>2. CASE k # 0
      <4>1. k + 1 \in 2 .. n /\ (k + 1) - 1 = k /\ k + 1 \in 2 .. n + 1 /\ k + 1 \in 1 .. n
        BY <3>2
      <4>2. f[k + 1] = f[k] \o ss[k + 1]
        BY <2>1, <4>1 DEF Flattens
      <4>3. g[k + 1] = g[k] \o tt[k + 1]
        BY <1>3, <4>1 DEF Flattens
      <4>4. tt[k + 1] = ss[k + 1] /\ f[k] = g[k]
        BY <1>2, <2>2, <3>2, <4>1
      <4>5. f[k + 1] = g[k + 1]
        BY <4>2, <4>3, <4>4, Zenon
      <4> QED
        BY <4>1, <4>5
    <3> QED
      BY <3>1, <3>2
  <2>3. 0 \in T
    OBVIOUS
  <2> HIDE DEF T
  <2>4. f[n] = g[n]
    <3>1. 0 .. n \subseteq T
      BY <2>2, <2>3, UpTo
    <3>2. n \in T
      BY <3>1
    <3> QED
      BY <1>5, <3>2 DEF T
  <2>5. g[n + 1] = g[n] \o tt[n + 1]
    <3>1. n + 1 \in 2 .. n + 1 /\ (n + 1) - 1 = n
      BY <1>5
    <3> QED
      BY <1>3, <3>1 DEF Flattens
  <2>6. f[n] \in Seq(S)
    BY <1>5, <2>1 DEF Flattens
  <2> QED
    BY <1>2, <1>3, <2>1, <2>4, <2>5, <2>6, Zenon DEF tt, Flattens
<1> QED
  BY <1>4, <1>5
-----------------------------------------------------------------------------
(* A token's output is a sequence of numbers.                              *)
LEMMA SpelledIn ==
  ASSUME NEW s \in Seq(Nat)
  PROVE  Spelled(s) \in Seq(Nat)
<1>1. CASE s # <<>> /\ Head(s) >= Hex
  <2>1. Head(s) \in Nat
    BY <1>1, HeadTailProperties
  <2>2. Head(s) - Hex \in Nat
    BY <1>1, <2>1 DEF Hex
  <2>3. \A b \in Nat : <<b>> \in Seq(Nat)
    OBVIOUS
  <2> QED
    BY <1>1, <2>2, <2>3, Zenon DEF Spelled
<1>2. CASE ~(s # <<>> /\ Head(s) >= Hex)
  BY <1>2, Zenon DEF Spelled
<1> QED
  BY <1>1, <1>2

(* What a token prints is a sequence of bytes.                             *)
LEMMA OutputIn ==
  ASSUME NEW u, NEW v \in Tokens
  PROVE  Output(u, v) \in Seq(Nat)
<1> DEFINE s == Piece[v]
           r == IF u = BOS /\ s # <<>> /\ Head(s) = Space THEN Tail(s) ELSE s
<1>1. s \in Seq(Nat)
  BY TokenizerAssumption
<1>2. r \in Seq(Nat)
  <2> HIDE DEF s
  <2>1. s # <<>> => Tail(s) \in Seq(Nat)
    BY <1>1, HeadTailProperties
  <2> QED
    BY <1>1, <2>1
<1>3. Output(u, v) = Spelled(r)
  BY DEF Output
<1> HIDE DEF r
<1> QED
  BY <1>2, <1>3, SpelledIn

(* Outputs joins what each token says after the one before it.             *)
Before(u, toks) == <<u>> \o toks
Latest(u, toks) == Before(u, toks)[Len(toks) + 1]
Said(u, toks) == [i \in DOMAIN toks |-> Output(Before(u, toks)[i], toks[i])]

LEMMA BeforeIs ==
  ASSUME NEW u \in Tokens, NEW toks \in Seq(Tokens)
  PROVE  /\ Before(u, toks) \in Seq(Tokens) /\ Len(Before(u, toks)) = Len(toks) + 1
         /\ Before(u, toks)[1] = u
         /\ \A i \in 1 .. Len(toks) : Before(u, toks)[i + 1] = toks[i]
         /\ Latest(u, toks) \in Tokens
<1>1. PICK n \in Nat : n = Len(toks)
  BY LenProperties
<1>2. <<u>> \in Seq(Tokens) /\ Len(<<u>>) = 1 /\ <<u>>[1] = u
  OBVIOUS
<1> DEFINE one == <<u>>
           w == one \o toks
<1>3. w = Before(u, toks)
  BY DEF Before
<1>4. one \in Seq(Tokens) /\ Len(one) = 1 /\ one[1] = u
  BY <1>2
<1> HIDE DEF one
<1>5. /\ w \in Seq(Tokens) /\ Len(w) = n + 1
      /\ \A i \in 1 .. n + 1 : w[i] = IF i <= 1 THEN one[i] ELSE toks[i - 1]
  <2>1. /\ w \in Seq(Tokens) /\ Len(w) = Len(one) + Len(toks)
        /\ \A i \in 1 .. Len(one) + Len(toks) :
             w[i] = IF i <= Len(one) THEN one[i] ELSE toks[i - Len(one)]
    BY <1>4, ConcatProperties
  <2> HIDE DEF w
  <2>2. Len(one) + Len(toks) = n + 1
    BY <1>1, <1>4
  <2> QED
    BY <1>4, <2>1, <2>2
<1> HIDE DEF w
<1>6. w[1] = u
  BY <1>4, <1>5
<1>7. ASSUME NEW i \in 1 .. n PROVE w[i + 1] = toks[i]
  <2>1. i + 1 \in 1 .. n + 1 /\ ~(i + 1 <= 1) /\ (i + 1) - 1 = i
    OBVIOUS
  <2> QED
    BY <1>5, <2>1
<1>8. w[n + 1] \in Tokens
  <2>1. n + 1 \in 1 .. n + 1
    OBVIOUS
  <2> QED
    BY <1>5, <2>1, ElementOfSeq
<1> QED
  BY <1>1, <1>3, <1>5, <1>6, <1>7, <1>8 DEF Latest

LEMMA SaidIn ==
  ASSUME NEW u \in Tokens, NEW toks \in Seq(Tokens)
  PROVE  Said(u, toks) \in Seq(Seq(Nat)) /\ Len(Said(u, toks)) = Len(toks)
<1>1. PICK n \in Nat : n = Len(toks) /\ DOMAIN toks = 1 .. n
  BY LenProperties
<1>2. ASSUME NEW i \in 1 .. n PROVE Output(Before(u, toks)[i], toks[i]) \in Seq(Nat)
  BY <1>1, ElementOfSeq, OutputIn
<1>3. Said(u, toks) \in [1 .. n -> Seq(Nat)]
  BY <1>1, <1>2 DEF Said
<1> QED
  BY <1>1, <1>3, SequenceOf

LEMMA OutputsEmpty ==
  ASSUME NEW u \in Tokens
  PROVE  Outputs(u, <<>>) = <<>>
<1>1. <<>> \in Seq(Tokens) /\ Len(<<>>) = 0
  BY EmptySeq
<1>2. Said(u, <<>>) \in Seq(Seq(Nat)) /\ Len(Said(u, <<>>)) = 0
  BY <1>1, SaidIn
<1>3. Said(u, <<>>) = <<>>
  BY <1>2, EmptySeq
<1>4. Outputs(u, <<>>) = FlattenSeq(Said(u, <<>>))
  BY DEF Outputs, Said, Before
<1> QED
  BY <1>3, <1>4, FlattenEmpty

(* A token appended adds what it says after the last.                      *)
LEMMA SaidAppend ==
  ASSUME NEW u \in Tokens, NEW toks \in Seq(Tokens), NEW v \in Tokens
  PROVE  /\ Said(u, Append(toks, v)) = Append(Said(u, toks), Output(Latest(u, toks), v))
         /\ Latest(u, Append(toks, v)) = v
<1>1. PICK n \in Nat : n = Len(toks)
  BY LenProperties
<1> DEFINE a == Append(toks, v)
           o == Output(Latest(u, toks), v)
<1>2. a \in Seq(Tokens) /\ Len(a) = n + 1 /\ a[n + 1] = v /\ \A i \in 1 .. n : a[i] = toks[i]
  BY <1>1, AppendProperties
<1> HIDE DEF a
<1>3. o \in Seq(Nat)
  BY BeforeIs, OutputIn
<1> HIDE DEF o
<1>4. /\ Said(u, toks) \in Seq(Seq(Nat)) /\ Len(Said(u, toks)) = n
      /\ Said(u, a) \in Seq(Seq(Nat)) /\ Len(Said(u, a)) = n + 1
  BY <1>1, <1>2, SaidIn
<1>5. /\ Append(Said(u, toks), o) \in Seq(Seq(Nat)) /\ Len(Append(Said(u, toks), o)) = n + 1
      /\ Append(Said(u, toks), o)[n + 1] = o
      /\ \A i \in 1 .. n : Append(Said(u, toks), o)[i] = Said(u, toks)[i]
  BY <1>3, <1>4, AppendProperties
<1> HIDE DEF Before
<1>6. /\ Before(u, a)[1] = u /\ \A i \in 1 .. n + 1 : Before(u, a)[i + 1] = a[i]
      /\ Before(u, toks)[1] = u /\ \A i \in 1 .. n : Before(u, toks)[i + 1] = toks[i]
  <2>1. \A s \in Seq(Tokens) : /\ Before(u, s)[1] = u
                              /\ \A i \in 1 .. Len(s) : Before(u, s)[i + 1] = s[i]
    BY BeforeIs
  <2>2. Before(u, a)[1] = u /\ \A i \in 1 .. Len(a) : Before(u, a)[i + 1] = a[i]
    BY <1>2, <2>1, Zenon
  <2>3. Before(u, toks)[1] = u /\ \A i \in 1 .. Len(toks) : Before(u, toks)[i + 1] = toks[i]
    BY <2>1, Zenon
  <2> QED
    BY <1>1, <1>2, <2>2, <2>3
<1>7. ASSUME NEW i \in 1 .. n + 1 PROVE Before(u, a)[i] = Before(u, toks)[i]
  <2>1. CASE i = 1
    BY <1>6, <2>1
  <2>2. CASE i # 1
    <3>1. PICK j \in 1 .. n : i = j + 1
      <4>1. i - 1 \in 1 .. n /\ i = (i - 1) + 1
        BY <2>2
      <4> QED
        BY <4>1
    <3>2. j \in 1 .. n + 1 /\ Before(u, a)[j + 1] = a[j] /\ Before(u, toks)[j + 1] = toks[j]
      BY <1>6
    <3> QED
      BY <1>2, <3>1, <3>2
  <2> QED
    BY <2>1, <2>2
<1>8. ASSUME NEW i \in 1 .. n + 1 PROVE Said(u, a)[i] = Append(Said(u, toks), o)[i]
  <2>1. Said(u, a)[i] = Output(Before(u, a)[i], a[i])
    <3>1. DOMAIN a = 1 .. n + 1
      BY <1>2, LenProperties
    <3> QED
      BY <3>1 DEF Said
  <2>2. CASE i = n + 1
    <3>1. Before(u, a)[i] = Latest(u, toks)
      BY <1>1, <1>7, <2>2 DEF Latest
    <3> QED
      BY <1>2, <1>5, <2>1, <2>2, <3>1 DEF o
  <2>3. CASE i # n + 1
    <3>1. i \in 1 .. n
      BY <2>3
    <3>2. Said(u, toks)[i] = Output(Before(u, toks)[i], toks[i])
      <4>1. DOMAIN toks = 1 .. n
        BY <1>1, LenProperties
      <4> QED
        BY <3>1, <4>1 DEF Said
    <3> QED
      BY <1>2, <1>5, <1>7, <2>1, <3>1, <3>2
  <2> QED
    BY <2>2, <2>3
<1>9. Said(u, a) = Append(Said(u, toks), o)
  BY <1>4, <1>5, <1>8, SeqEqual
<1>10. Latest(u, a) = v
  <2>1. n + 1 \in 1 .. n + 1
    OBVIOUS
  <2>2. Before(u, a)[(n + 1) + 1] = a[n + 1]
    BY <1>6, <2>1
  <2> QED
    BY <1>2, <2>2 DEF Latest
<1> QED
  BY <1>9, <1>10 DEF a, o

(* What is printed so far is not affected by a further token.              *)
LEMMA OutputsAppend ==
  ASSUME NEW u \in Tokens, NEW toks \in Seq(Tokens), NEW v \in Tokens
  PROVE  /\ Outputs(u, toks) \in Seq(Nat)
         /\ Outputs(u, Append(toks, v)) = Outputs(u, toks) \o Output(Latest(u, toks), v)
<1>1. \A s : Outputs(u, s) = FlattenSeq(Said(u, s))
  BY DEF Outputs, Said, Before
<1>2. Said(u, toks) \in Seq(Seq(Nat)) /\ Output(Latest(u, toks), v) \in Seq(Nat)
  BY SaidIn, BeforeIs, OutputIn
<1>3. Said(u, Append(toks, v)) = Append(Said(u, toks), Output(Latest(u, toks), v))
  BY SaidAppend
<1>4. \A ss \in Seq(Seq(Nat)), e \in Seq(Nat) :
        /\ FlattenSeq(ss) \in Seq(Nat)
        /\ FlattenSeq(Append(ss, e)) = FlattenSeq(ss) \o e
  BY FlattenAppend
<1> QED
  BY <1>1, <1>2, <1>3, <1>4, Zenon

IsAssociative(S) == \A q, r, s \in Seq(S) : (q \o r) \o s = q \o (r \o s)

LEMMA AssociativeIn == ASSUME NEW S PROVE IsAssociative(S)
  BY ConcatAssociative DEF IsAssociative

LEMMA Associative == \A q, r, s \in Seq(Nat) : (q \o r) \o s = q \o (r \o s)
<1>1. IsAssociative(Nat)
  BY AssociativeIn
<1> QED
  BY <1>1 DEF IsAssociative

LEMMA ConcatAppend ==
  ASSUME NEW S, NEW a \in Seq(S), NEW b \in Seq(S), NEW v \in S
  PROVE  a \o Append(b, v) = Append(a \o b, v)
<1>1. Append(b, v) = b \o <<v>> /\ <<v>> \in Seq(S)
  BY AppendIsConcat
<1>2. a \o b \in Seq(S)
  BY ConcatProperties
<1>3. Append(a \o b, v) = (a \o b) \o <<v>>
  BY <1>2, AppendIsConcat
<1>4. (a \o b) \o <<v>> = a \o (b \o <<v>>)
  BY <1>1, ConcatAssociative
<1> QED
  BY <1>1, <1>3, <1>4, Zenon

LEMMA PrefixGrows ==
  ASSUME NEW S, NEW b \in Seq(S), NEW n \in Nat, Len(b) = n
  PROVE  /\ \A k \in 0 .. n : SubSeq(b, 1, k) \in Seq(S)
         /\ \A k \in 0 .. n - 1 : SubSeq(b, 1, k + 1) = Append(SubSeq(b, 1, k), b[k + 1])
<1>1. ASSUME NEW k \in 0 .. n PROVE SubSeq(b, 1, k) \in Seq(S)
  <2>1. CASE k = 0
    BY <2>1, SubSeqEmpty, EmptySeq
  <2>2. CASE k # 0
    <3>1. 1 \in 1 .. Len(b) /\ k \in 1 .. Len(b)
      BY <2>2
    <3> QED
      BY <3>1, PartOf
  <2> QED
    BY <2>1, <2>2
<1>2. ASSUME NEW k \in 0 .. n - 1
      PROVE  SubSeq(b, 1, k + 1) = Append(SubSeq(b, 1, k), b[k + 1])
  <2>1. PICK j : j = k + 1 /\ j - 1 = k /\ j \in 1 .. n /\ 1 \in 1 .. n
    OBVIOUS
  <2>2. SubSeq(b, 1, j) = SubSeq(b, 1, j - 1) \o <<b[j]>>
    BY <2>1, SubSeqRecursiveSecond
  <2>3. b[j] \in S
    BY <2>1, ElementOfSeq
  <2>4. SubSeq(b, 1, k) \in Seq(S)
    BY <1>1, <2>1
  <2>5. Append(SubSeq(b, 1, k), b[j]) = SubSeq(b, 1, k) \o <<b[j]>>
    BY <2>3, <2>4, AppendIsConcat
  <2> QED
    BY <2>1, <2>2, <2>5
<1> QED
  BY <1>1, <1>2

(* Two runs of tokens print one after the other.                           *)
LEMMA OutputsConcat ==
  ASSUME NEW u \in Tokens, NEW a \in Seq(Tokens), NEW b \in Seq(Tokens)
  PROVE  /\ Outputs(u, a \o b) = Outputs(u, a) \o Outputs(Latest(u, a), b)
         /\ Latest(u, a \o b) = Latest(Latest(u, a), b)
<1>1. PICK n \in Nat : n = Len(b)
  BY LenProperties
<1> DEFINE w == Latest(u, a)
           c(k) == SubSeq(b, 1, k)
           Good(k) == /\ Outputs(u, a \o c(k)) = Outputs(u, a) \o Outputs(w, c(k))
                      /\ Latest(u, a \o c(k)) = Latest(w, c(k))
           T == {k \in 0 .. n : Good(k)}
<1>2. w \in Tokens
  BY BeforeIs
<1> HIDE DEF w
<1>3. \A y \in Tokens, s \in Seq(Tokens) : Outputs(y, s) \in Seq(Nat)
  BY OutputsAppend
<1>4. \A y \in Tokens, s \in Seq(Tokens), v \in Tokens :
        /\ Outputs(y, Append(s, v)) = Outputs(y, s) \o Output(Latest(y, s), v)
        /\ Latest(y, Append(s, v)) = v
  BY OutputsAppend, SaidAppend
<1>5. c(0) = <<>>
  BY SubSeqEmpty
<1>6. ASSUME NEW k \in 0 .. n PROVE c(k) \in Seq(Tokens)
  BY <1>1, PrefixGrows
<1>7. ASSUME NEW k \in 0 .. n - 1
      PROVE  c(k + 1) = Append(c(k), b[k + 1]) /\ b[k + 1] \in Tokens
  <2>1. k + 1 \in 1 .. n
    OBVIOUS
  <2>2. b[k + 1] \in Tokens
    BY <1>1, <2>1, ElementOfSeq
  <2> QED
    BY <1>1, <2>2, PrefixGrows
<1> HIDE DEF c
<1>8. Good(0)
  <2>1. a \o <<>> = a
    BY ConcatEmptySeq
  <2>2. Outputs(w, <<>>) = <<>> /\ Outputs(u, a) \o <<>> = Outputs(u, a)
    BY <1>2, <1>3, OutputsEmpty, ConcatEmptySeq
  <2>3. Latest(w, <<>>) = w
    <3>1. <<>> \in Seq(Tokens) /\ Len(<<>>) = 0
      BY EmptySeq
    <3>2. Before(w, <<>>)[1] = w
      BY <1>2, <3>1, BeforeIs
    <3>3. \A y \in {<<>>} : Len(y) = 0 => Len(y) + 1 = 1
      OBVIOUS
    <3> QED
      BY <3>1, <3>2, <3>3, Zenon DEF Latest
  <2> QED
    BY <1>5, <2>1, <2>2, <2>3 DEF w
<1>9. ASSUME NEW k \in 0 .. n - 1, Good(k) PROVE Good(k + 1)
  <2> DEFINE v == b[k + 1]
             d == c(k)
             ad == a \o d
  <2>1. d \in Seq(Tokens) /\ v \in Tokens /\ c(k + 1) = Append(d, v)
    <3>1. k \in 0 .. n
      OBVIOUS
    <3> QED
      BY <1>6, <1>7, <3>1
  <2>2. /\ Outputs(u, ad) = Outputs(u, a) \o Outputs(w, d)
        /\ Latest(u, ad) = Latest(w, d)
    BY <1>9
  <2> HIDE DEF d, v
  <2>3. ad \in Seq(Tokens)
    BY <2>1, ConcatProperties
  <2>4. a \o c(k + 1) = Append(ad, v)
    <3>1. a \o Append(d, v) = Append(a \o d, v)
      BY <2>1, ConcatAppend
    <3> QED
      BY <2>1, <3>1 DEF ad
  <2> HIDE DEF ad
  <2>5. Outputs(u, Append(ad, v)) = Outputs(u, ad) \o Output(Latest(u, ad), v)
    BY <1>4, <2>1, <2>3
  <2>6. Outputs(w, Append(d, v)) = Outputs(w, d) \o Output(Latest(w, d), v)
    BY <1>2, <1>4, <2>1
  <2>7. /\ Outputs(u, a) \in Seq(Nat) /\ Outputs(w, d) \in Seq(Nat)
        /\ Output(Latest(w, d), v) \in Seq(Nat)
    BY <1>2, <1>3, <2>1, OutputIn
  <2>8. (Outputs(u, a) \o Outputs(w, d)) \o Output(Latest(w, d), v)
        = Outputs(u, a) \o (Outputs(w, d) \o Output(Latest(w, d), v))
    BY <2>7, Associative, Zenon
  <2>9. Outputs(u, a \o c(k + 1)) = Outputs(u, a) \o Outputs(w, c(k + 1))
    BY <2>1, <2>2, <2>4, <2>5, <2>6, <2>8, Zenon
  <2>10. Latest(u, a \o c(k + 1)) = Latest(w, c(k + 1))
    <3>1. Latest(u, Append(ad, v)) = v /\ Latest(w, Append(d, v)) = v
      BY <1>2, <1>4, <2>1, <2>3
    <3> QED
      BY <2>1, <2>4, <3>1
  <2> QED
    BY <2>9, <2>10
<1>10. Good(n)
  <2> HIDE DEF Good
  <2>1. 0 \in T /\ \A y \in 0 .. n - 1 : y \in T => y + 1 \in T
    BY <1>8, <1>9
  <2> HIDE DEF T
  <2>2. 0 .. n \subseteq T
    BY <2>1, UpTo
  <2>3. n \in T
    BY <2>2
  <2> QED
    BY <2>3 DEF T
<1>11. c(n) = b
  BY <1>1, SubSeqFull DEF c
<1> QED
  BY <1>10, <1>11 DEF w

(* What follows a token is printed alike after any other but BOS.          *)
LEMMA OutputsAfter ==
  ASSUME NEW u \in Tokens \ {BOS}, NEW v \in Tokens \ {BOS}, NEW b \in Seq(Tokens)
  PROVE  Outputs(u, b) = Outputs(v, b)
<1>1. PICK n \in Nat : n = Len(b) /\ DOMAIN b = 1 .. n
  BY LenProperties
<1>2. ASSUME NEW i \in 1 .. n PROVE Output(Before(u, b)[i], b[i]) = Output(Before(v, b)[i], b[i])
  <2>1. CASE i = 1
    <3>1. Before(u, b)[i] = u /\ Before(v, b)[i] = v
      BY <2>1, BeforeIs
    <3> QED
      BY <3>1 DEF Output
  <2>2. CASE i # 1
    <3>1. PICK j \in 1 .. n : i = j + 1
      <4>1. i - 1 \in 1 .. n /\ i = (i - 1) + 1
        BY <2>2
      <4> QED
        BY <4>1
    <3>2. \A w \in Tokens : Before(w, b)[j + 1] = b[j]
      BY <1>1, BeforeIs
    <3> QED
      BY <3>1, <3>2
  <2> QED
    BY <2>1, <2>2
<1>3. Said(u, b) = Said(v, b)
  BY <1>1, <1>2 DEF Said
<1>4. \A w : Outputs(w, b) = FlattenSeq(Said(w, b))
  BY DEF Outputs, Said, Before
<1> QED
  BY <1>3, <1>4
-----------------------------------------------------------------------------
(* The tokens of a text: BOS is none of them, and none is empty.           *)
Words == {v \in Tokens \ {BOS} : Piece[v] # <<>>}

(* A piece that no byte token has is printed as it is.                     *)
LEMMA Plain ==
  ASSUME NEW s \in Seq(Nat), \A i \in 1 .. Len(s) : s[i] < Hex
  PROVE  Spelled(s) = s
<1>1. CASE s = <<>>
  BY <1>1, Zenon DEF Spelled
<1>2. CASE s # <<>>
  <2>1. PICK n \in Nat \ {0} : n = Len(s)
    BY <1>2, EmptySeq
  <2>2. Head(s) = s[1] /\ s[1] < Hex /\ s[1] \in Nat
    <3>1. 1 \in 1 .. Len(s)
      BY <2>1
    <3>2. s[1] < Hex
      BY <3>1
    <3>3. s[1] \in Nat
      BY <3>1, ElementOfSeq
    <3> QED
      BY <3>2, <3>3
  <2>3. ~(Head(s) >= Hex)
    BY <2>2 DEF Hex
  <2> QED
    BY <2>3, Zenon DEF Spelled
<1> QED
  BY <1>1, <1>2

(* A piece of two others has no byte token's symbol.                       *)
LEMMA TailOfConcat ==
  ASSUME NEW S, NEW a \in Seq(S), NEW b \in Seq(S), a # <<>>
  PROVE  /\ a \o b # <<>> /\ Head(a \o b) = Head(a)
         /\ Tail(a) \in Seq(S) /\ Tail(a \o b) = Tail(a) \o b
<1>1. PICK n \in Nat \ {0} : n = Len(a)
  BY EmptySeq
<1>2. PICK m \in Nat : m = Len(b)
  BY LenProperties
<1> DEFINE c == a \o b
<1>3. /\ c \in Seq(S) /\ Len(c) = n + m
      /\ \A i \in 1 .. n + m : c[i] = IF i <= n THEN a[i] ELSE b[i - n]
  BY <1>1, <1>2, ConcatProperties
<1> HIDE DEF c
<1>4. c # <<>>
  BY <1>3, EmptySeq
<1>5. Head(c) = Head(a)
  <2>1. c[1] = a[1]
    BY <1>3
  <2> QED
    BY <2>1
<1>6. /\ Tail(a) \in Seq(S) /\ Len(Tail(a)) = n - 1
      /\ \A i \in 1 .. n - 1 : Tail(a)[i] = a[i + 1]
  BY <1>1, HeadTailProperties
<1>7. /\ Tail(c) \in Seq(S) /\ Len(Tail(c)) = n + m - 1
      /\ \A i \in 1 .. n + m - 1 : Tail(c)[i] = c[i + 1]
  BY <1>3, <1>4, HeadTailProperties
<1> DEFINE d == Tail(a) \o b
<1>8. /\ d \in Seq(S) /\ Len(d) = n - 1 + m
      /\ \A i \in 1 .. n - 1 + m : d[i] = IF i <= n - 1 THEN Tail(a)[i] ELSE b[i - (n - 1)]
  <2>1. /\ d \in Seq(S) /\ Len(d) = Len(Tail(a)) + Len(b)
        /\ \A i \in 1 .. Len(Tail(a)) + Len(b) :
             d[i] = IF i <= Len(Tail(a)) THEN Tail(a)[i] ELSE b[i - Len(Tail(a))]
    BY <1>6, ConcatProperties
  <2> HIDE DEF d
  <2> QED
    BY <1>2, <1>6, <2>1, Zenon
<1> HIDE DEF d
<1>9. ASSUME NEW i \in 1 .. n + m - 1 PROVE Tail(c)[i] = d[i]
  <2>1. i + 1 \in 1 .. n + m /\ Tail(c)[i] = c[i + 1] /\ i \in 1 .. n - 1 + m
    BY <1>7
  <2>2. CASE i <= n - 1
    <3>1. i \in 1 .. n - 1 /\ i + 1 <= n
      BY <2>2
    <3> QED
      BY <1>3, <1>6, <1>8, <2>1, <3>1
  <2>3. CASE ~(i <= n - 1)
    <3>1. ~(i + 1 <= n) /\ (i + 1) - n = i - (n - 1)
      BY <2>3
    <3>2. c[i + 1] = b[(i + 1) - n] /\ d[i] = b[i - (n - 1)]
      BY <1>3, <1>8, <2>1, <2>3, <3>1
    <3> QED
      BY <2>1, <3>1, <3>2
  <2> QED
    BY <2>2, <2>3
<1>10. Tail(c) = d
  BY <1>7, <1>8, <1>9, SeqEqual
<1> QED
  BY <1>4, <1>5, <1>6, <1>10 DEF c, d

LEMMA MergedPlain ==
  ASSUME NEW u \in Words, NEW v \in Words, NEW w \in Words, Piece[w] = Piece[u] \o Piece[v]
  PROVE  \A s \in {Piece[u], Piece[v], Piece[w]} :
           s \in Seq(Nat) /\ s # <<>> /\ \A i \in 1 .. Len(s) : s[i] < Hex
<1> DEFINE a == Piece[u]
           b == Piece[v]
           c == Piece[w]
<1>1. a \in Seq(Nat) /\ b \in Seq(Nat) /\ c \in Seq(Nat) /\ a # <<>> /\ b # <<>> /\ c # <<>>
  BY TokenizerAssumption DEF Words
<1>2. PICK n \in Nat \ {0}, m \in Nat \ {0} : n = Len(a) /\ m = Len(b)
  BY <1>1, EmptySeq
<1>3. \A i \in DOMAIN c : c[i] >= Hex => c = <<Hex + w - 3>>
  <2>1. w \in Tokens /\ w # BOS
    BY DEF Words
  <2> QED
    BY <2>1, TokenizerAssumption, Zenon
<1>4. c = a \o b
  OBVIOUS
<1> HIDE DEF a, b, c
<1>5. /\ Len(c) = n + m /\ DOMAIN c = 1 .. n + m
      /\ \A i \in 1 .. n + m : c[i] = IF i <= n THEN a[i] ELSE b[i - n]
  BY <1>1, <1>2, <1>4, ConcatProperties, LenProperties
<1>6. ASSUME NEW i \in 1 .. n + m PROVE c[i] < Hex
  <2>1. PICK k \in Nat : k = c[i]
    BY <1>1, <1>5, ElementOfSeq
  <2>2. CASE k >= Hex
    <3>1. c = <<Hex + w - 3>>
      BY <1>3, <1>5, <2>1, <2>2
    <3>2. \A y : Len(<<y>>) = 1
      OBVIOUS
    <3>3. Len(c) = 1
      BY <3>1, <3>2, Zenon
    <3>4. n + m # 1
      BY <1>2
    <3> QED
      BY <1>5, <3>3, <3>4, Zenon
  <2> QED
    BY <2>1, <2>2 DEF Hex
<1>7. ASSUME NEW i \in 1 .. n PROVE a[i] < Hex
  <2>1. i \in 1 .. n + m /\ c[i] = a[i]
    BY <1>5
  <2> QED
    BY <1>6, <2>1
<1>8. ASSUME NEW i \in 1 .. m PROVE b[i] < Hex
  <2>1. i + n \in 1 .. n + m /\ ~(i + n <= n) /\ (i + n) - n = i
    OBVIOUS
  <2>2. c[i + n] = b[i]
    BY <1>5, <2>1
  <2> QED
    BY <1>6, <2>1, <2>2
<1> QED
  BY <1>1, <1>2, <1>5, <1>6, <1>7, <1>8 DEF a, b, c

(* A merged pair is printed as its tokens were.                            *)
LEMMA MergedOutput ==
  ASSUME NEW x0 \in Tokens, NEW u \in Words, NEW v \in Words, NEW w \in Words,
         Piece[w] = Piece[u] \o Piece[v]
  PROVE  Output(x0, w) = Output(x0, u) \o Output(u, v)
<1> DEFINE a == Piece[u]
           b == Piece[v]
           c == Piece[w]
<1>1. \A s \in {a, b, c} :
        s \in Seq(Nat) /\ s # <<>> /\ \A i \in 1 .. Len(s) : s[i] < Hex
  BY MergedPlain
<1>2. \A s \in {a, b, c} : Spelled(s) = s
  BY <1>1, Plain
<1>3. \A s \in {a, b, c} : Spelled(Tail(s)) = Tail(s)
  <2> TAKE s \in {a, b, c}
  <2>1. PICK n \in Nat : n = Len(s)
    BY <1>1, LenProperties
  <2>2. /\ Tail(s) \in Seq(Nat) /\ Len(Tail(s)) = n - 1
        /\ \A i \in 1 .. n - 1 : Tail(s)[i] = s[i + 1]
    BY <1>1, <2>1, HeadTailProperties
  <2>3. ASSUME NEW i \in 1 .. n - 1 PROVE Tail(s)[i] < Hex
    <3>1. i + 1 \in 1 .. Len(s)
      BY <2>1
    <3>2. s[i + 1] < Hex
      BY <1>1, <3>1, Zenon
    <3> QED
      BY <2>2, <3>2
  <2> QED
    BY <2>2, <2>3, Plain
<1>4. Output(u, v) = b
  <2>1. u # BOS
    BY DEF Words
  <2> QED
    BY <1>2, <2>1 DEF Output
<1>5. c = a \o b
  OBVIOUS
<1>6. Head(c) = Head(a) /\ Tail(c) = Tail(a) \o b /\ a # <<>> /\ c # <<>>
  <2> HIDE DEF a, b, c
  <2> QED
    BY <1>1, <1>5, TailOfConcat
<1>7. /\ Output(x0, u) = Spelled(IF x0 = BOS /\ a # <<>> /\ Head(a) = Space THEN Tail(a) ELSE a)
      /\ Output(x0, w) = Spelled(IF x0 = BOS /\ c # <<>> /\ Head(c) = Space THEN Tail(c) ELSE c)
  BY DEF Output
<1> HIDE DEF a, b, c
<1>8. CASE x0 = BOS /\ Head(a) = Space
  BY <1>3, <1>4, <1>6, <1>7, <1>8, Zenon
<1>9. CASE ~(x0 = BOS /\ Head(a) = Space)
  BY <1>2, <1>4, <1>5, <1>6, <1>7, <1>9, Zenon
<1> QED
  BY <1>8, <1>9
-----------------------------------------------------------------------------
(* A byte's token is printed as the byte.                                  *)
LEMMA ByteOutput ==
  ASSUME NEW b \in Nat, b <= 255, NEW v \in Tokens, Piece[v] = <<Hex + b>>, NEW u
  PROVE  Piece[v] # <<>> /\ Output(u, v) = <<b>>
<1> DEFINE s == Piece[v]
<1>1. s # <<>> /\ Head(s) = Hex + b
  <2>1. \A y : <<y>> # <<>> /\ Head(<<y>>) = y
    OBVIOUS
  <2> QED
    BY <2>1, Zenon
<1> HIDE DEF s
<1>2. Head(s) # Space /\ Head(s) >= Hex /\ Head(s) - Hex = b
  BY <1>1 DEF Space, Hex
<1>3. Spelled(s) = <<b>>
  BY <1>1, <1>2, Zenon DEF Spelled
<1>4. Output(u, v) = Spelled(s)
  BY <1>2, Zenon DEF Output, s
<1> QED
  BY <1>1, <1>3, <1>4 DEF s

(* The byte tokens of a codepoint print its bytes.                         *)
LEMMA BytesSaid ==
  ASSUME NEW u \in Tokens, NEW s \in Seq(0 .. 255), NEW f,
         f = [j \in DOMAIN s |-> s[j] + 3],
         \A i \in DOMAIN s : s[i] + 3 \in Tokens /\ Piece[s[i] + 3] = <<Hex + s[i]>>
  PROVE  f \in Seq(Words) /\ Len(f) = Len(s) /\ Outputs(u, f) = s
<1>1. PICK n \in Nat : n = Len(s) /\ DOMAIN s = 1 .. n
  BY LenProperties
<1>2. ASSUME NEW i \in 1 .. n
      PROVE  f[i] \in Words /\ \A w : Output(w, f[i]) = <<s[i]>>
  <2>1. PICK b \in 0 .. 255 : b = s[i]
    BY <1>1, ElementOfSeq
  <2>2. f[i] = b + 3 /\ f[i] \in Tokens /\ Piece[f[i]] = <<Hex + b>>
    BY <1>1, <2>1
  <2>3. f[i] # BOS /\ b \in Nat /\ b <= 255
    BY <2>2 DEF BOS
  <2> QED
    BY <2>1, <2>2, <2>3, ByteOutput DEF Words
<1>3. f \in Seq(Words) /\ Len(f) = n
  <2>1. f = [j \in 1 .. n |-> f[j]]
    BY <1>1
  <2>2. f \in [1 .. n -> Words]
    BY <1>2, <2>1
  <2> QED
    BY <2>2, SequenceOf
<1>4. f \in Seq(Tokens)
  BY <1>3, SeqMonotonic DEF Words
<1> DEFINE Good(k) == Outputs(u, SubSeq(f, 1, k)) = SubSeq(s, 1, k)
           T == {k \in 0 .. n : Good(k)}
<1>5. Good(0)
  <2>1. SubSeq(f, 1, 0) = <<>> /\ SubSeq(s, 1, 0) = <<>>
    BY SubSeqEmpty
  <2>2. Outputs(u, <<>>) = <<>>
    BY OutputsEmpty
  <2> QED
    BY <2>1, <2>2, Zenon
<1>6. ASSUME NEW k \in 0 .. n - 1, Good(k) PROVE Good(k + 1)
  <2> DEFINE d == SubSeq(f, 1, k)
             e == SubSeq(s, 1, k)
  <2>1. /\ d \in Seq(Tokens) /\ SubSeq(f, 1, k + 1) = Append(d, f[k + 1])
        /\ e \in Seq(0 .. 255) /\ SubSeq(s, 1, k + 1) = Append(e, s[k + 1])
    <3>1. k \in 0 .. n
      OBVIOUS
    <3>2. d \in Seq(Tokens) /\ SubSeq(f, 1, k + 1) = Append(d, f[k + 1])
      BY <1>3, <1>4, <3>1, PrefixGrows
    <3>3. e \in Seq(0 .. 255) /\ SubSeq(s, 1, k + 1) = Append(e, s[k + 1])
      BY <1>1, <3>1, PrefixGrows
    <3> QED
      BY <3>2, <3>3
  <2>2. Outputs(u, d) = e
    BY <1>6
  <2> HIDE DEF d, e
  <2>3. k + 1 \in 1 .. n
    OBVIOUS
  <2>4. f[k + 1] \in Tokens /\ s[k + 1] \in 0 .. 255
    BY <1>1, <1>3, <1>4, <2>3, ElementOfSeq
  <2>5. Output(Latest(u, d), f[k + 1]) = <<s[k + 1]>>
    BY <1>2, <2>3
  <2>6. Outputs(u, Append(d, f[k + 1])) = Outputs(u, d) \o Output(Latest(u, d), f[k + 1])
    BY <2>1, <2>4, OutputsAppend
  <2>7. Append(e, s[k + 1]) = e \o <<s[k + 1]>>
    BY <2>1, <2>4, AppendIsConcat
  <2> QED
    BY <2>1, <2>2, <2>5, <2>6, <2>7, Zenon
<1>7. Good(n)
  <2> HIDE DEF Good
  <2>1. 0 \in T /\ \A y \in 0 .. n - 1 : y \in T => y + 1 \in T
    BY <1>5, <1>6
  <2> HIDE DEF T
  <2>2. 0 .. n \subseteq T
    BY <2>1, UpTo
  <2>3. n \in T
    BY <2>2
  <2> QED
    BY <2>3 DEF T
<1>8. SubSeq(f, 1, n) = f /\ SubSeq(s, 1, n) = s
  BY <1>1, <1>3, SubSeqFull
<1> QED
  BY <1>1, <1>3, <1>7, <1>8

(* The tokens of a codepoint are printed as it was typed.                  *)
LEMMA CodepointIs ==
  ASSUME NEW s \in Seq(0 .. 255), NEW i \in 1 .. Len(s)
  PROVE  \E to \in i .. Len(s) : Codepoint(s, i) = SubSeq(s, i, to)
<1> DEFINE end == i + Width(s[i]) - 1
           to == IF end < Len(s) THEN end ELSE Len(s)
<1>1. Len(s) \in Nat
  BY LenProperties
<1>2. Width(s[i]) \in 1 .. 4
  BY DEF Width
<1>3. to \in i .. Len(s)
  BY <1>1, <1>2
<1>4. Codepoint(s, i) = SubSeq(s, i, to)
  BY DEF Codepoint
<1> HIDE DEF to
<1> QED
  BY <1>3, <1>4

(* The tokens of a codepoint print that codepoint.                         *)
LEMMA CodepointSaid ==
  ASSUME Vocabulary, NEW u \in Tokens \ {BOS}, NEW s \in Texts, NEW i \in 1 .. Len(s)
  PROVE  LET tk == TokensOf(Codepoint(s, i))
         IN  tk \in Seq(Words) /\ tk # <<>> /\ Outputs(u, tk) = Codepoint(s, i)
<1> DEFINE cp == Codepoint(s, i)
           tk == TokensOf(cp)
<1>1. PICK n \in Nat : n = Len(s) /\ s \in Seq(0 .. 255) /\ DOMAIN s = 1 .. n
  BY StoryAssumption, LenProperties
<1>2. PICK to \in i .. n : cp = SubSeq(s, i, to)
  BY <1>1, CodepointIs
<1>3. /\ cp \in Seq(0 .. 255) /\ Len(cp) = to - i + 1
      /\ \A j \in 1 .. to - i + 1 : cp[j] = s[i + j - 1]
  <2> HIDE DEF cp
  <2>1. \A j \in i .. to : s[j] \in 0 .. 255
    <3> TAKE j \in i .. to
    <3>1. j \in 1 .. Len(s)
      BY <1>1
    <3> QED
      BY <1>1, <3>1, ElementOfSeq
  <2> QED
    BY <1>1, <1>2, <2>1, SubSeqProperties
<1>4. /\ id(cp) # BOS
      /\ \A j \in 1 .. n : s[j] + 3 \in Tokens /\ Piece[s[j] + 3] = <<Hex + s[j]>>
  BY <1>1, StoryAssumption DEF Vocabulary
<1> HIDE DEF cp
<1>5. cp # <<>> /\ DOMAIN cp = 1 .. to - i + 1
  BY <1>2, <1>3, EmptySeq, LenProperties
<1>6. CASE id(cp) # None
  <2> DEFINE v == id(cp)
  <2>1. v \in Words /\ Piece[v] = cp
    BY <1>4, <1>5, <1>6, TokenOf DEF Words
  <2>2. tk = <<v>>
    BY <1>6 DEF TokensOf
  <2> HIDE DEF v, tk
  <2>3. tk = Append(<<>>, v) /\ tk \in Seq(Words) /\ tk # <<>>
    <3>1. \A S : \A y \in S : /\ <<y>> = Append(<<>>, y) /\ <<y>> # <<>>
                              /\ <<y>> \in Seq(S)
      OBVIOUS
    <3> QED
      BY <2>1, <2>2, <3>1, Zenon
  <2>4. <<>> \in Seq(Tokens) /\ Outputs(u, <<>>) = <<>> /\ Latest(u, <<>>) = u
    <3>1. <<>> \in Seq(Tokens) /\ Len(<<>>) = 0
      BY EmptySeq
    <3>2. Before(u, <<>>)[1] = u
      BY <3>1, BeforeIs
    <3>3. \A y \in {<<>>} : Len(y) = 0 => Len(y) + 1 = 1
      OBVIOUS
    <3>4. Latest(u, <<>>) = u
      BY <3>1, <3>2, <3>3, Zenon DEF Latest
    <3> QED
      BY <3>1, <3>4, OutputsEmpty
  <2>5. Output(u, v) = cp
    <3>1. Output(u, v) = Spelled(Piece[v])
      BY DEF Output
    <3>2. cp \in Seq(Nat) /\ \A j \in 1 .. Len(cp) : cp[j] < Hex
      <4>1. cp \in Seq(Nat)
        <5>1. (0 .. 255) \subseteq Nat
          OBVIOUS
        <5> QED
          BY <1>3, <5>1, SeqMonotonic, Zenon
      <4>2. ASSUME NEW j \in 1 .. Len(cp) PROVE cp[j] < Hex
        <5>1. PICK b \in 0 .. 255 : cp[j] = b
          BY <1>3, ElementOfSeq
        <5> QED
          BY <5>1 DEF Hex
      <4> QED
        BY <4>1, <4>2
    <3> QED
      BY <2>1, <3>1, <3>2, Plain
  <2>6. Outputs(u, tk) = <<>> \o cp
    <3>1. v \in Tokens
      BY <2>1 DEF Words
    <3>2. Outputs(u, Append(<<>>, v)) = Outputs(u, <<>>) \o Output(Latest(u, <<>>), v)
      BY <2>4, <3>1, OutputsAppend
    <3> QED
      BY <2>3, <2>4, <2>5, <3>2, Zenon
  <2>7. <<>> \o cp = cp
    <3>1. \A S : \A y \in Seq(S) : <<>> \o y = y
      BY ConcatEmptySeq
    <3> QED
      BY <1>3, <3>1, Zenon
  <2> QED
    BY <2>3, <2>6, <2>7 DEF tk, cp
<1>7. CASE id(cp) = None
  <2>1. tk = [j \in DOMAIN cp |-> cp[j] + 3]
    BY <1>7 DEF TokensOf
  <2>2. \A j \in DOMAIN cp : cp[j] + 3 \in Tokens /\ Piece[cp[j] + 3] = <<Hex + cp[j]>>
    <3> TAKE j \in DOMAIN cp
    <3>1. i + j - 1 \in 1 .. n /\ cp[j] = s[i + j - 1]
      BY <1>1, <1>3, <1>5
    <3> QED
      BY <1>4, <3>1
  <2> HIDE DEF tk
  <2>3. tk \in Seq(Words) /\ Len(tk) = Len(cp) /\ Outputs(u, tk) = cp
    BY <1>3, <2>1, <2>2, BytesSaid
  <2>4. tk # <<>>
    <3>1. to - i + 1 # 0 /\ Len(<<>>) = 0
      BY <1>2, EmptySeq
    <3> QED
      BY <1>3, <2>3, <3>1, Zenon
  <2> QED
    BY <2>3, <2>4 DEF tk, cp
<1> QED
  BY <1>6, <1>7 DEF cp
-----------------------------------------------------------------------------
(* Around the two tokens merged.                                           *)
LEMMA Around ==
  ASSUME NEW S, NEW s \in Seq(S), NEW n \in Nat, n = Len(s), NEW j \in 1 .. n - 1
  PROVE  LET a == SubSeq(s, 1, j - 1)
             b == SubSeq(s, j + 2, n)
         IN  /\ a \in Seq(S) /\ b \in Seq(S) /\ Len(a) = j - 1 /\ Len(b) = n - j - 1
             /\ \A i \in 1 .. j - 1 : a[i] = s[i]
             /\ \A i \in 1 .. n - j - 1 : b[i] = s[j + 1 + i]
<1> DEFINE a == SubSeq(s, 1, j - 1)
           b == SubSeq(s, j + 2, n)
<1>1. \A i \in 1 .. n : s[i] \in S
  BY ElementOfSeq
<1>2. PICK k \in Nat : k = j - 1 /\ k <= n
  OBVIOUS
<1>3. PICK m \in Nat : m = j + 2
  OBVIOUS
<1>4. /\ a \in Seq(S) /\ Len(a) = IF 1 <= k THEN k - 1 + 1 ELSE 0
      /\ \A i \in 1 .. k - 1 + 1 : a[i] = s[1 + i - 1]
  <2>1. \A i \in 1 .. k : s[i] \in S
    BY <1>1, <1>2
  <2> QED
    BY <1>2, <2>1, SubSeqProperties
<1>5. /\ b \in Seq(S) /\ Len(b) = IF m <= n THEN n - m + 1 ELSE 0
      /\ \A i \in 1 .. n - m + 1 : b[i] = s[m + i - 1]
  <2>1. \A i \in m .. n : s[i] \in S
    BY <1>1, <1>3
  <2> QED
    BY <1>3, <2>1, SubSeqProperties
<1> HIDE DEF a, b
<1>6. Len(a) = j - 1 /\ Len(b) = n - j - 1
  BY <1>2, <1>3, <1>4, <1>5
<1>7. ASSUME NEW i \in 1 .. j - 1 PROVE a[i] = s[i]
  <2>1. i \in 1 .. k - 1 + 1 /\ 1 + i - 1 = i
    BY <1>2
  <2> QED
    BY <1>4, <2>1
<1>8. ASSUME NEW i \in 1 .. n - j - 1 PROVE b[i] = s[j + 1 + i]
  <2>1. i \in 1 .. n - m + 1 /\ m + i - 1 = j + 1 + i
    BY <1>3
  <2> QED
    BY <1>5, <2>1
<1> QED
  BY <1>4, <1>5, <1>6, <1>7, <1>8 DEF a, b

IsGlued(c, a, v, b) ==
  /\ Len(c) = Len(a) + 1 + Len(b) /\ c[Len(a) + 1] = v
  /\ \A i \in 1 .. Len(a) : c[i] = a[i]
  /\ \A i \in 1 .. Len(b) : c[Len(a) + 1 + i] = b[i]

LEMMA Glued ==
  ASSUME NEW S, NEW a \in Seq(S), NEW b \in Seq(S), NEW v \in S,
         NEW c, c = Append(a, v) \o b
  PROVE  c \in Seq(S) /\ IsGlued(c, a, v, b)
<1>1. PICK n \in Nat : n = Len(a)
  BY LenProperties
<1>2. PICK m \in Nat : m = Len(b)
  BY LenProperties
<1> DEFINE d == Append(a, v)
<1>3. /\ d \in Seq(S) /\ Len(d) = n + 1 /\ d[n + 1] = v
      /\ \A i \in 1 .. n : d[i] = a[i]
  BY <1>1, AppendProperties
<1> HIDE DEF d
<1>4. /\ c \in Seq(S) /\ Len(c) = n + 1 + m
      /\ \A i \in 1 .. n + 1 + m : c[i] = IF i <= n + 1 THEN d[i] ELSE b[i - (n + 1)]
  <2>1. /\ c \in Seq(S) /\ Len(c) = Len(d) + Len(b)
        /\ \A i \in 1 .. Len(d) + Len(b) : c[i] = IF i <= Len(d) THEN d[i] ELSE b[i - Len(d)]
    BY <1>3, ConcatProperties DEF d
  <2> QED
    BY <1>2, <1>3, <2>1, Zenon
<1>5. c[n + 1] = v
  <2>1. n + 1 \in 1 .. n + 1 + m /\ n + 1 <= n + 1
    OBVIOUS
  <2> QED
    BY <1>3, <1>4, <2>1
<1>6. ASSUME NEW i \in 1 .. n PROVE c[i] = a[i]
  <2>1. i \in 1 .. n + 1 + m /\ i <= n + 1
    OBVIOUS
  <2> QED
    BY <1>3, <1>4, <2>1
<1>7. ASSUME NEW i \in 1 .. m PROVE c[n + 1 + i] = b[i]
  <2>1. /\ n + 1 + i \in 1 .. n + 1 + m /\ ~(n + 1 + i <= n + 1)
        /\ (n + 1 + i) - (n + 1) = i
    OBVIOUS
  <2> QED
    BY <1>4, <2>1
<1> QED
  BY <1>1, <1>2, <1>4, <1>5, <1>6, <1>7, Zenon DEF IsGlued

(* Merging two tokens after BOS leaves what they print as it was.          *)
LEMMA MergedSaid ==
  ASSUME NEW toks \in Seq(Words), NEW j \in 1 .. Len(toks) - 1,
         NEW w \in Words, Piece[w] = Piece[toks[j]] \o Piece[toks[j + 1]]
  PROVE  Outputs(BOS, Append(SubSeq(toks, 1, j - 1), w) \o SubSeq(toks, j + 2, Len(toks)))
         = Outputs(BOS, toks)
<1> PICK n \in Nat : n = Len(toks)
  BY LenProperties
<1> j \in 1 .. n - 1
  OBVIOUS
<1> PICK r : r = Append(SubSeq(toks, 1, j - 1), w) \o SubSeq(toks, j + 2, n)
  OBVIOUS
<1> DEFINE a == SubSeq(toks, 1, j - 1)
           b == SubSeq(toks, j + 2, n)
           u == toks[j]
           v == toks[j + 1]
           c == Append(a, u)
           e == Append(c, v)
<1>1. /\ a \in Seq(Words) /\ b \in Seq(Words) /\ Len(a) = j - 1 /\ Len(b) = n - j - 1
      /\ \A i \in 1 .. j - 1 : a[i] = toks[i]
      /\ \A i \in 1 .. n - j - 1 : b[i] = toks[j + 1 + i]
  BY Around
<1>2. u \in Words /\ v \in Words
  <2>1. j \in 1 .. Len(toks) /\ j + 1 \in 1 .. Len(toks)
    OBVIOUS
  <2> QED
    BY <2>1, ElementOfSeq
<1>3. Words \subseteq Tokens /\ BOS \in Tokens
  BY TokenizerAssumption DEF Words
<1>4. a \in Seq(Tokens) /\ b \in Seq(Tokens) /\ u \in Tokens /\ v \in Tokens /\ w \in Tokens
  <2> HIDE DEF a, b, u, v
  <2> QED
    BY <1>1, <1>2, <1>3, SeqMonotonic
<1>5. toks = e \o b
  <2> HIDE DEF a, b, c, e, u, v
  <2>1. j - 1 \in Nat /\ n - j - 1 \in Nat
    OBVIOUS
  <2>2. PICK k \in Nat : k = j - 1
    BY <2>1
  <2>3. PICK m \in Nat : m = n - j - 1
    BY <2>1
  <2> USE DEF a, b, c, e, u, v
  <2>4. /\ c \in Seq(Words) /\ Len(c) = k + 1 /\ c[k + 1] = u
        /\ \A i \in 1 .. k : c[i] = a[i]
    <3> HIDE DEF a, u
    <3> QED
      BY <1>1, <1>2, <2>2, AppendProperties
  <2> DEFINE z == e \o b
  <2>5. /\ z \in Seq(Words) /\ Len(z) = (k + 1) + 1 + m /\ z[(k + 1) + 1] = v
        /\ \A i \in 1 .. k + 1 : z[i] = c[i]
        /\ \A i \in 1 .. m : z[(k + 1) + 1 + i] = b[i]
    <3> HIDE DEF a, b, c, u, v
    <3>1. Len(c) = k + 1 /\ Len(b) = m /\ c \in Seq(Words) /\ b \in Seq(Words) /\ v \in Words
      BY <1>1, <1>2, <2>3, <2>4
    <3>2. z = Append(c, v) \o b
      OBVIOUS
    <3> HIDE DEF z
    <3>3. z \in Seq(Words) /\ IsGlued(z, c, v, b)
      BY <3>1, <3>2, Glued
    <3> QED
      BY <3>1, <3>3, Zenon DEF IsGlued
  <2>6. ASSUME NEW i \in 1 .. n PROVE toks[i] = z[i]
    <3> HIDE DEF a, b, c, z
    <3>1. CASE i < j
      <4>1. i \in 1 .. j - 1 /\ i \in 1 .. k /\ i \in 1 .. k + 1
        BY <2>2, <3>1
      <4> QED
        BY <1>1, <2>4, <2>5, <4>1
    <3>2. CASE i = j
      <4>1. i = k + 1 /\ i \in 1 .. k + 1
        BY <2>2, <3>2
      <4> QED
        BY <2>4, <2>5, <3>2, <4>1
    <3>3. CASE i = j + 1
      <4>1. i = (k + 1) + 1
        BY <2>2, <3>3
      <4> QED
        BY <2>5, <3>3, <4>1
    <3>4. CASE i > j + 1
      <4>1. PICK y \in 1 .. m : i = j + 1 + y
        <5>1. i - (j + 1) \in 1 .. m /\ i = j + 1 + (i - (j + 1))
          BY <2>3, <3>4
        <5> QED
          BY <5>1
      <4>2. i = (k + 1) + 1 + y /\ y \in 1 .. n - j - 1
        BY <2>2, <2>3, <4>1
      <4>3. z[(k + 1) + 1 + y] = b[y]
        BY <2>5, <4>1
      <4>4. b[y] = toks[j + 1 + y]
        BY <1>1, <4>2
      <4> QED
        BY <4>1, <4>2, <4>3, <4>4, Zenon
    <3> QED
      BY <3>1, <3>2, <3>3, <3>4
  <2>7. Len(z) = n
    <3>1. (k + 1) + 1 + m = n
      BY <2>2, <2>3
    <3> QED
      BY <2>5, <3>1, Zenon
  <2> HIDE DEF z
  <2>8. toks = z
    BY <2>5, <2>6, <2>7, SeqEqual
  <2> QED
    BY <2>8 DEF z
<1> HIDE DEF a, b, u, v
<1> DEFINE x0 == Latest(BOS, a)
           A == Outputs(BOS, a)
<1>6. /\ A \in Seq(Nat) /\ \A y \in Tokens : Outputs(BOS, Append(a, y)) = A \o Output(x0, y)
      /\ \A y \in Tokens : Append(a, y) \in Seq(Tokens) /\ Latest(BOS, Append(a, y)) = y
      /\ x0 \in Tokens
  <2>1. x0 \in Tokens
    BY <1>3, <1>4, BeforeIs
  <2>2. \A y \in Tokens : /\ Outputs(BOS, a) \in Seq(Nat)
                          /\ Outputs(BOS, Append(a, y)) = Outputs(BOS, a) \o Output(x0, y)
    BY <1>3, <1>4, OutputsAppend
  <2>3. \A y \in Tokens : Latest(BOS, Append(a, y)) = y
    BY <1>3, <1>4, SaidAppend
  <2>4. \A y \in Tokens : Append(a, y) \in Seq(Tokens)
    BY <1>4, AppendProperties
  <2> HIDE DEF x0
  <2> QED
    BY <1>3, <2>1, <2>2, <2>3, <2>4, Zenon
<1> HIDE DEF x0, A
<1>7. c \in Seq(Tokens) /\ Latest(BOS, c) = u /\ Outputs(BOS, c) = A \o Output(x0, u)
  BY <1>4, <1>6
<1> HIDE DEF c
<1>8. /\ e \in Seq(Tokens) /\ Latest(BOS, e) = v
      /\ Outputs(BOS, e) = (A \o Output(x0, u)) \o Output(u, v)
  <2>1. e \in Seq(Tokens) /\ Latest(BOS, e) = v
    BY <1>3, <1>4, <1>7, SaidAppend, AppendProperties
  <2>2. Outputs(BOS, e) = Outputs(BOS, c) \o Output(Latest(BOS, c), v)
    BY <1>3, <1>4, <1>7, OutputsAppend
  <2> QED
    BY <1>7, <2>1, <2>2, Zenon
<1>9. Outputs(BOS, e) = Outputs(BOS, Append(a, w))
  <2>1. Output(x0, w) = Output(x0, u) \o Output(u, v)
    BY <1>2, <1>6, MergedOutput DEF u, v
  <2>2. Output(x0, u) \in Seq(Nat) /\ Output(u, v) \in Seq(Nat)
    BY <1>4, OutputIn
  <2>3. (A \o Output(x0, u)) \o Output(u, v) = A \o (Output(x0, u) \o Output(u, v))
    BY <1>6, <2>2, Associative, Zenon
  <2> QED
    BY <1>4, <1>6, <1>8, <2>1, <2>3, Zenon
<1> HIDE DEF e
<1>10. Outputs(v, b) = Outputs(w, b)
  BY <1>2, <1>4, OutputsAfter DEF Words
<1>11. Outputs(BOS, toks) = Outputs(BOS, e) \o Outputs(v, b)
  <2>1. Outputs(BOS, e \o b) = Outputs(BOS, e) \o Outputs(Latest(BOS, e), b)
    BY <1>3, <1>4, <1>8, OutputsConcat
  <2> QED
    BY <1>5, <1>8, <2>1, Zenon
<1>12. Outputs(BOS, r) = Outputs(BOS, Append(a, w)) \o Outputs(w, b)
  <2> DEFINE f == Append(a, w)
  <2>1. f \in Seq(Tokens) /\ Latest(BOS, f) = w
    BY <1>4, <1>6
  <2> HIDE DEF f
  <2>2. Outputs(BOS, f \o b) = Outputs(BOS, f) \o Outputs(Latest(BOS, f), b)
    BY <1>3, <1>4, <2>1, OutputsConcat
  <2>3. r = f \o b
    BY DEF f, a, b
  <2> QED
    BY <2>1, <2>2, <2>3, Zenon DEF f
<1> QED
  BY <1>9, <1>10, <1>11, <1>12, Zenon

(* Merge replaces two tokens of the text by one.                           *)
IsMerged(m, s, i, w) ==
  /\ Len(m) = Len(s) - 1 /\ m[i] = w
  /\ \A k \in 1 .. i - 1 : m[k] = s[k]
  /\ \A k \in i + 1 .. Len(s) - 1 : m[k] = s[k + 1]

(* Merge puts one token in the place of two neighbours.                    *)
LEMMA MergeIs ==
  ASSUME NEW S, NEW s \in Seq(S), NEW i \in 1 .. Len(s) - 1, NEW w \in S
  PROVE  /\ RemoveAt(ReplaceAt(s, i, w), i + 1) \in Seq(S)
         /\ IsMerged(RemoveAt(ReplaceAt(s, i, w), i + 1), s, i, w)
<1> PICK n \in Nat : n + 1 = Len(s)
  <2>1. Len(s) \in Nat
    BY LenProperties
  <2>2. Len(s) - 1 \in Nat /\ (Len(s) - 1) + 1 = Len(s)
    BY <2>1
  <2> QED
    BY <2>2
<1> i \in 1 .. n
  OBVIOUS
<1> PICK m : m = RemoveAt(ReplaceAt(s, i, w), i + 1)
  OBVIOUS
<1> DEFINE z == [s EXCEPT ![i] = w]
<1>1. z \in Seq(S) /\ Len(z) = n + 1 /\ \A k \in 1 .. n + 1 : z[k] = IF k = i THEN w ELSE s[k]
  <2>1. i \in 1 .. Len(s)
    OBVIOUS
  <2> QED
    BY <2>1, ExceptSeq
<1>2. z = ReplaceAt(s, i, w)
  BY DEF ReplaceAt
<1> HIDE DEF z
<1> DEFINE a == SubSeq(z, 1, i)
           b == SubSeq(z, i + 2, n + 1)
<1>3. m = a \o b
  <2>1. (i + 1) - 1 = i /\ (i + 1) + 1 = i + 2
    OBVIOUS
  <2> QED
    BY <1>1, <1>2, <2>1, Zenon DEF RemoveAt
<1>4. \A k \in 1 .. n + 1 : z[k] \in S
  BY <1>1, ElementOfSeq
<1>5. a \in Seq(S) /\ Len(a) = i /\ \A k \in 1 .. i : a[k] = z[k]
  <2>1. \A k \in 1 .. i : z[k] \in S
    BY <1>4
  <2>2. /\ a \in Seq(S) /\ Len(a) = IF 1 <= i THEN i - 1 + 1 ELSE 0
        /\ \A k \in 1 .. i - 1 + 1 : a[k] = z[1 + k - 1]
    BY <2>1, SubSeqProperties
  <2> HIDE DEF a
  <2>3. ASSUME NEW k \in 1 .. i PROVE a[k] = z[k]
    <3>1. k \in 1 .. i - 1 + 1 /\ 1 + k - 1 = k
      OBVIOUS
    <3> QED
      BY <2>2, <3>1
  <2> QED
    BY <2>2, <2>3
<1>6. b \in Seq(S) /\ Len(b) = n - i /\ \A k \in 1 .. n - i : b[k] = z[i + 1 + k]
  <2>1. PICK f \in Nat : f = i + 2
    OBVIOUS
  <2>2. PICK t0 \in Nat : t0 = n + 1
    OBVIOUS
  <2>3. \A k \in f .. t0 : z[k] \in S
    BY <1>4, <2>1, <2>2
  <2>4. /\ b \in Seq(S) /\ Len(b) = IF f <= t0 THEN t0 - f + 1 ELSE 0
        /\ \A k \in 1 .. t0 - f + 1 : b[k] = z[f + k - 1]
    BY <2>1, <2>2, <2>3, SubSeqProperties
  <2> HIDE DEF b
  <2>5. ASSUME NEW k \in 1 .. n - i PROVE b[k] = z[i + 1 + k]
    <3>1. k \in 1 .. t0 - f + 1 /\ f + k - 1 = i + 1 + k
      BY <2>1, <2>2
    <3> QED
      BY <2>4, <3>1
  <2>6. Len(b) = n - i
    BY <2>1, <2>2, <2>4
  <2> QED
    BY <2>4, <2>5, <2>6
<1> HIDE DEF a, b
<1>7. /\ m \in Seq(S) /\ Len(m) = Len(a) + Len(b)
      /\ \A k \in 1 .. Len(a) + Len(b) : m[k] = IF k <= Len(a) THEN a[k] ELSE b[k - Len(a)]
  <2>1. a \in Seq(S) /\ b \in Seq(S)
    BY <1>5, <1>6
  <2> DEFINE c == a \o b
  <2>2. /\ c \in Seq(S) /\ Len(c) = Len(a) + Len(b)
        /\ \A k \in 1 .. Len(a) + Len(b) : c[k] = IF k <= Len(a) THEN a[k] ELSE b[k - Len(a)]
    BY <2>1, ConcatProperties
  <2>3. m = c
    BY <1>3
  <2> HIDE DEF c
  <2> QED
    BY <2>2, <2>3
<1>8. Len(a) + Len(b) = n
  BY <1>5, <1>6
<1>9. /\ Len(m) = n /\ \A k \in 1 .. n : m[k] = IF k <= i THEN a[k] ELSE b[k - i]
  BY <1>5, <1>7, <1>8, Zenon
<1>10. m[i] = w
  BY <1>1, <1>5, <1>9
<1>11. ASSUME NEW k \in 1 .. i - 1 PROVE m[k] = s[k]
  <2>1. k \in 1 .. n /\ k <= i /\ k \in 1 .. i /\ k \in 1 .. n + 1 /\ k # i
    OBVIOUS
  <2> QED
    BY <1>1, <1>5, <1>9, <2>1
<1>12. ASSUME NEW k \in i + 1 .. n PROVE m[k] = s[k + 1]
  <2>1. /\ k \in 1 .. n /\ ~(k <= i) /\ k - i \in 1 .. n - i /\ i + 1 + (k - i) = k + 1
        /\ k + 1 \in 1 .. n + 1 /\ k + 1 # i
    OBVIOUS
  <2>2. m[k] = b[k - i] /\ b[k - i] = z[i + 1 + (k - i)] /\ z[k + 1] = s[k + 1]
    BY <1>1, <1>6, <1>9, <2>1
  <2> QED
    BY <2>1, <2>2
<1>13. Len(s) - 1 = n
  OBVIOUS
<1> QED
  BY <1>7, <1>9, <1>10, <1>11, <1>12, <1>13, Zenon DEF IsMerged

(* What the prompt prints survives a merge, and so does its BOS.           *)
LEMMA MergeSaid ==
  ASSUME Vocabulary, NEW toks \in Seq(Words), NEW s, s = <<BOS>> \o toks, Pairs(s) # {}
  PROVE  \E r \in Seq(Words) : /\ Merge(s) = <<BOS>> \o r /\ r # <<>>
                               /\ Outputs(BOS, r) = Outputs(BOS, toks)
<1>1. PICK n \in Nat : n = Len(toks)
  BY LenProperties
<1>2. BOS \in Tokens /\ Words \subseteq Tokens
  BY TokenizerAssumption DEF Words
<1>3. \A q \in Seq(Words) : /\ Before(BOS, q) \in Seq(Tokens)
                            /\ Len(Before(BOS, q)) = Len(q) + 1
                            /\ Before(BOS, q)[1] = BOS
                            /\ \A i \in 1 .. Len(q) : Before(BOS, q)[i + 1] = q[i]
  <2> TAKE q \in Seq(Words)
  <2>1. q \in Seq(Tokens)
    BY <1>2, SeqMonotonic
  <2> QED
    BY <1>2, <2>1, BeforeIs
<1>4. /\ s \in Seq(Tokens) /\ Len(s) = n + 1 /\ s[1] = BOS
      /\ \A i \in 1 .. n : s[i + 1] = toks[i]
  <2>1. s = Before(BOS, toks)
    BY DEF Before
  <2> QED
    BY <1>1, <1>3, <2>1
<1>5. PICK i \in 1 .. n : i = BestPair(s) /\ Joined(s, i) # None
  <2>1. BestPair(s) \in Pairs(s)
    BY <1>4, PairBest
  <2>2. BestPair(s) \in 1 .. Len(s) - 1 /\ Joined(s, BestPair(s)) # None
    BY <2>1, Zenon DEF Pairs
  <2> QED
    BY <1>4, <2>2
<1>6. PICK w : w = Joined(s, i) /\ w # None /\ w = id(Piece[s[i]] \o Piece[s[i + 1]])
  BY <1>5 DEF Joined
<1>7. Merge(s) = RemoveAt(ReplaceAt(s, i, w), i + 1)
  BY <1>5, <1>6 DEF Merge
<1>8. s[i] \in Tokens /\ s[i + 1] \in Tokens
  <2>1. i \in 1 .. Len(s) /\ i + 1 \in 1 .. Len(s)
    BY <1>4, <1>5
  <2> QED
    BY <1>4, <2>1, ElementOfSeq
<1>9. s[i] # BOS /\ w # BOS
  BY <1>5, <1>6, <1>8 DEF Vocabulary
<1>10. PICK j \in 1 .. n - 1 : i = j + 1
  <2>1. i # 1
    BY <1>4, <1>9
  <2>2. i - 1 \in 1 .. n - 1 /\ i = (i - 1) + 1
    BY <1>5, <2>1
  <2> QED
    BY <2>2
<1>11. s[i] = toks[j] /\ s[i + 1] = toks[j + 1]
  <2>1. j \in 1 .. n /\ j + 1 \in 1 .. n
    OBVIOUS
  <2>2. s[j + 1] = toks[j] /\ s[(j + 1) + 1] = toks[j + 1]
    BY <1>4, <2>1
  <2> QED
    BY <1>10, <2>2
<1>12. w \in Words /\ Piece[w] = Piece[toks[j]] \o Piece[toks[j + 1]]
  <2>1. w \in Tokens /\ Piece[w] = Piece[s[i]] \o Piece[s[i + 1]]
    BY <1>5, <1>6, TokenOf
  <2>2. Piece[s[i]] \in Seq(Nat) /\ Piece[s[i + 1]] \in Seq(Nat) /\ Piece[s[i]] # <<>>
    <3>1. toks[j] \in Words
      <4>1. j \in 1 .. Len(toks)
        BY <1>1
      <4> QED
        BY <4>1, ElementOfSeq
    <3> QED
      BY <1>8, <1>11, <3>1, TokenizerAssumption DEF Words
  <2>3. Piece[w] # <<>>
    <3>1. \A y, x0 \in Seq(Nat) : y # <<>> => y \o x0 # <<>>
      BY TailOfConcat
    <3> QED
      BY <2>1, <2>2, <3>1, Zenon
  <2> QED
    BY <1>9, <1>11, <2>1, <2>3 DEF Words
<1> DEFINE a == SubSeq(toks, 1, j - 1)
           b == SubSeq(toks, j + 2, n)
<1>13. /\ a \in Seq(Words) /\ b \in Seq(Words) /\ Len(a) = j - 1 /\ Len(b) = n - j - 1
       /\ \A k \in 1 .. j - 1 : a[k] = toks[k]
       /\ \A k \in 1 .. n - j - 1 : b[k] = toks[j + 1 + k]
  BY <1>1, <1>10, Around
<1>14. PICK r : r = Append(a, w) \o b /\ Outputs(BOS, r) = Outputs(BOS, toks)
  <2>1. PICK r : r = Append(SubSeq(toks, 1, j - 1), w) \o SubSeq(toks, j + 2, n)
    OBVIOUS
  <2>2. Outputs(BOS, r) = Outputs(BOS, toks)
    BY <1>1, <1>10, <1>12, <2>1, MergedSaid, Zenon
  <2> QED
    BY <2>1, <2>2
<1> HIDE DEF a, b
<1>15. r \in Seq(Words) /\ IsGlued(r, a, w, b)
  BY <1>12, <1>13, <1>14, Glued
<1>16. /\ Len(r) = n - 1 /\ r[j] = w
       /\ \A k \in 1 .. j - 1 : r[k] = toks[k]
       /\ \A k \in 1 .. n - j - 1 : r[j + k] = toks[j + 1 + k]
  <2>1. Len(a) + 1 = j /\ Len(a) + 1 + Len(b) = n - 1
    BY <1>13
  <2>2. /\ Len(r) = n - 1 /\ r[j] = w
        /\ \A k \in 1 .. Len(a) : r[k] = a[k]
        /\ \A k \in 1 .. Len(b) : r[j + k] = b[k]
    BY <1>15, <2>1, Zenon DEF IsGlued
  <2> QED
    BY <1>13, <2>2, Zenon
<1> DEFINE q == Before(BOS, r)
<1>17. PICK m : /\ m = Merge(s) /\ m \in Seq(Tokens) /\ Len(m) = n /\ m[i] = w
                /\ \A k \in 1 .. i - 1 : m[k] = s[k]
                /\ \A k \in i + 1 .. n : m[k] = s[k + 1]
  <2>1. /\ w \in Tokens /\ s \in Seq(Tokens) /\ i \in 1 .. Len(s) - 1
        /\ Len(s) - 1 = n
    BY <1>1, <1>2, <1>4, <1>5, <1>12
  <2>2. PICK m : m = Merge(s) /\ m = RemoveAt(ReplaceAt(s, i, w), i + 1)
    BY <1>7
  <2>3. m \in Seq(Tokens) /\ IsMerged(m, s, i, w)
    BY <2>1, <2>2, MergeIs, Zenon
  <2> QED
    BY <2>1, <2>2, <2>3, Zenon DEF IsMerged
<1>18. /\ q \in Seq(Tokens) /\ Len(q) = n /\ q[1] = BOS
       /\ \A k \in 1 .. n - 1 : q[k + 1] = r[k]
  <2>1. /\ q \in Seq(Tokens) /\ Len(q) = Len(r) + 1 /\ q[1] = BOS
        /\ \A k \in 1 .. Len(r) : q[k + 1] = r[k]
    BY <1>3, <1>15
  <2> HIDE DEF q
  <2>2. (n - 1) + 1 = n
    OBVIOUS
  <2> QED
    BY <1>16, <2>1, <2>2, Zenon
<1> HIDE DEF q
<1>19. ASSUME NEW k \in 1 .. n PROVE m[k] = q[k]
  <2>1. CASE k = 1
    <3>1. 1 \in 1 .. i - 1
      BY <1>10
    <3> QED
      BY <1>4, <1>17, <1>18, <2>1, <3>1
  <2>2. ASSUME NEW y \in 1 .. n - 1, k = y + 1 PROVE m[k] = q[k]
    <3>1. q[k] = r[y]
      BY <1>18, <2>2
    <3>2. CASE y < j
      <4>1. y \in 1 .. j - 1 /\ k \in 1 .. i - 1 /\ y \in 1 .. n
        BY <1>10, <2>2, <3>2
      <4>2. m[k] = s[y + 1] /\ s[y + 1] = toks[y] /\ r[y] = toks[y]
        BY <1>4, <1>16, <1>17, <2>2, <4>1
      <4> QED
        BY <3>1, <4>2
    <3>3. CASE y = j
      BY <1>10, <1>16, <1>17, <2>2, <3>1, <3>3
    <3>4. CASE y > j
      <4>1. PICK x0 \in 1 .. n - j - 1 : y = j + x0
        <5>1. y - j \in 1 .. n - j - 1 /\ y = j + (y - j)
          BY <3>4
        <5> QED
          BY <5>1
      <4>2. k \in i + 1 .. n /\ k \in 1 .. n /\ j + 1 + x0 = k
        BY <1>10, <2>2, <4>1
      <4>3. m[k] = s[k + 1] /\ s[k + 1] = toks[k]
        BY <1>4, <1>17, <4>2
      <4>4. r[y] = toks[k]
        BY <1>16, <4>1, <4>2
      <4> QED
        BY <3>1, <4>3, <4>4
    <3> QED
      BY <3>2, <3>3, <3>4
  <2>3. CASE k # 1
    <3>1. k - 1 \in 1 .. n - 1 /\ k = (k - 1) + 1
      BY <2>3
    <3> QED
      BY <2>2, <3>1
  <2> QED
    BY <2>1, <2>3
<1>20. m = q
  BY <1>17, <1>18, <1>19, SeqEqual
<1>21. r # <<>>
  <2>1. n - 1 # 0
    OBVIOUS
  <2> QED
    BY <1>16, <2>1, EmptySeq
<1> QED
  BY <1>14, <1>15, <1>17, <1>20, <1>21 DEF q, Before
-----------------------------------------------------------------------------
(* The tokens after BOS print what encode has taken of the text, however   *)
(* they were merged; those of a text are never none.                       *)
Spells(toks) ==
  /\ prompt = <<BOS>> \o toks
  /\ Outputs(BOS, toks) = SubSeq(typed, 1, at - 1)
  /\ typed # <<>> => toks # <<>>

(* gen was generated and, but for the last sample, printed and counted.    *)
Says(gen) ==
  /\ text = prompt \o gen
  /\ printed = typed \o Outputs(prompt[P], gen)
  /\ prev = Latest(prompt[P], gen)
  /\ pos = P + generated
  /\ Len(gen) = IF pc \in {"row", "attend", "logits"} THEN generated + 1 ELSE generated

Generating == {"loop", "row", "attend", "logits", "done"}

TextInv ==
  /\ typed \in Texts /\ at \in 1 .. Len(typed) + 1 /\ generated \in Nat
  /\ pc # "encode" => at = Len(typed) + 1
  /\ \E toks \in Seq(Words) : Spells(toks)
  /\ pc \in {"encode", "prefill", "prompt"} => generated = 0
  /\ pc \in {"prefill", "prompt"} => text = prompt
  /\ pc \in Generating => \E gen \in Seq(Tokens) : Says(gen)
  /\ pc = "loop" => token \in Tokens

LEMMA Typed == \A s \in Texts : /\ s \in Seq(0 .. 255) /\ s \in Seq(Nat) /\ Len(s) \in Nat
                                /\ SubSeq(s, 1, Len(s)) = s /\ SubSeq(s, 1, 1 - 1) = <<>>
<1> SUFFICES ASSUME NEW s \in Texts
             PROVE  /\ s \in Seq(0 .. 255) /\ s \in Seq(Nat) /\ Len(s) \in Nat
                    /\ SubSeq(s, 1, Len(s)) = s /\ SubSeq(s, 1, 1 - 1) = <<>>
  OBVIOUS
<1>1. s \in Seq(0 .. 255)
  BY StoryAssumption
<1>2. 0 .. 255 \subseteq Nat
  OBVIOUS
<1>3. s \in Seq(Nat)
  BY <1>1, <1>2, SeqMonotonic
<1>4. Len(s) \in Nat
  BY <1>1, LenProperties
<1>5. SubSeq(s, 1, Len(s)) = s
  BY <1>1, SubSeqFull
<1>6. SubSeq(s, 1, 1 - 1) = <<>>
  BY SubSeqEmpty
<1> QED
  BY <1>1, <1>3, <1>4, <1>5, <1>6

(* What a prompt that spells the text consists of.                         *)
LEMMA PromptIs ==
  ASSUME NEW toks \in Seq(Words), prompt = <<BOS>> \o toks
  PROVE  /\ toks \in Seq(Tokens) /\ prompt \in Seq(Tokens) /\ P \in Nat \ {0}
         /\ prompt[P] \in Tokens /\ Tail(prompt) = toks
         /\ toks = <<>> => prompt[P] = BOS
         /\ prompt[P] = Latest(BOS, toks)
<1>1. toks \in Seq(Tokens) /\ BOS \in Tokens
  BY SeqMonotonic, TokenizerAssumption DEF Words
<1>2. prompt = Before(BOS, toks)
  BY DEF Before
<1>3. PICK n \in Nat : n = Len(toks)
  BY LenProperties
<1>4. /\ prompt \in Seq(Tokens) /\ Len(prompt) = n + 1 /\ prompt[1] = BOS
      /\ \A i \in 1 .. n : prompt[i + 1] = toks[i]
  BY <1>1, <1>2, <1>3, BeforeIs
<1>5. P = n + 1
  BY <1>4 DEF P
<1>6. prompt[P] \in Tokens
  <2>1. n + 1 \in 1 .. Len(prompt)
    BY <1>4
  <2> QED
    BY <1>4, <1>5, <2>1, ElementOfSeq
<1>7. Tail(prompt) = toks
  <2>1. prompt # <<>>
    BY <1>4, EmptySeq
  <2>2. PICK r : r = Tail(prompt)
    OBVIOUS
  <2>3. /\ r \in Seq(Tokens) /\ Len(r) = n /\ \A i \in 1 .. n : r[i] = prompt[i + 1]
    <3>1. /\ r \in Seq(Tokens) /\ Len(r) = Len(prompt) - 1
          /\ \A i \in 1 .. Len(r) : r[i] = prompt[i + 1]
      BY <1>4, <2>1, <2>2, HeadTailProperties
    <3> QED
      BY <1>4, <3>1
  <2>4. \A i \in 1 .. n : r[i] = toks[i]
    BY <1>4, <2>3
  <2> QED
    BY <1>1, <1>3, <2>2, <2>3, <2>4, SeqEqual
<1>8. prompt[P] = Latest(BOS, toks)
  BY <1>2, <1>3, <1>5 DEF Latest
<1>9. toks = <<>> => prompt[P] = BOS
  <2> SUFFICES ASSUME toks = <<>> PROVE prompt[P] = BOS
    OBVIOUS
  <2>1. n = 0
    BY <1>3, EmptySeq
  <2> QED
    BY <1>4, <1>5, <2>1
<1> QED
  BY <1>1, <1>4, <1>5, <1>6, <1>7, <1>8, <1>9

LEMMA PairIs ==
  ASSUME NEW u \in Tokens, NEW v \in Tokens
  PROVE  <<u>> \o <<v>> = <<u, v>>
<1>1. PICK one, two, pair : one = <<u>> /\ two = <<v>> /\ pair = <<u, v>>
  OBVIOUS
<1>2. /\ one \in Seq(Tokens) /\ Len(one) = 1 /\ one[1] = u
      /\ two \in Seq(Tokens) /\ Len(two) = 1 /\ two[1] = v
      /\ pair \in Seq(Tokens) /\ Len(pair) = 2 /\ pair[1] = u /\ pair[2] = v
  BY <1>1
<1>3. PICK c : c = one \o two
  OBVIOUS
<1>4. /\ c \in Seq(Tokens) /\ Len(c) = 2
      /\ \A i \in 1 .. 2 : c[i] = IF i <= 1 THEN one[i] ELSE two[i - 1]
  BY <1>2, <1>3, ConcatProperties
<1>5. c[1] = u /\ c[2] = v
  BY <1>2, <1>4
<1>6. \A i \in 1 .. 2 : c[i] = pair[i]
  BY <1>2, <1>5
<1>7. c = pair
  BY <1>2, <1>4, <1>6, SeqEqual
<1> QED
  BY <1>1, <1>3, <1>7

(* The space that Start puts first is the one that is stripped.            *)
LEMMA InitText == ASSUME Vocabulary, Init PROVE TextInv
<1>1. typed \in Texts /\ at = 1 /\ prompt = Start(typed) /\ pc = "encode" /\ generated = 0
  BY DEF Init
<1>2. at \in 1 .. Len(typed) + 1
  BY <1>1, Typed
<1>3. SubSeq(typed, 1, at - 1) = <<>>
  BY <1>1, Typed
<1>4. BOS \in Tokens
  BY TokenizerAssumption
<1>5. \E toks \in Seq(Words) : Spells(toks)
  <2>1. CASE typed = <<>>
    <3>1. <<>> \in Seq(Words) /\ <<BOS>> \o <<>> = <<BOS>>
      <4>1. <<BOS>> \in Seq(Tokens)
        BY <1>4
      <4> QED
        BY <4>1, EmptySeq, ConcatEmptySeq
    <3>2. prompt = <<BOS>> \o <<>>
      BY <1>1, <2>1, <3>1 DEF Start
    <3>3. Spells(<<>>)
      BY <1>3, <1>4, <2>1, <3>2, OutputsEmpty DEF Spells
    <3> QED
      BY <3>1, <3>3
  <2>2. CASE typed # <<>>
    <3>1. PICK sp \in Tokens \ {BOS} : sp = id(<<Space>>)
      BY DEF Vocabulary
    <3>2. sp # None /\ Piece[sp] = <<Space>>
      <4>1. sp # None
        BY <3>1, TokenizerAssumption DEF None
      <4> QED
        BY <3>1, <4>1, TokenOf
    <3>3. prompt = <<BOS>> \o <<sp>>
      <4>1. prompt = <<BOS, sp>>
        BY <1>1, <2>2, <3>1, <3>2 DEF Start
      <4>2. <<BOS>> \o <<sp>> = <<BOS, sp>>
        BY <1>4, <3>1, PairIs
      <4> QED
        BY <4>1, <4>2
    <3>4. <<sp>> \in Seq(Words) /\ <<sp>> # <<>>
      <4>1. sp \in Words
        BY <3>1, <3>2 DEF Words
      <4> QED
        BY <4>1
    <3>5. Outputs(BOS, <<sp>>) = <<>>
      <4>1. Outputs(BOS, Append(<<>>, sp)) = Outputs(BOS, <<>>) \o Output(Latest(BOS, <<>>), sp)
        BY <1>4, <3>1, EmptySeq, OutputsAppend
      <4>2. Append(<<>>, sp) = <<sp>>
        OBVIOUS
      <4>3. Latest(BOS, <<>>) = BOS
        <5>1. Before(BOS, <<>>)[1] = BOS
          BY <1>4, EmptySeq, BeforeIs
        <5>2. Len(<<>>) + 1 = 1
          BY EmptySeq
        <5> QED
          BY <5>1, <5>2 DEF Latest
      <4>4. Output(BOS, sp) = <<>>
        <5>1. Head(<<Space>>) = Space /\ Tail(<<Space>>) = <<>> /\ <<Space>> # <<>>
          OBVIOUS
        <5>2. Output(BOS, sp) = Spelled(Tail(Piece[sp]))
          BY <3>2, <5>1, Zenon DEF Output
        <5>3. Spelled(<<>>) = <<>>
          BY Zenon DEF Spelled
        <5> QED
          BY <3>2, <5>1, <5>2, <5>3, Zenon
      <4>5. Outputs(BOS, <<>>) = <<>> /\ <<>> \o <<>> = <<>>
        BY <1>4, OutputsEmpty
      <4> QED
        BY <4>1, <4>2, <4>3, <4>4, <4>5
    <3>6. Spells(<<sp>>)
      BY <1>3, <3>3, <3>4, <3>5 DEF Spells
    <3> QED
      BY <3>4, <3>6
  <2> QED
    BY <2>1, <2>2
<1> QED
  BY <1>1, <1>2, <1>5 DEF TextInv, Generating
-----------------------------------------------------------------------------
(* The prompt grows by the codepoint taken from the text.                  *)
LEMMA CodepointText ==
  ASSUME Vocabulary, TextInv, EncodeCodepoint
  PROVE  TextInv'
<1> DEFINE cp == Codepoint(typed, at)
           tk == TokensOf(cp)
<1>1. /\ pc = "encode" /\ at <= Len(typed) /\ typed \in Texts /\ at \in 1 .. Len(typed) + 1
      /\ prompt' = prompt \o tk /\ at' = at + Len(cp)
      /\ UNCHANGED <<typed, pc, generated, text>>
  BY DEF EncodeCodepoint, TextInv, loopVars
<1>2. PICK toks \in Seq(Words) : Spells(toks)
  BY DEF TextInv
<1>3. typed \in Seq(0 .. 255) /\ typed \in Seq(Nat) /\ Len(typed) \in Nat
  BY <1>1, Typed
<1>4. at \in 1 .. Len(typed)
  BY <1>1, <1>3
<1>5. PICK to \in at .. Len(typed) : cp = SubSeq(typed, at, to)
  BY <1>3, <1>4, CodepointIs
<1>6. at + Len(cp) = to + 1
  <2>1. Len(cp) = to - at + 1
    BY <1>3, <1>4, <1>5, PartOf
  <2> QED
    BY <1>4, <1>5, <2>1
<1> DEFINE u == Latest(BOS, toks)
<1>7. \A w \in Tokens \ {BOS} : tk \in Seq(Words) /\ tk # <<>> /\ Outputs(w, tk) = cp
  BY <1>1, <1>4, CodepointSaid
<1>8. BOS \in Tokens /\ Words \subseteq Tokens
  BY TokenizerAssumption DEF Words
<1>9. tk \in Seq(Words) /\ tk # <<>> /\ tk \in Seq(Tokens) /\ toks \in Seq(Tokens)
  <2> HIDE DEF tk, cp
  <2>1. id(<<Space>>) \in Tokens \ {BOS}
    BY DEF Vocabulary
  <2>2. tk \in Seq(Words) /\ tk # <<>>
    BY <1>7, <2>1
  <2> QED
    BY <1>2, <1>8, <2>2, SeqMonotonic
<1>10. u \in Tokens \ {BOS}
  <2>1. toks # <<>>
    <3>1. typed # <<>>
      BY <1>3, <1>4, EmptySeq
    <3> QED
      BY <1>2, <3>1 DEF Spells
  <2>2. PICK n \in Nat \ {0} : n = Len(toks)
    BY <1>2, <2>1, EmptySeq
  <2>3. n \in 1 .. Len(toks)
    BY <2>2
  <2>4. u = toks[n]
    <3>1. \A i \in 1 .. Len(toks) : Before(BOS, toks)[i + 1] = toks[i]
      BY <1>8, <1>9, BeforeIs
    <3>2. Before(BOS, toks)[n + 1] = toks[n]
      BY <2>3, <3>1
    <3> QED
      BY <2>2, <3>2 DEF Latest
  <2>5. toks[n] \in Words
    BY <1>2, <2>3, ElementOfSeq
  <2> QED
    BY <2>4, <2>5 DEF Words
<1> HIDE DEF tk, u
<1>11. toks \o tk \in Seq(Words) /\ toks \o tk # <<>>
  BY <1>2, <1>9, TailOfConcat, ConcatProperties, ConcatEmptySeq
<1>12. prompt' = <<BOS>> \o (toks \o tk)
  <2>1. <<BOS>> \in Seq(Tokens)
    BY <1>8
  <2>2. (<<BOS>> \o toks) \o tk = <<BOS>> \o (toks \o tk)
    BY <1>9, <2>1, ConcatAssociative
  <2>3. prompt = <<BOS>> \o toks
    BY <1>2 DEF Spells
  <2> QED
    BY <1>1, <2>2, <2>3
<1>13. Outputs(BOS, toks \o tk) = SubSeq(typed, 1, to)
  <2>1. Outputs(BOS, toks \o tk) = Outputs(BOS, toks) \o Outputs(u, tk)
    BY <1>8, <1>9, OutputsConcat DEF u
  <2>2. Outputs(u, tk) = cp
    BY <1>7, <1>10
  <2>3. Outputs(BOS, toks) = SubSeq(typed, 1, at - 1)
    BY <1>2 DEF Spells
  <2>4. SubSeq(typed, 1, at - 1) \o SubSeq(typed, at, to) = SubSeq(typed, 1, to)
    <3>1. PICK k \in Nat : k = at - 1 /\ at = k + 1
      <4>1. at - 1 \in Nat /\ at = (at - 1) + 1
        BY <1>4
      <4> QED
        BY <4>1
    <3>2. /\ 1 \in 1 .. Len(typed) + 1 /\ k \in 1 - 1 .. Len(typed) /\ to \in k .. Len(typed)
      BY <1>3, <1>4, <1>5, <3>1
    <3>3. SubSeq(typed, 1, k) \o SubSeq(typed, k + 1, to) = SubSeq(typed, 1, to)
      BY <1>3, <3>2, ConcatAdjacentSubSeq
    <3> QED
      BY <3>1, <3>3
  <2> QED
    BY <1>5, <2>1, <2>2, <2>3, <2>4
<1>14. at' = to + 1 /\ at' \in 1 .. Len(typed) + 1 /\ at' - 1 = to
  BY <1>1, <1>3, <1>4, <1>5, <1>6
<1>15. PICK r : r = toks \o tk
  OBVIOUS
<1>16. Spells(r)'
  BY <1>1, <1>11, <1>12, <1>13, <1>14, <1>15 DEF Spells
<1> QED
  BY <1>1, <1>11, <1>14, <1>15, <1>16 DEF TextInv, Generating

(* Merges do not touch what the prompt prints.                             *)
LEMMA MergeText ==
  ASSUME Vocabulary, TextInv, MergePair
  PROVE  TextInv'
<1>1. /\ pc = "encode" /\ Pairs(prompt) # {} /\ prompt' = Merge(prompt)
      /\ UNCHANGED <<typed, pc, at, generated, text>>
  BY DEF MergePair, loopVars
<1>2. PICK toks \in Seq(Words) : Spells(toks)
  BY DEF TextInv
<1>3. prompt = <<BOS>> \o toks
  BY <1>2 DEF Spells
<1>4. PICK r \in Seq(Words) : /\ Merge(prompt) = <<BOS>> \o r /\ r # <<>>
                              /\ Outputs(BOS, r) = Outputs(BOS, toks)
  BY <1>1, <1>2, <1>3, MergeSaid
<1>5. Spells(r)'
  BY <1>1, <1>2, <1>4 DEF Spells
<1> QED
  BY <1>1, <1>4, <1>5 DEF TextInv, Generating

(* Prefill begins when the whole text is taken.                            *)
LEMMA EncodedText ==
  ASSUME TextInv, Encoded
  PROVE  TextInv'
<1>1. /\ pc = "encode" /\ at > Len(typed) /\ text' = prompt /\ pc' = "prefill"
      /\ UNCHANGED <<typed, at, prompt, generated>>
  BY DEF Encoded, loopVars
<1>2. PICK toks \in Seq(Words) : Spells(toks)
  BY DEF TextInv
<1>3. Spells(toks)'
  BY <1>1, <1>2 DEF Spells
<1>4. at = Len(typed) + 1
  BY <1>1, Typed DEF TextInv
<1> QED
  BY <1>1, <1>2, <1>3, <1>4 DEF TextInv, Generating

(* Steps of prefill and decode, and the end, leave the text alone.         *)
Onward(from, to) ==
  \/ to = from
  \/ from = "prefill" /\ to = "prompt"
  \/ from = "loop" /\ to = "done"
  \/ from \in {"row", "attend", "logits"} /\ to \in {"row", "attend", "logits"}

LEMMA OtherText ==
  ASSUME TextInv, Onward(pc, pc'),
         UNCHANGED <<typed, at, prompt, generated, text, printed, prev, pos, token>>
  PROVE  TextInv'
<1>1. PICK toks \in Seq(Words) : Spells(toks)
  BY DEF TextInv
<1>2. Spells(toks)'
  BY <1>1 DEF Spells
<1>3. pc' \in Generating => \E gen \in Seq(Tokens) : Says(gen)'
  <2> SUFFICES ASSUME pc' \in Generating PROVE \E gen \in Seq(Tokens) : Says(gen)'
    OBVIOUS
  <2>1. pc \in Generating
    BY DEF Onward, Generating
  <2>2. PICK gen \in Seq(Tokens) : Says(gen)
    BY <2>1 DEF TextInv
  <2>3. pc' \in {"row", "attend", "logits"} <=> pc \in {"row", "attend", "logits"}
    BY DEF Onward, Generating
  <2>4. Says(gen)'
    BY <2>2, <2>3, Zenon DEF Says, P
  <2> QED
    BY <2>4
<1> QED
  BY <1>1, <1>2, <1>3 DEF TextInv, Onward
(* The prompt printed back is what was typed.                              *)
LEMMA FirstSampleText ==
  ASSUME TextInv, FirstSample
  PROVE  TextInv'
<1>1. /\ pc = "prompt" /\ pc' = "loop" /\ printed' = Outputs(BOS, Tail(prompt))
      /\ prev' = prompt[P] /\ pos' = P /\ token' \in Samples \cup {BOS}
      /\ UNCHANGED <<typed, at, prompt, generated, text>>
  BY DEF FirstSample
<1>2. PICK toks \in Seq(Words) : Spells(toks)
  BY DEF TextInv
<1>3. Spells(toks)'
  BY <1>1, <1>2 DEF Spells
<1>4. token' \in Tokens
  BY <1>1, StoryAssumption, TokenizerAssumption
<1>5. /\ prompt \in Seq(Tokens) /\ P \in Nat \ {0} /\ prompt[P] \in Tokens
      /\ Tail(prompt) = toks
  BY <1>2, PromptIs DEF Spells
<1>6. printed' = typed /\ typed \in Seq(Nat)
  <2>1. typed \in Texts /\ at = Len(typed) + 1
    BY <1>1 DEF TextInv
  <2>2. Len(typed) \in Nat /\ SubSeq(typed, 1, Len(typed)) = typed /\ typed \in Seq(Nat)
    BY <2>1, Typed
  <2>3. at - 1 = Len(typed)
    BY <2>1, <2>2
  <2> QED
    BY <1>1, <1>2, <1>5, <2>2, <2>3 DEF Spells
<1>7. PICK u \in Tokens : u = prompt[P]
  BY <1>5
<1>8. /\ <<>> \in Seq(Tokens) /\ Len(<<>>) = 0 /\ Outputs(u, <<>>) = <<>>
      /\ Latest(u, <<>>) = u
  <2>1. <<>> \in Seq(Tokens) /\ Len(<<>>) = 0
    BY EmptySeq
  <2>2. Before(u, <<>>)[1] = u
    BY <2>1, BeforeIs
  <2> QED
    BY <2>1, <2>2, OutputsEmpty DEF Latest
<1>9. text = prompt /\ generated = 0
  BY <1>1 DEF TextInv
<1>10. Says(<<>>)'
  <2>1. P' = P /\ P + 0 = P /\ prompt'[P'] = u
    BY <1>1, <1>5, <1>7 DEF P
  <2>2. text' = prompt' \o <<>>
    BY <1>1, <1>5, <1>9, ConcatEmptySeq
  <2>3. printed' = typed' \o Outputs(u, <<>>)
    BY <1>1, <1>6, <1>8, ConcatEmptySeq
  <2>4. prev' = Latest(u, <<>>)
    BY <1>1, <1>7, <1>8
  <2>5. pos' = P' + generated'
    BY <1>1, <1>5, <1>9, <2>1
  <2>6. Len(<<>>) = generated' /\ pc' \notin {"row", "attend", "logits"}
    BY <1>1, <1>8, <1>9
  <2> QED
    BY <2>1, <2>2, <2>3, <2>4, <2>5, <2>6 DEF Says
<1> QED
  BY <1>1, <1>3, <1>4, <1>8, <1>10 DEF TextInv, Generating

(* A token is printed once, after the one it follows.                      *)
LEMMA ContinueText ==
  ASSUME TextInv, Continue
  PROVE  TextInv'
<1>1. /\ pc = "loop" /\ pc' = "row" /\ printed' = printed \o Output(prev, token)
      /\ prev' = token /\ text' = Append(text, token)
      /\ UNCHANGED <<typed, at, prompt, generated, pos>>
  BY DEF Continue
<1>2. PICK toks \in Seq(Words) : Spells(toks)
  BY DEF TextInv
<1>3. Spells(toks)'
  BY <1>1, <1>2 DEF Spells
<1>4. prompt \in Seq(Tokens) /\ P \in Nat \ {0} /\ prompt[P] \in Tokens
  BY <1>2, PromptIs DEF Spells
<1>5. PICK gen \in Seq(Tokens) : Says(gen)
  BY <1>1 DEF TextInv, Generating
<1>6. PICK u \in Tokens : u = prompt[P]
  BY <1>4
<1>7. PICK v \in Tokens : v = token
  BY <1>1 DEF TextInv
<1>8. PICK more : more = Append(gen, v)
  OBVIOUS
<1>9. /\ more \in Seq(Tokens) /\ Len(more) = Len(gen) + 1
      /\ Outputs(u, more) = Outputs(u, gen) \o Output(Latest(u, gen), v)
      /\ Outputs(u, gen) \in Seq(Nat) /\ Latest(u, more) = v
  BY <1>5, <1>6, <1>7, <1>8, AppendProperties, OutputsAppend, SaidAppend
<1>10. typed \in Seq(Nat)
  BY Typed DEF TextInv
<1>11. Says(more)'
  <2>1. P' = P /\ prompt'[P'] = u
    BY <1>1, <1>6 DEF P
  <2>2. text' = prompt' \o more
    <3>1. text = prompt \o gen
      BY <1>5 DEF Says
    <3>2. prompt \o Append(gen, v) = Append(prompt \o gen, v)
      BY <1>4, <1>5, <1>7, ConcatAppend
    <3> QED
      BY <1>1, <1>7, <1>8, <3>1, <3>2, Zenon
  <2>3. printed' = typed' \o Outputs(u, more)
    <3>1. printed = typed \o Outputs(u, gen) /\ prev = Latest(u, gen)
      BY <1>5, <1>6 DEF Says
    <3>2. Output(prev, v) \in Seq(Nat)
      BY <1>7, OutputIn
    <3>3. (typed \o Outputs(u, gen)) \o Output(prev, v)
          = typed \o (Outputs(u, gen) \o Output(prev, v))
      BY <1>9, <1>10, <3>2, Associative
    <3> QED
      BY <1>1, <1>7, <1>9, <3>1, <3>3
  <2>4. prev' = Latest(u, more)
    BY <1>1, <1>7, <1>9
  <2>5. pos' = P' + generated'
    BY <1>1, <1>5, <2>1 DEF Says
  <2>6. Len(more) = generated' + 1 /\ pc' \in {"row", "attend", "logits"}
    BY <1>1, <1>5, <1>9 DEF Says
  <2> QED
    BY <2>1, <2>2, <2>3, <2>4, <2>5, <2>6 DEF Says
<1> QED
  BY <1>1, <1>3, <1>9, <1>11 DEF TextInv, Generating

(* The position and the count of tokens move together.                     *)
LEMMA NextSampleText ==
  ASSUME TextInv, NextSample
  PROVE  TextInv'
<1>1. /\ pc = "logits" /\ pc' = "loop" /\ token' \in Samples \cup {BOS}
      /\ pos' = pos + 1 /\ generated' = generated + 1
      /\ UNCHANGED <<typed, at, prompt, prev, printed, text>>
  BY DEF NextSample
<1>2. PICK toks \in Seq(Words) : Spells(toks)
  BY DEF TextInv
<1>3. Spells(toks)'
  BY <1>1, <1>2 DEF Spells
<1>4. token' \in Tokens
  BY <1>1, StoryAssumption, TokenizerAssumption
<1>5. PICK gen \in Seq(Tokens) : Says(gen)
  BY <1>1 DEF TextInv, Generating
<1>6. P \in Nat \ {0} /\ generated \in Nat
  BY <1>2, PromptIs DEF Spells, TextInv
<1>7. Says(gen)'
  <2>1. P' = P
    BY <1>1 DEF P
  <2>2. pos' = P' + generated'
    BY <1>1, <1>5, <1>6, <2>1 DEF Says
  <2>3. Len(gen) = generated' /\ pc' \notin {"row", "attend", "logits"}
    BY <1>1, <1>5 DEF Says
  <2> QED
    BY <1>1, <1>5, <2>1, <2>2, <2>3 DEF Says
<1> QED
  BY <1>1, <1>3, <1>4, <1>5, <1>6, <1>7 DEF TextInv, Generating
-----------------------------------------------------------------------------
LEMMA SuffixOf ==
  ASSUME NEW S, NEW a \in Seq(S), NEW b \in Seq(S)
  PROVE  SubSeq(a \o b, Len(a) + 1, Len(a \o b)) = b
<1>1. PICK k \in Nat : k = Len(a)
  BY LenProperties
<1>2. PICK m \in Nat : m = Len(b)
  BY LenProperties
<1>3. Len(a \o b) = k + m
  BY <1>1, <1>2, ConcatProperties
<1>4. CASE m = 0
  <2>1. SubSeq(a \o b, k + 1, k + m) = <<>>
    BY <1>4, SubSeqEmpty
  <2>2. b = <<>>
    BY <1>2, <1>4, EmptySeq
  <2> QED
    BY <1>1, <1>3, <2>1, <2>2
<1>5. CASE m # 0
  <2>1. /\ k + 1 \in Len(a) + 1 .. Len(a) + Len(b) /\ k + m \in Len(a) + 1 .. Len(a) + Len(b)
        /\ (k + 1) - k = 1 /\ (k + m) - k = m
    BY <1>1, <1>2, <1>5
  <2>2. SubSeq(a \o b, k + 1, k + m) = SubSeq(b, (k + 1) - k, (k + m) - k)
    BY <1>1, <2>1, SubSeqOfConcat2
  <2>3. SubSeq(b, 1, m) = b
    BY <1>2, SubSeqFull
  <2> QED
    BY <1>1, <1>3, <2>1, <2>2, <2>3
<1> QED
  BY <1>4, <1>5

(* At every point the prompt spells what encode has taken of the text, and *)
(* the output is what was typed with what the tokens generated since say.  *)
THEOREM TextInvariance == Vocabulary => (Spec => []TextInv)
<1> SUFFICES ASSUME Vocabulary PROVE Spec => []TextInv
  OBVIOUS
<1>1. Init => TextInv
  BY InitText
<1>2. TextInv /\ [Next]_vars => TextInv'
  <2> SUFFICES ASSUME TextInv, [Next]_vars PROVE TextInv'
    OBVIOUS
  <2>1. CASE Encode
    BY <2>1, CodepointText, MergeText, EncodedText DEF Encode
  <2>2. CASE Prefill
    <3>1. /\ Onward(pc, pc')
          /\ UNCHANGED <<typed, at, prompt, generated, text, printed, prev, pos, token>>
      BY <2>2 DEF Prefill, PrefillRow, PrefillLayer, PrefillDone, loopVars, Onward
    <3> QED
      BY <3>1, OtherText
  <2>3. CASE Decode
    <3>1. /\ Onward(pc, pc')
          /\ UNCHANGED <<typed, at, prompt, generated, text, printed, prev, pos, token>>
      BY <2>3 DEF Decode, DecodeRow, AttendKey, AttendHead, DecodeLayer, loopVars, Onward
    <3> QED
      BY <3>1, OtherText
  <2>4. CASE Stop
    <3>1. /\ Onward(pc, pc')
          /\ UNCHANGED <<typed, at, prompt, generated, text, printed, prev, pos, token>>
      BY <2>4 DEF Stop, loopVars, Onward
    <3> QED
      BY <3>1, OtherText
  <2>5. CASE FirstSample \/ Continue \/ NextSample
    BY <2>5, FirstSampleText, ContinueText, NextSampleText
  <2>6. CASE UNCHANGED vars
    <3>1. /\ Onward(pc, pc')
          /\ UNCHANGED <<typed, at, prompt, generated, text, printed, prev, pos, token>>
      BY <2>6 DEF vars, Onward
    <3> QED
      BY <3>1, OtherText
  <2> QED
    BY <2>1, <2>2, <2>3, <2>4, <2>5, <2>6 DEF Next, Main, Finished
<1> QED
  BY <1>1, <1>2, PTL DEF Spec

(* The output is what was typed, byte for byte, then each token generated, *)
(* once; pos counts the positions cached.                                  *)
THEOREM TextPrintedHolds == Vocabulary => (Spec => []TextPrinted)
<1> SUFFICES ASSUME Vocabulary PROVE Spec => []TextPrinted
  OBVIOUS
<1>1. TextInv => TextPrinted
  <2> SUFFICES ASSUME TextInv, pc \in {"loop", "done"}
               PROVE  /\ pos = Len(text) /\ generated = pos - P
                      /\ printed = typed \o Outputs(prompt[P], SubSeq(text, P + 1, Len(text)))
    BY DEF TextPrinted
  <2>1. PICK toks \in Seq(Words) : Spells(toks)
    BY DEF TextInv
  <2>2. PICK gen \in Seq(Tokens) : Says(gen)
    BY DEF TextInv, Generating
  <2>3. prompt \in Seq(Tokens) /\ P \in Nat \ {0} /\ generated \in Nat
    BY <2>1, PromptIs DEF Spells, TextInv
  <2>4. /\ text = prompt \o gen /\ printed = typed \o Outputs(prompt[P], gen)
        /\ pos = P + generated /\ Len(gen) = generated
    BY <2>2 DEF Says
  <2>5. Len(prompt) = P
    BY DEF P
  <2>6. Len(text) = P + generated
    BY <2>2, <2>3, <2>4, <2>5, ConcatProperties
  <2>7. SubSeq(text, P + 1, Len(text)) = gen
    BY <2>2, <2>3, <2>4, <2>5, SuffixOf
  <2>8. pos = Len(text) /\ generated = pos - P
    <3> HIDE DEF P
    <3> QED
      BY <2>3, <2>4, <2>6
  <2>9. printed = typed \o Outputs(prompt[P], SubSeq(text, P + 1, Len(text)))
    BY <2>4, <2>7, Zenon
  <2> QED
    BY <2>8, <2>9
<1> QED
  BY <1>1, TextInvariance, PTL
=============================================================================
