------------------------------ MODULE FlashFwd ------------------------------
(***************************************************************************)
(* One thread block (CTA) of flash_fwd_kernel (src/flash_fwd.cu): BLOCK_M  *)
(* query rows, a pair of threads per row, K/V tiles of BLOCK_N rows staged *)
(* in shared memory between two barriers, half a dot product per thread    *)
(* joined by a warp shuffle, and a running softmax in registers.           *)
(*                                                                         *)
(* A float4 of K or V is a number, chunk: DIM4 of them make up row         *)
(* chunk \div DIM4. Threads run freely between barriers and shuffles. The  *)
(* blocks of a grid share nothing but O and lse: one block, any of them,   *)
(* runs in a behaviour. gridDim.y only offsets base and is left out.       *)
(*                                                                         *)
(* pc: load (the cooperative copy), sync1, dot (half a dot product), shfl, *)
(* fold (the rest of the key's iteration), sync2, store, done.             *)
(***************************************************************************)
EXTENDS Softmax, FiniteSets

CONSTANTS BLOCK_M,      \* query rows of a CTA
          BLOCK_N,      \* K/V rows of a tile
          WARP,         \* threads of a warp
          DIM4,         \* float4s in a row: HEAD_DIM / 4
          MaxSeq,       \* bound on seq
          Calls,        \* what may be asked for: records [seq, causal, lse]
          Score,        \* Score[t][k]: the scaled dot product of q_t and k_k
          Garbage,      \* the dot product of halves that do not belong together
          NotStored     \* an element of O or lse that was not written

NTHREADS == 2 * BLOCK_M

ASSUME FlashFwdAssumption ==
  /\ BLOCK_M \in Nat \ {0} /\ BLOCK_N \in Nat \ {0} /\ MaxSeq \in Nat \ {0}
  /\ Calls \subseteq [seq : 1 .. MaxSeq, causal : BOOLEAN, lse : BOOLEAN]
  /\ DIM4 \in Nat \ {0} /\ DIM4 % 2 = 0
  /\ WARP \in Nat \ {0} /\ WARP % 2 = 0 /\ NTHREADS % WARP = 0
  /\ Score \in [0 .. MaxSeq - 1 -> [0 .. MaxSeq - 1 -> Int]]

(* Scores are far above the sentinel, as finite dot products of the tests' *)
(* and models' activations are: exp(-1e30 - s) is 0 for every score s.     *)
ASSUME SentinelIsLow ==
  /\ \A t, k \in 0 .. MaxSeq - 1 : Vanishes(Sentinel - Score[t][k])
  /\ Under \in Nat /\ Sentinel \in Int

(* A stored result can be told from an element that was not written.       *)
ASSUME NotStoredIsNoResult ==
  LET terms == SUBSET [key : 0 .. MaxSeq - 1, x : Int]
  IN  NotStored \notin [num : terms, den : terms, max : Int]

VARIABLES
  arg,      \* the launch: seq, CAUSAL, whether lse is given, blockIdx.x
  pc,       \* control point of each thread
  at,       \* loop counters of each thread: i (copy), j0 (tile), j (key in it)
  part,     \* the K chunks behind each thread's dot product, own and shuffled in
  reg,      \* registers m, l, acc of each thread
  Ks, Vs,   \* shared memory: the chunk of K and V held at each float4
  O,        \* O[t][h]: half h of row t
  lse

vars == <<arg, pc, at, part, reg, Ks, Vs, O, lse>>

Threads == 0 .. NTHREADS - 1
Warps == 0 .. NTHREADS \div WARP - 1
ThreadsOf(w) == {x \in Threads : x \div WARP = w}
Partner(x) == IF x % 2 = 0 THEN x + 1 ELSE x - 1
Rows == 0 .. MaxSeq - 1
Keys == 0 .. MaxSeq - 1

q0 == arg.cta * BLOCK_M
Row(x) == q0 + x \div 2
Half(x) == x % 2
Live(x) == Row(x) < arg.seq
Least(a, b) == IF a < b THEN a ELSE b
kv_end == IF arg.causal THEN Least(arg.seq, q0 + BLOCK_M) ELSE arg.seq
jn_Uncapped(x) == BLOCK_N                                  \* mutant
jn(x) == Least(BLOCK_N, arg.seq - at[x].j0)

Slots == 0 .. BLOCK_N * DIM4 - 1
Uninit == -1

(* The slots, in tile row j, of thread x's half; the chunks of key k's.    *)
HalfSlots(x, j) == LET h == DIM4 \div 2
                   IN  j * DIM4 + Half(x) * h .. j * DIM4 + Half(x) * h + h - 1
Chunks(k) == k * DIM4 .. k * DIM4 + DIM4 - 1
HalfChunks(x, k) == HalfSlots(x, k)

Init ==
  /\ \E c \in Calls : \E cta \in 0 .. (c.seq + BLOCK_M - 1) \div BLOCK_M - 1 :
       arg = [seq |-> c.seq, causal |-> c.causal, lse |-> c.lse, cta |-> cta]
  /\ pc = [x \in Threads |-> "load"]
  /\ at = [x \in Threads |-> [i |-> x, j0 |-> 0, j |-> 0]]
  /\ part = [x \in Threads |-> {}]
  /\ reg = [x \in Threads |-> [m |-> Sentinel, l |-> {}, acc |-> {}]]
  /\ Ks = [i \in Slots |-> Uninit]
  /\ Vs = [i \in Slots |-> Uninit]
  /\ O = [t \in Rows |-> [h \in 0 .. 1 |-> NotStored]]
  /\ lse = [t \in Rows |-> NotStored]
-----------------------------------------------------------------------------
(* One iteration of the strided copy of the tile.                          *)
Load(x) ==
  /\ pc[x] = "load"
  /\ at[x].i < jn(x) * DIM4
  /\ Ks' = [Ks EXCEPT ![at[x].i] = at[x].j0 * DIM4 + at[x].i]
  /\ Vs' = [Vs EXCEPT ![at[x].i] = at[x].j0 * DIM4 + at[x].i]
  /\ at' = [at EXCEPT ![x].i = @ + NTHREADS]
  /\ UNCHANGED <<arg, pc, part, reg, O, lse>>

Loaded(x) ==
  /\ pc[x] = "load"
  /\ at[x].i >= jn(x) * DIM4
  /\ pc' = [pc EXCEPT ![x] = "sync1"]
  /\ UNCHANGED <<arg, at, part, reg, Ks, Vs, O, lse>>

(* __syncthreads(): when every thread of the block waits at one, all go    *)
(* on. It does not tell the two barriers of the loop apart. After the      *)
(* second the tile loop advances, to the next tile or past its end.        *)
Waiting == {"sync1", "sync2"}

NextTile_Same(x) == [i |-> x, j0 |-> at[x].j0, j |-> 0]    \* mutant
NextTile(x) == [i |-> x, j0 |-> at[x].j0 + BLOCK_N, j |-> 0]
AfterTile(x) == IF at[x].j0 + BLOCK_N < kv_end THEN "load" ELSE "store"

SyncThreads ==
  /\ \A x \in Threads : pc[x] \in Waiting
  /\ pc' = [x \in Threads |->
              IF pc[x] = "sync1" THEN "dot" ELSE AfterTile(x)]
  /\ at' = [x \in Threads |-> IF pc[x] = "sync1" THEN at[x] ELSE NextTile(x)]
  /\ UNCHANGED <<arg, part, reg, Ks, Vs, O, lse>>

Dot(x) ==
  /\ pc[x] = "dot"
  /\ part' = [part EXCEPT ![x] = {Ks[i] : i \in HalfSlots(x, at[x].j)}]
  /\ pc' = [pc EXCEPT ![x] = "shfl"]
  /\ UNCHANGED <<arg, at, reg, Ks, Vs, O, lse>>

(* __shfl_xor_sync(0xffffffff, part, 1): the whole warp takes part.        *)
Shuffle(w) ==
  /\ \A x \in ThreadsOf(w) : pc[x] = "shfl"
  /\ part' = [x \in Threads |-> IF x \in ThreadsOf(w)
                                THEN part[x] \cup part[Partner(x)] ELSE part[x]]
  /\ pc' = [x \in Threads |-> IF x \in ThreadsOf(w) THEN "fold" ELSE pc[x]]
  /\ UNCHANGED <<arg, at, reg, Ks, Vs, O, lse>>

(* The joined dot product: a score if the two halves are those of one key. *)
(* Rows beyond seq have q = 0.                                             *)
Joined(x) ==
  IF ~Live(x) THEN 0
  ELSE IF \E k \in Keys : part[x] = Chunks(k)
       THEN Score[Row(x)][CHOOSE k \in Keys : part[x] = Chunks(k)]
       ELSE Garbage

(* The key whose V row, in thread x's half, tile row j holds.              *)
ValueKey(x) ==
  LET held == {Vs[i] : i \in HalfSlots(x, at[x].j)}
  IN  IF \E k \in Keys : held = HalfChunks(x, k)
      THEN CHOOSE k \in Keys : held = HalfChunks(x, k)
      ELSE Uninit

(* Causal masking is a predicate.                                          *)
MaskedScore(x) ==
  IF arg.causal /\ at[x].j0 + at[x].j > Row(x) THEN Sentinel ELSE Joined(x)

(* Mutants: a break at the causal limit instead of the predicate; no       *)
(* barrier between the use of a tile and the copy of the next.             *)
AfterKey_Break(x) ==
  IF at[x].j + 1 < jn(x) /\ (arg.causal => at[x].j0 + at[x].j < Row(x))
  THEN "dot" ELSE "sync2"

AfterKey(x) == IF at[x].j + 1 < jn(x) THEN "dot" ELSE "sync2"

AddKey(x) ==
  reg' = [reg EXCEPT ![x] =
            FoldInto(@, MaskedScore(x), at[x].j0 + at[x].j, ValueKey(x))]

Fold_NoBarrier(x) ==
  LET last == at[x].j + 1 >= jn(x)
  IN  /\ pc[x] = "fold" /\ AddKey(x)
      /\ at' = [at EXCEPT ![x] =
                  IF last THEN NextTile(x) ELSE [@ EXCEPT !.j = @ + 1]]
      /\ pc' = [pc EXCEPT ![x] = IF last THEN AfterTile(x) ELSE "dot"]
      /\ part' = [part EXCEPT ![x] = {}]
      /\ UNCHANGED <<arg, Ks, Vs, O, lse>>

Fold(x) ==
  /\ pc[x] = "fold" /\ AddKey(x)
  /\ at' = [at EXCEPT ![x].j = @ + 1]
  /\ pc' = [pc EXCEPT ![x] = AfterKey(x)]
  /\ part' = [part EXCEPT ![x] = {}]
  /\ UNCHANGED <<arg, Ks, Vs, O, lse>>

(* The epilogue; only the first of the pair writes lse.                    *)
Writes_Dead(x) == TRUE                                     \* mutant
Writes(x) == Live(x)

Store(x) ==
  /\ pc[x] = "store" /\ Writes(x)
  /\ LET r == Result(reg[x].acc, reg[x].l, reg[x].m)
     IN  /\ O' = [O EXCEPT ![Row(x)][Half(x)] = r]
         /\ lse' = IF arg.lse /\ Half(x) = 0
                   THEN [lse EXCEPT ![Row(x)] = r] ELSE lse
  /\ pc' = [pc EXCEPT ![x] = "done"]
  /\ UNCHANGED <<arg, at, part, reg, Ks, Vs>>

SkipStore(x) ==
  /\ pc[x] = "store" /\ ~Writes(x)
  /\ pc' = [pc EXCEPT ![x] = "done"]
  /\ UNCHANGED <<arg, at, part, reg, Ks, Vs, O, lse>>

Finished == (\A x \in Threads : pc[x] = "done") /\ UNCHANGED vars
-----------------------------------------------------------------------------
Step(x) == Load(x) \/ Loaded(x) \/ Dot(x) \/ Fold(x) \/ Store(x) \/ SkipStore(x)

Next ==
  \/ \E x \in Threads : Step(x)
  \/ \E w \in Warps : Shuffle(w)
  \/ SyncThreads
  \/ Finished

(* The hardware does not idle while some warp can run. Nothing is assumed  *)
(* of which one it picks.                                                  *)
Fairness == WF_vars(Next)

Spec == Init /\ [][Next]_vars
FairSpec == Spec /\ Fairness
-----------------------------------------------------------------------------
Copying(x) == pc[x] \in {"load", "sync1"}
Using(x) == pc[x] \in {"dot", "shfl", "fold", "sync2"}

(* The types, and: no thread reads K or V beyond the seq rows they have,   *)
(* nor a tile beyond its BLOCK_N rows.                                     *)
TypeOK ==
  /\ pc \in [Threads -> {"load", "sync1", "dot", "shfl", "fold", "sync2",
                         "store", "done"}]
  /\ at \in [Threads -> [i : Nat, j0 : 0 .. MaxSeq + BLOCK_N, j : 0 .. BLOCK_N]]
  /\ part \in [Threads -> SUBSET (0 .. arg.seq * DIM4 - 1)]
  /\ \A x \in Threads : reg[x].m \in Int
  /\ Ks \in [Slots -> {Uninit} \cup 0 .. arg.seq * DIM4 - 1]
  /\ Vs = Ks

(* A thread past the first barrier finds in shared memory, in every row    *)
(* of the tile it has yet to use, the K and V row of that very key: none   *)
(* not yet copied, none left from the tile before.                         *)
TileFresh ==
  \A x \in Threads : Using(x) =>
    \A j \in at[x].j .. jn(x) - 1 :
      {Ks[i] : i \in HalfSlots(x, j)} = HalfChunks(x, at[x].j0 + j)

(* No data race on shared memory: while one thread still copies a tile in, *)
(* none reads one, whatever order the warps run in, and what is read is    *)
(* the tile meant.                                                         *)
NoTileRace ==
  /\ \A x, y \in Threads : ~(Copying(x) /\ Using(y))
  /\ TileFresh

(* Nobody waits for a thread that took another path: a thread in a shuffle *)
(* has every other of its warp there or on its way there for the same key, *)
(* and one at a barrier has all the block at, or on the way to, the same   *)
(* barrier of the same tile. A causal break instead of the mask would not. *)
OnTheWay(x, y) ==
  /\ at[x].j0 = at[y].j0
  /\ \/ pc[x] \in {"dot", "shfl"} /\ at[x].j = at[y].j
     \/ pc[x] = "fold" /\ at[x].j \in {at[y].j - 1, at[y].j}

Converge ==
  \A y \in Threads :
    /\ pc[y] = "shfl" => \A x \in ThreadsOf(y \div WARP) : OnTheWay(x, y)
    /\ pc[y] = "sync1" => \A x \in Threads : Copying(x) /\ at[x].j0 = at[y].j0
    /\ pc[y] = "sync2" => \A x \in Threads : Using(x) /\ at[x].j0 = at[y].j0

(* What the two-pass reference stores for row t.                           *)
IsReference(t, r) ==
  LET S == Visible(t, arg.seq, arg.causal)
  IN  /\ IsMax(r.max, Score[t], S)
      /\ r.num = Weights(Score[t], S, r.max)
      /\ r.den = Weights(Score[t], S, r.max)

(* Every half row of O that is stored, and every lse, is one of the        *)
(* block's rows, none past the end of the head, and is the reference       *)
(* softmax of that row: numerator and denominator of the same keys, all of *)
(* the visible ones, relative to their true maximum. When the block ends   *)
(* all of its rows are stored, lse only if asked for.                      *)
OwnRow(t) == t \in q0 .. q0 + BLOCK_M - 1 /\ t < arg.seq

RowsCorrect ==
  \A t \in Rows :
    LET stored == {O[t][0], O[t][1]} \cup (IF arg.lse THEN {lse[t]} ELSE {})
    IN  /\ \A r \in stored \ {NotStored} : OwnRow(t) /\ IsReference(t, r)
        /\ (\A x \in Threads : pc[x] = "done") /\ OwnRow(t) => NotStored \notin stored
        /\ ~arg.lse => lse[t] = NotStored

(* Each thread of a live row is a streaming softmax of the row: the keys   *)
(* before its position have been folded, masked ones without a trace, and  *)
(* both threads of a pair, which never exchange m or l, agree with it.     *)
Online(x) == INSTANCE OnlineSoftmax WITH
  score <- Score[Row(x)],
  visible <- Visible(Row(x), arg.seq, arg.causal),
  folded <- {k \in Visible(Row(x), arg.seq, arg.causal) : k < at[x].j0 + at[x].j},
  m <- reg[x].m, l <- reg[x].l, acc <- reg[x].acc,
  out <- O[Row(x)][Half(x)]

ImplementsOnline ==
  /\ \A x \in Threads : Live(x) => Online(x)!Init
  /\ [][\A x \in Threads :
         Live(x) => UNCHANGED Online(x)!vars \/ Online(x)!Next]_vars

(* The block ends: no barrier and no shuffle waits for ever.               *)
Terminates == <>(\A x \in Threads : pc[x] = "done")
=============================================================================
