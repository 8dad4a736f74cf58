------------------------------ MODULE FlashBwd ------------------------------
(***************************************************************************)
(* One thread block of the backward kernels (src/flash_bwd.cu). A block of *)
(* flash_bwd_dq_kernel owns BLOCK_M query rows and streams tiles of K and  *)
(* V; one of flash_bwd_dkv_kernel owns BLOCK_M key rows and streams tiles  *)
(* of Q and dO with their rows of lse and D. Both run the same schedule: a *)
(* pair of threads per owned row, a tile staged between two barriers, two  *)
(* half dot products joined by shuffles, and a gradient in registers.      *)
(*                                                                         *)
(* A gradient is a sum over the streamed rows. It is the sequence of its   *)
(* terms' rows, in the order of their addition; a term is zero, and left   *)
(* out, if its p is exp(-1e30 - L) = 0. Two tensors are staged by the same *)
(* assignments: T stands for both. As in FlashFwd, a float4 is a chunk.    *)
(*                                                                         *)
(* pc: load, stats (the copies), sync1, dot, shfl, fold, sync2, store,     *)
(* done.                                                                   *)
(***************************************************************************)
EXTENDS Gradients

CONSTANTS BLOCK_M,      \* rows a block owns
          BLOCK_N,      \* rows of a tile
          WARP,         \* threads of a warp
          DIM4,         \* float4s in a row: HEAD_DIM / 4
          NotStored     \* a gradient row that was not written

NTHREADS == 2 * BLOCK_M
Garbage == -1           \* a row mixed of several; shared memory not written

ASSUME FlashBwdAssumption ==
  /\ BLOCK_M \in Nat \ {0} /\ BLOCK_N \in Nat \ {0} /\ MaxSeq \in Nat \ {0}
  /\ BLOCK_M % BLOCK_N = 0
  /\ DIM4 \in Nat \ {0} /\ DIM4 % 2 = 0
  /\ WARP \in Nat \ {0} /\ WARP % 2 = 0 /\ NTHREADS % WARP = 0

(* A stored gradient can be told from a row that was not written.          *)
ASSUME NotStoredIsNoResult ==
  \A a, b \in 0 .. MaxSeq : NotStored # Ascending(a, b)

VARIABLES
  arg,      \* the launch: kernel, seq, CAUSAL, blockIdx.x
  pc,       \* control point of each thread
  at,       \* its loop counters: i (copy), r0 (tile), r (row in it)
  part,     \* the chunks behind its dot products, own and shuffled in
  grad,     \* its registers dq, or dk and dv
  T, Stats, \* shared memory: the chunk at each float4, the row of Ls and Ds
  out       \* out[row][h]: half h of dQ, or of dK and dV

blockVars == <<arg, pc, at, part, grad, T, Stats, out>>

Threads == 0 .. NTHREADS - 1
Warps == 0 .. NTHREADS \div WARP - 1
ThreadsOf(w) == {x \in Threads : x \div WARP = w}
Partner(x) == IF x % 2 = 0 THEN x + 1 ELSE x - 1
Rows == 0 .. MaxSeq - 1

OwnsKeys == arg.kernel = "dkv"
first == arg.cta * BLOCK_M                                 \* q0, k0
Own(x) == first + x \div 2                                 \* t, j
Half(x) == x % 2
Live(x) == Own(x) < arg.seq
Least(a, b) == IF a < b THEN a ELSE b

(* The streamed rows: up to the block's last row of queries, or from its   *)
(* first row of keys, if causal.                                           *)
kv_end_First == IF arg.causal THEN first + 1 ELSE arg.seq  \* mutant
t_start_After == IF arg.causal THEN first + BLOCK_N ELSE 0 \* mutant
kv_end == IF arg.causal THEN Least(arg.seq, first + BLOCK_M) ELSE arg.seq
t_start == IF arg.causal THEN (first \div BLOCK_N) * BLOCK_N ELSE 0
Start == IF OwnsKeys THEN t_start ELSE 0
End == IF OwnsKeys THEN arg.seq ELSE kv_end
rn(x) == Least(BLOCK_N, arg.seq - at[x].r0)                \* jn, tn

(* The slots, in tile row r, of thread x's half; the chunks of row k.      *)
Slots == 0 .. BLOCK_N * DIM4 - 1
HalfSlots(x, r) == LET h == DIM4 \div 2
                   IN  r * DIM4 + Half(x) * h .. r * DIM4 + Half(x) * h + h - 1
Chunks(k) == k * DIM4 .. k * DIM4 + DIM4 - 1
HalfChunks(x, k) == HalfSlots(x, k)

BlockInit ==
  /\ arg \in [kernel : {"dq", "dkv"}, seq : 1 .. MaxSeq, causal : BOOLEAN,
              cta : 0 .. (MaxSeq - 1) \div BLOCK_M]
  /\ arg.cta < (arg.seq + BLOCK_M - 1) \div BLOCK_M
  /\ pc = [x \in Threads |-> "load"]
  /\ at = [x \in Threads |-> [i |-> x, r0 |-> Start, r |-> 0]]
  /\ part = [x \in Threads |-> {}]
  /\ grad = [x \in Threads |-> <<>>]
  /\ T = [i \in Slots |-> Garbage]
  /\ Stats = [r \in 0 .. BLOCK_N - 1 |-> Garbage]
  /\ out = [k \in Rows |-> [h \in 0 .. 1 |-> NotStored]]
-----------------------------------------------------------------------------
(* One iteration of the strided copy of the tile;                          *)
Load(x) ==
  /\ pc[x] = "load" /\ at[x].i < rn(x) * DIM4
  /\ T' = [T EXCEPT ![at[x].i] = at[x].r0 * DIM4 + at[x].i]
  /\ at' = [at EXCEPT ![x].i = @ + NTHREADS]
  /\ UNCHANGED <<arg, pc, part, grad, Stats, out>>

(* of that of lse and D, which only dkv stages;                            *)
LoadStats(x) ==
  /\ pc[x] = "stats" /\ at[x].i < rn(x)
  /\ Stats' = [Stats EXCEPT ![at[x].i] = at[x].r0 + at[x].i]
  /\ at' = [at EXCEPT ![x].i = @ + NTHREADS]
  /\ UNCHANGED <<arg, pc, part, grad, T, out>>

(* and the end of either.                                                  *)
AfterLoad_NoBarrier(x) == "dot"                            \* mutant
AfterLoad(x) == "sync1"

Loaded(x) ==
  /\ \/ pc[x] = "load" /\ at[x].i >= rn(x) * DIM4
     \/ pc[x] = "stats" /\ at[x].i >= rn(x)
  /\ LET more == OwnsKeys /\ pc[x] = "load"
     IN  /\ pc' = [pc EXCEPT ![x] = IF more THEN "stats" ELSE AfterLoad(x)]
         /\ at' = [at EXCEPT ![x].i = x]
  /\ UNCHANGED <<arg, part, grad, T, Stats, out>>

(* __syncthreads(). After the second of the loop's two, the next tile.     *)
TileAfter(x) == [i |-> x, r0 |-> at[x].r0 + BLOCK_N, r |-> 0]
AfterTile(x) == IF at[x].r0 + BLOCK_N < End THEN "load" ELSE "store"

SyncThreads ==
  /\ \A x \in Threads : pc[x] \in {"sync1", "sync2"}
  /\ pc' = [x \in Threads |-> IF pc[x] = "sync1" THEN "dot" ELSE AfterTile(x)]
  /\ at' = [x \in Threads |-> IF pc[x] = "sync1" THEN at[x] ELSE TileAfter(x)]
  /\ UNCHANGED <<arg, part, grad, T, Stats, out>>

(* sdot and pdot over the thread's half;                                   *)
Dots(x) ==
  /\ pc[x] = "dot"
  /\ part' = [part EXCEPT ![x] = {T[i] : i \in HalfSlots(x, at[x].r)}]
  /\ pc' = [pc EXCEPT ![x] = "shfl"]
  /\ UNCHANGED <<arg, at, grad, T, Stats, out>>

(* two shuffles with nothing between them, of the whole warp;              *)
Shuffle(w) ==
  /\ \A x \in ThreadsOf(w) : pc[x] = "shfl"
  /\ part' = [x \in Threads |-> IF x \in ThreadsOf(w)
                                THEN part[x] \cup part[Partner(x)] ELSE part[x]]
  /\ pc' = [x \in Threads |-> IF x \in ThreadsOf(w) THEN "fold" ELSE pc[x]]
  /\ UNCHANGED <<arg, at, grad, T, Stats, out>>

(* the term added: of row k if the dot products, the tile row multiplied   *)
(* by ds or p, and L and D, which dq has in registers, are all row k's.    *)
IsTerm(x, k) ==
  /\ part[x] = Chunks(k)
  /\ {T[i] : i \in HalfSlots(x, at[x].r)} = HalfChunks(x, k)
  /\ OwnsKeys => Stats[at[x].r] = k
Term(x) ==
  IF \E k \in Rows : IsTerm(x, k) THEN CHOOSE k \in Rows : IsTerm(x, k) ELSE Garbage

(* Causal masking is a predicate: key above the diagonal of its query.     *)
Streamed(x) == at[x].r0 + at[x].r
Masked(x) == arg.causal /\ IF OwnsKeys THEN Streamed(x) < Own(x)
                           ELSE Streamed(x) > Own(x)

(* Mutant: at a masked score the row loop ends.                            *)
AfterRow_Break(x) == IF at[x].r + 1 < rn(x) /\ ~Masked(x) THEN "dot" ELSE "sync2"
AfterRow(x) == IF at[x].r + 1 < rn(x) THEN "dot" ELSE "sync2"

Fold(x) ==
  /\ pc[x] = "fold"
  /\ grad' = [grad EXCEPT ![x] = IF Masked(x) THEN @ ELSE Append(@, Term(x))]
  /\ part' = [part EXCEPT ![x] = {}]
  /\ at' = [at EXCEPT ![x].r = @ + 1]
  /\ pc' = [pc EXCEPT ![x] = AfterRow(x)]
  /\ UNCHANGED <<arg, T, Stats, out>>

Writes_Dead(x) == TRUE                                     \* mutant
Writes(x) == Live(x)

Store(x) ==
  /\ pc[x] = "store"
  /\ out' = IF Writes(x) THEN [out EXCEPT ![Own(x)][Half(x)] = grad[x]] ELSE out
  /\ pc' = [pc EXCEPT ![x] = "done"]
  /\ UNCHANGED <<arg, at, part, grad, T, Stats>>

BlockFinished == (\A x \in Threads : pc[x] = "done") /\ UNCHANGED blockVars
-----------------------------------------------------------------------------
Copy(x) == Load(x) \/ LoadStats(x) \/ Loaded(x)
Use(x) == Dots(x) \/ Fold(x)
BlockNext ==
  \/ \E x \in Threads : Copy(x) \/ Use(x) \/ Store(x)
  \/ \E w \in Warps : Shuffle(w)
  \/ SyncThreads
  \/ BlockFinished

BlockSpec == BlockInit /\ [][BlockNext]_blockVars
-----------------------------------------------------------------------------
Copying(x) == pc[x] \in {"load", "stats", "sync1"}
Using(x) == pc[x] \in {"dot", "shfl", "fold", "sync2"}

(* Types; every row read, of Q, K, V, dO, lse or D, is below seq, and so   *)
(* is every row written.                                                   *)
BlockTypeOK ==
  /\ \A x \in Threads : at[x].r0 \in 0 .. MaxSeq + BLOCK_N /\ at[x].r \in 0 .. BLOCK_N
  /\ T \in [Slots -> {Garbage} \cup 0 .. arg.seq * DIM4 - 1]
  /\ Stats \in [0 .. BLOCK_N - 1 -> {Garbage} \cup 0 .. arg.seq - 1]
  /\ DOMAIN out = Rows
  /\ \A k \in Rows, h \in 0 .. 1 : out[k][h] # NotStored => k < arg.seq

(* While a thread still copies a tile in, or its lse and D, none reads one.*)
NoTileRace == \A x, y \in Threads : ~(Copying(x) /\ Using(y))

(* A thread in a shuffle has every other of its warp there or on its way   *)
(* for the same row, one at a barrier has all the block on the way to the  *)
(* same one: masking by a predicate keeps the threads together.            *)
OnTheWay(x, y) ==
  /\ at[x].r0 = at[y].r0
  /\ \/ pc[x] \in {"dot", "shfl"} /\ at[x].r = at[y].r
     \/ pc[x] = "fold" /\ at[x].r \in {at[y].r - 1, at[y].r}

Converge ==
  \A y \in Threads :
    /\ pc[y] = "shfl" => \A x \in ThreadsOf(y \div WARP) : OnTheWay(x, y)
    /\ pc[y] = "sync1" => \A x \in Threads : Copying(x) /\ at[x].r0 = at[y].r0
    /\ pc[y] = "sync2" => \A x \in Threads : Using(x) /\ at[x].r0 = at[y].r0

ReferenceGradient(k) == IF OwnsKeys THEN QueriesOf(k, arg.seq, arg.causal)
                ELSE KeysOf(k, arg.seq, arg.causal)

(* Both halves of each live row, and no other row, end up with the sum of  *)
(* the reference (src/reference_bwd.cpp): dQ of a query over the keys it   *)
(* sees, dK and dV of a key over the queries that see it, each once, with  *)
(* its own L and D, and in ascending order, the same on every run.         *)
GradientsCorrect ==
  \A k \in Rows, h \in 0 .. 1 :
    LET mine == k \in first .. first + BLOCK_M - 1 /\ k < arg.seq
    IN  /\ out[k][h] # NotStored => mine /\ out[k][h] = ReferenceGradient(k)
        /\ (\A x \in Threads : pc[x] = "done") => (mine => out[k][h] # NotStored)
=============================================================================
