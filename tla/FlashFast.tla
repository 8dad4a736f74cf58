----------------------------- MODULE FlashFast -----------------------------
(***************************************************************************)
(* attention_flash_fast and process_tile (src/flash_cpu_fast.cpp): units   *)
(* of QBLK query rows of one head, handed to the threads of the pool in    *)
(* the chunks of parallel_for, each unit streaming the K/V tiles it needs  *)
(* through the running statistics of its rows, key by key. Those are on    *)
(* the thread's stack; the threads share O (and lse, stored with it).      *)
(* How the pool itself hands the chunks out is module Pool.                *)
(*                                                                         *)
(* pc: pull (between chunks), unit (the loop over w), keys (the loops over *)
(* tiles, rows and keys), store (the final loop over rows).                *)
(***************************************************************************)
EXTENDS Chunking, Scores, FiniteSets

CONSTANTS Threads,      \* the threads of the pool, the caller with them
          QBLK,         \* rows of a unit
          KBLK          \* keys of a tile

ASSUME FlashFastAssumption ==
  /\ IsFiniteSet(Threads) /\ Threads # {}
  /\ QBLK \in Nat \ {0} /\ KBLK \in Nat \ {0} /\ Heads \in Nat /\ MaxSeq \in Nat
  /\ Sentinel \in Int /\ Under \in Nat
  /\ Score \in [0 .. Heads - 1 -> [0 .. MaxSeq - 1 -> [0 .. MaxSeq - 1 -> Int]]]
  /\ \A i \in 0 .. Heads - 1, r, k \in 0 .. MaxSeq - 1 :
       Vanishes(Sentinel - Score[i][r][k])

(* A stored result can be told from an element that was not written.       *)
ASSUME NotStoredIsNoResult ==
  LET terms == SUBSET [key : 0 .. MaxSeq - 1, x : Int]
  IN  NotStored \notin [num : terms, den : terms, max : Int]

VARIABLES seq, causal,  \* the call
          next,         \* the next chunk
          pc,           \* control point of each thread
          at,           \* its counters: w, w1 (units), j0, i, j (tile, row, key)
          reg,          \* its stack: m, l and acc of each row of the unit
          O,            \* O[head * seq + t]
          returned      \* parallel_for has returned

vars == <<seq, causal, next, pc, at, reg, O, returned>>

qtiles == CeilDiv(seq, QBLK)
total == Heads * qtiles

(* parallel_for(total, 1, ...): the whole range inline, or chunks.         *)
Inline == RunsInline(total, 1, Cardinality(Threads))
len == IF Inline THEN total ELSE ChunkLen(total, 1, Cardinality(Threads))
chunks == IF total = 0 THEN 0 ELSE IF Inline THEN 1
          ELSE ChunkCount(total, 1, Cardinality(Threads))

(* The rows [r0, r1) of unit w's head, and the keys they need.             *)
r1_Uncapped(w) == (w % qtiles) * QBLK + QBLK               \* mutant
kv_end_Short(w) == IF causal THEN (w % qtiles) * QBLK + 1 ELSE seq    \* mutant
head(w) == w \div qtiles
r0(w) == (w % qtiles) * QBLK
r1(w) == MinOf(seq, r0(w) + QBLK)
nq(w) == r1(w) - r0(w)
kv_end(w) == IF causal THEN r1(w) ELSE seq

Idle == [w |-> 0, w1 |-> 0, j0 |-> 0, i |-> 0, j |-> 0]
Fresh == [i \in 0 .. QBLK - 1 |-> [m |-> Sentinel, l |-> {}, acc |-> {}]]
Elements == 0 .. Heads * MaxSeq - 1

Init ==
  /\ seq \in 0 .. MaxSeq /\ causal \in BOOLEAN
  /\ next = 0
  /\ pc = [x \in Threads |-> "pull"]
  /\ at = [x \in Threads |-> Idle]
  /\ reg = [x \in Threads |-> Fresh]
  /\ O = [e \in Elements |-> NotStored]
  /\ returned = FALSE
-----------------------------------------------------------------------------
(* A thread gets the next chunk [b, e) of units.                           *)
Pull(x) ==
  /\ pc[x] = "pull" /\ next < chunks
  /\ next' = next + 1
  /\ at' = [at EXCEPT ![x] = [Idle EXCEPT !.w = ChunkLo(next, len),
                                          !.w1 = ChunkHi(next, total, len)]]
  /\ pc' = [pc EXCEPT ![x] = "unit"]
  /\ UNCHANGED <<seq, causal, reg, O, returned>>

(* process_tile starts a unit, or the chunk is finished. seq > 0 here, so  *)
(* there is a first tile.                                                  *)
Begin(x) ==
  /\ pc[x] = "unit" /\ at[x].w < at[x].w1
  /\ reg' = [reg EXCEPT ![x] = Fresh]
  /\ at' = [at EXCEPT ![x].j0 = 0, ![x].i = 0, ![x].j = 0]
  /\ pc' = [pc EXCEPT ![x] = "keys"]
  /\ UNCHANGED <<seq, causal, next, O, returned>>

EndChunk(x) ==
  /\ pc[x] = "unit" /\ at[x].w >= at[x].w1
  /\ pc' = [pc EXCEPT ![x] = "pull"]
  /\ at' = [at EXCEPT ![x] = Idle]
  /\ UNCHANGED <<seq, causal, next, reg, O, returned>>

(* Row and key of the innermost loop; keys ascend, so the first masked one *)
(* ends the row's share of the tile.                                       *)
row(x) == r0(at[x].w) + at[x].i
key(x) == at[x].j0 + at[x].j
jn_Uncapped(x) == KBLK                                     \* mutant
jn(x) == MinOf(KBLK, seq - at[x].j0)
RowDone(x) == \/ at[x].j >= jn(x)
              \/ causal /\ key(x) > row(x)

Key(x) ==
  /\ pc[x] = "keys" /\ at[x].i < nq(at[x].w) /\ ~RowDone(x)
  /\ reg' = [reg EXCEPT ![x][at[x].i] =
               FoldInto(@, Score[head(at[x].w)][row(x)][key(x)], key(x), key(x))]
  /\ at' = [at EXCEPT ![x].j = @ + 1]
  /\ UNCHANGED <<seq, causal, next, pc, O, returned>>

NextRow(x) ==
  /\ pc[x] = "keys" /\ at[x].i < nq(at[x].w) /\ RowDone(x)
  /\ at' = [at EXCEPT ![x].i = @ + 1, ![x].j = 0]
  /\ UNCHANGED <<seq, causal, next, pc, reg, O, returned>>

NextTile(x) ==
  /\ pc[x] = "keys" /\ at[x].i >= nq(at[x].w)
  /\ at' = [at EXCEPT ![x].j0 = @ + KBLK, ![x].i = 0, ![x].j = 0]
  /\ pc' = [pc EXCEPT ![x] =
              IF at[x].j0 + KBLK < kv_end(at[x].w) THEN "keys" ELSE "store"]
  /\ UNCHANGED <<seq, causal, next, reg, O, returned>>

(* One row of the unit is stored, or the unit is finished.                 *)
Store(x) ==
  /\ pc[x] = "store" /\ at[x].i < nq(at[x].w)
  /\ LET r == reg[x][at[x].i]
     IN  O' = [O EXCEPT ![head(at[x].w) * seq + row(x)] = Result(r.acc, r.l, r.m)]
  /\ at' = [at EXCEPT ![x].i = @ + 1]
  /\ UNCHANGED <<seq, causal, next, pc, reg, returned>>

EndUnit(x) ==
  /\ pc[x] = "store" /\ at[x].i >= nq(at[x].w)
  /\ at' = [at EXCEPT ![x].w = @ + 1]
  /\ pc' = [pc EXCEPT ![x] = "unit"]
  /\ UNCHANGED <<seq, causal, next, reg, O, returned>>

(* parallel_for returns when the chunks are gone and all threads are out   *)
(* of them.                                                                *)
Return_Early ==                                            \* mutant
  /\ ~returned
  /\ next >= chunks
  /\ returned' = TRUE
  /\ UNCHANGED <<seq, causal, next, pc, at, reg, O>>

Return ==
  /\ ~returned
  /\ next >= chunks /\ \A x \in Threads : pc[x] = "pull"
  /\ returned' = TRUE
  /\ UNCHANGED <<seq, causal, next, pc, at, reg, O>>

Finished == returned /\ UNCHANGED vars

Unit(x) == Begin(x) \/ Key(x) \/ NextRow(x) \/ NextTile(x) \/ Store(x) \/ EndUnit(x)
Thread(x) == Pull(x) \/ Unit(x) \/ EndChunk(x)
Next == (\E x \in Threads : Thread(x)) \/ Return \/ Finished

Spec == Init /\ [][Next]_vars
-----------------------------------------------------------------------------
Busy(x) == pc[x] \in {"keys", "store"}

(* Types; the stack arrays are indexed within QBLK, O within the call's    *)
(* rows, and K and V within the head's.                                    *)
TypeOK ==
  /\ next \in 0 .. chunks /\ returned \in BOOLEAN
  /\ \A x \in Threads : Busy(x) =>
       /\ at[x].w \in 0 .. total - 1 /\ at[x].i \in 0 .. QBLK
       /\ at[x].j \in 0 .. KBLK
       /\ at[x].i < nq(at[x].w) => row(x) < seq
       /\ pc[x] = "keys" /\ ~RowDone(x) => key(x) < seq
  /\ \A e \in Elements : O[e] # NotStored => e < Heads * seq

(* "Each unit is independent, so the split is race-free": no element of O  *)
(* belongs to the units of two threads at once.                            *)
RowsOf(x) == {head(at[x].w) * seq + r : r \in r0(at[x].w) .. r1(at[x].w) - 1}

NoSharedRow ==
  \A x, y \in Threads :
    x # y /\ Busy(x) /\ Busy(y) => RowsOf(x) \cap RowsOf(y) = {}

(* What the two-pass reference stores for row t of head h.                 *)
IsReference(h, t, r) ==
  LET S == Visible(t, seq, causal)
  IN  /\ IsMax(r.max, Score[h][t], S)
      /\ r.num = Weights(Score[h][t], S, r.max)
      /\ r.den = Weights(Score[h][t], S, r.max)

(* Whatever the threads' speeds, every row stored is the reference softmax *)
(* of that row of that head, and when the call returns all of them are.    *)
RowsCorrect ==
  \A h \in 0 .. Heads - 1, t \in 0 .. seq - 1 :
    LET r == O[h * seq + t]
    IN  /\ r # NotStored => IsReference(h, t, r)
        /\ returned => r # NotStored

(* The call is one of parallel_for as its users know it: a chunk whose     *)
(* thread left it counts as applied, no unit is applied twice, and the     *)
(* call returns when all of them have been, none still in progress.        *)
InChunk(x, c) == pc[x] # "pull" /\ at[x].w1 = ChunkHi(c, total, len)
Applied(u) == /\ u < total /\ u \div len < next
              /\ \A x \in Threads : ~InChunk(x, u \div len)

MaxUnits == Heads * CeilDiv(MaxSeq, QBLK)

Units == INSTANCE ParallelFor WITH
  MaxN <- MaxUnits,
  phase <- IF returned THEN "idle" ELSE "running",
  size <- total,
  hits <- [u \in 0 .. MaxUnits - 1 |-> IF Applied(u) THEN 1 ELSE 0]

ImplementsParallelFor ==
  [][UNCHANGED Units!vars \/ Units!Return \/ Units!ApplySome]_vars
=============================================================================
