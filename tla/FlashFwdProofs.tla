--------------------------- MODULE FlashFwdProofs ---------------------------
(***************************************************************************)
(* A block of flash_fwd_kernel, for every block shape, head dimension and  *)
(* sequence: its threads stay in step, its tiles are not raced for, and    *)
(* what it stores is the reference softmax of its rows.                    *)
(***************************************************************************)
EXTENDS FlashFwd, OperatorProofs

(* The launch, and the shape of registers and outputs.                     *)
Shape ==
  /\ arg \in [seq : 1 .. MaxSeq, causal : BOOLEAN, lse : BOOLEAN, cta : Nat]
  /\ reg = [x \in Threads |-> reg[x]]
  /\ O = [t \in Rows |-> [h \in 0 .. 1 |-> O[t][h]]]
  /\ lse = [t \in Rows |-> lse[t]]

(* The block is copying a tile, using it, or past the last one.            *)
tile == at[0].j0
Over(x) == pc[x] \in {"store", "done"}

InPhase ==
  /\ \/ (\A x \in Threads : Copying(x)) /\ tile < kv_end
     \/ (\A x \in Threads : Using(x)) /\ tile < kv_end
     \/ (\A x \in Threads : Over(x)) /\ kv_end <= tile
  /\ tile < kv_end + BLOCK_N

Counters ==
  \A x \in Threads :
    /\ at[x].j0 = tile
    /\ pc[x] \in {"dot", "shfl", "fold"} => at[x].j < jn(x)
    /\ pc[x] = "sync2" => at[x].j = jn(x)
    /\ Copying(x) \/ Over(x) => at[x].j = 0

(* The shuffles a thread has taken part in, this tile: as many as every    *)
(* other thread of its warp.                                               *)
Shuffles(x) == IF pc[x] = "fold" THEN at[x].j + 1 ELSE at[x].j

InWarp ==
  \A x, y \in Threads : x \div WARP = y \div WARP => Shuffles(x) = Shuffles(y)

Schedule == InPhase /\ Counters /\ InWarp

(* The slots a thread is done with in the strided copy hold the tile; so   *)
(* do all of them once the tile is in use.                                 *)
Copied(s) == Ks[s] = tile * DIM4 + s

Copies ==
  /\ \A x \in Threads : Copying(x) =>
       /\ at[x].i % NTHREADS = x
       /\ \A s \in Slots : s % NTHREADS = x /\ s < at[x].i /\ s < jn(x) * DIM4
                             => Copied(s)
       /\ pc[x] = "sync1" => at[x].i >= jn(x) * DIM4
  /\ \A x \in Threads : Using(x) => \A s \in Slots : s < jn(x) * DIM4 => Copied(s)

(* What the two halves of a dot product are made of.                       *)
Dots ==
  \A x \in Threads :
    /\ pc[x] = "shfl" => part[x] = HalfChunks(x, tile + at[x].j)
    /\ pc[x] = "fold" => part[x] = Chunks(tile + at[x].j)

(* The registers of a live row are those of the keys before its position.  *)
RowKeys(x) == Visible(Row(x), arg.seq, arg.causal)
Before(x) == {k \in RowKeys(x) : k < at[x].j0 + at[x].j}

Running ==
  \A x \in Threads : Live(x) =>
    IF at[x].j0 + at[x].j = 0 THEN IsFresh(reg[x])
    ELSE IsSoftmaxOf(reg[x], Score[Row(x)], Before(x))

(* The thread of half h of row t stores it, the first of the two also lse. *)
Owner(t, h) == 2 * (t - q0) + h
Written(t, h) == OwnRow(t) /\ pc[Owner(t, h)] = "done"
IsStored(t, r) == r # NotStored /\ IsReference(t, r)

Output ==
  \A t \in Rows :
    /\ \A h \in 0 .. 1 :
         IF Written(t, h) THEN IsStored(t, O[t][h]) ELSE O[t][h] = NotStored
    /\ IF Written(t, 0) /\ arg.lse THEN IsStored(t, lse[t]) ELSE lse[t] = NotStored

Control == TypeOK /\ Shape /\ Schedule /\ Copies /\ Dots
Inductive == Control /\ Running /\ Output
-----------------------------------------------------------------------------
(* The geometry of a block: pairs of threads, warps of whole pairs, rows   *)
(* of two halves.                                                          *)
LEMMA Sizes ==
  /\ NTHREADS \in Nat \ {0} /\ 0 \in Threads /\ Threads \subseteq Nat
  /\ BLOCK_M \in Nat \ {0} /\ BLOCK_N \in Nat \ {0} /\ MaxSeq \in Nat \ {0}
  /\ DIM4 \in Nat \ {0} /\ DIM4 \div 2 \in Nat \ {0} /\ DIM4 = 2 * (DIM4 \div 2)
  /\ Sentinel \in Int /\ Under \in Nat
BY FlashFwdAssumption, SentinelIsLow, SMT DEF NTHREADS, Threads

LEMMA PairOf ==
  ASSUME NEW x \in Threads
  PROVE  /\ Half(x) \in 0 .. 1 /\ x \div 2 \in 0 .. BLOCK_M - 1
         /\ x = 2 * (x \div 2) + Half(x)
BY Sizes, SMT DEF Half, Threads, NTHREADS

LEMMA PartnerOf ==
  ASSUME NEW x \in Threads
  PROVE  /\ Partner(x) \in Threads
         /\ Half(Partner(x)) = 1 - Half(x)
         /\ Partner(x) \div WARP = x \div WARP
<1> DEFINE y == Partner(x)
           w == x \div WARP
           u == WARP \div 2
<1>1. /\ x \in Nat /\ x < 2 * BLOCK_M /\ WARP \in Nat \ {0}
      /\ u \in Nat \ {0} /\ WARP = 2 * u /\ BLOCK_M \in Nat
  BY FlashFwdAssumption, SMT DEF Threads, NTHREADS
<1>2. y \in Threads /\ Half(y) = 1 - Half(x) /\ (x % 2 = 0 <=> y = x + 1)
      /\ (x % 2 = 1 <=> y = x - 1) /\ y \in Int
  BY <1>1, SMT DEF Partner, Threads, NTHREADS, Half
<1>3. w \in Int /\ WARP * w <= x /\ x < WARP * w + WARP
  BY <1>1, SMT
<1>4. WARP * w = 2 * (u * w) /\ u * w \in Int
  BY <1>1, <1>3
<1> HIDE DEF w, u
<1>5. WARP * w <= y /\ y < WARP * w + WARP
  BY <1>1, <1>2, <1>3, <1>4, SMT
<1> HIDE DEF y
<1>6. y \div WARP = w
  BY <1>1, <1>2, <1>3, <1>5, DivUnique
<1> QED
  BY <1>2, <1>6 DEF w, y

(* The float4s of a row belong to no other row,                            *)
LEMMA ChunksApart ==
  ASSUME NEW j \in Int, NEW k \in Int, NEW c \in Chunks(j), c \in Chunks(k)
  PROVE  j = k
<1>1. c \in Int /\ DIM4 \in Nat \ {0} /\ j * DIM4 = DIM4 * j /\ k * DIM4 = DIM4 * k
  BY Sizes DEF Chunks
<1>2. c \div DIM4 = j /\ c \div DIM4 = k
  BY <1>1, DivUnique DEF Chunks
<1> QED
  BY <1>2

(* and are those of its two halves.                                        *)
LEMMA HalvesOf ==
  ASSUME NEW x \in Threads, NEW j \in Nat
  PROVE  /\ HalfSlots(x, j) # {} /\ HalfSlots(x, j) \subseteq Chunks(j)
         /\ HalfSlots(x, j) \cup HalfSlots(Partner(x), j) = Chunks(j)
<1> DEFINE h == DIM4 \div 2
           b == j * DIM4
           Apart(lo, n) == lo .. lo + n - 1
<1>1. h \in Nat \ {0} /\ DIM4 = h + h /\ b \in Int
  BY Sizes
<1>2. Half(x) \in 0 .. 1 /\ Half(Partner(x)) = 1 - Half(x)
  BY PairOf, PartnerOf
<1>3. 0 * h = 0 /\ 1 * h = h /\ b + 0 = b
  BY <1>1
<1>4. Chunks(j) = Apart(b, h + h)
  BY <1>1 DEF Chunks
<1>5. HalfSlots(x, j) = Apart(b + Half(x) * h, h)
      /\ HalfSlots(Partner(x), j) = Apart(b + Half(Partner(x)) * h, h)
  BY DEF HalfSlots
<1> HIDE DEF h, b
<1>6. Apart(b, h) # {} /\ Apart(b + h, h) # {}
      /\ Apart(b, h) \cup Apart(b + h, h) = Apart(b, h + h)
  <2>1. b \in Apart(b, h) /\ b + h \in Apart(b + h, h)
    BY <1>1
  <2>2. \A c : c \in Apart(b, h) \/ c \in Apart(b + h, h) <=> c \in Apart(b, h + h)
    BY <1>1
  <2> HIDE DEF Apart
  <2> QED
    BY <2>1, <2>2
<1> HIDE DEF Apart
<1>7. CASE Half(x) = 0 /\ Half(Partner(x)) = 1
  <2>1. HalfSlots(x, j) = Apart(b, h) /\ HalfSlots(Partner(x), j) = Apart(b + h, h)
    BY <1>3, <1>5, <1>7, Zenon
  <2> QED
    BY <1>4, <1>6, <2>1
<1>8. CASE Half(x) = 1 /\ Half(Partner(x)) = 0
  <2>1. HalfSlots(Partner(x), j) = Apart(b, h) /\ HalfSlots(x, j) = Apart(b + h, h)
    BY <1>3, <1>5, <1>8, Zenon
  <2> QED
    BY <1>4, <1>6, <2>1
<1> QED
  BY <1>2, <1>7, <1>8

(* The first rows of a tile fill its first slots.                          *)
LEMMA SlotsOfRow ==
  ASSUME NEW n \in 0 .. BLOCK_N, NEW j \in Nat, j < n, NEW s \in Chunks(j)
  PROVE  s \in Slots /\ s < n * DIM4
<1>1. (j + 1) * DIM4 <= n * DIM4 /\ n * DIM4 <= BLOCK_N * DIM4 /\ 0 * DIM4 <= j * DIM4
  BY Sizes, TimesMono
<1>2. (j + 1) * DIM4 = j * DIM4 + DIM4 /\ n * DIM4 \in Int /\ BLOCK_N * DIM4 \in Int
      /\ j * DIM4 \in Int
  BY Sizes
<1> QED
  BY <1>1, <1>2, Sizes DEF Chunks, Slots

(* Tile row j of the tile at row b is row b + j.                           *)
LEMMA RowOfTile ==
  ASSUME NEW x \in Threads, NEW b \in Nat, NEW j \in Nat
  PROVE  {b * DIM4 + s : s \in HalfSlots(x, j)} = HalfChunks(x, b + j)
<1> DEFINE h == DIM4 \div 2
           o == Half(x) * h
<1>1. h \in Nat /\ o \in Int /\ b * DIM4 \in Int /\ j * DIM4 \in Int
      /\ (b + j) * DIM4 = b * DIM4 + j * DIM4
  BY Sizes, PairOf
<1>2. HalfSlots(x, j) = j * DIM4 + o .. j * DIM4 + o + h - 1
  BY DEF HalfSlots
<1>3. HalfChunks(x, b + j) = (b + j) * DIM4 + o .. (b + j) * DIM4 + o + h - 1
  BY DEF HalfSlots, HalfChunks
<1> HIDE DEF h, o
<1>4. ASSUME NEW c \in HalfChunks(x, b + j)
      PROVE  c - b * DIM4 \in HalfSlots(x, j) /\ c = b * DIM4 + (c - b * DIM4)
  BY <1>1, <1>2, <1>3
<1>5. \A s \in HalfSlots(x, j) : b * DIM4 + s \in HalfChunks(x, b + j)
  BY <1>1, <1>2, <1>3
<1> QED
  BY <1>4, <1>5
-----------------------------------------------------------------------------
(* What the invariant says of one thread.                                  *)
LEMMA Basics ==
  ASSUME Control, NEW x \in Threads
  PROVE  /\ arg.seq \in 1 .. MaxSeq /\ arg.causal \in BOOLEAN /\ arg.lse \in BOOLEAN
         /\ q0 \in Nat /\ kv_end \in Nat /\ kv_end <= arg.seq
         /\ tile \in Nat /\ at[x].j0 = tile /\ at[x].j \in 0 .. BLOCK_N /\ at[x].i \in Nat
         /\ Row(x) \in Nat /\ (Live(x) => Row(x) \in Rows)
         /\ ~Over(x) => /\ tile < kv_end
                        /\ jn(x) \in 1 .. BLOCK_N /\ tile + jn(x) <= arg.seq
         /\ at[x] = [i |-> at[x].i, j0 |-> at[x].j0, j |-> at[x].j]
<1>1. /\ arg.seq \in 1 .. MaxSeq /\ arg.causal \in BOOLEAN /\ arg.lse \in BOOLEAN
      /\ arg.cta \in Nat
  BY DEF Control, Shape
<1>2. q0 \in Nat
  <2>1. 0 * BLOCK_M <= arg.cta * BLOCK_M
    BY <1>1, Sizes, TimesMono
  <2> QED
    BY <1>1, <2>1, Sizes DEF q0
<1>3. kv_end \in Nat /\ kv_end <= arg.seq
  BY <1>1, <1>2, Sizes DEF kv_end, Least
<1>4. at \in [Threads -> [i : Nat, j0 : 0 .. MaxSeq + BLOCK_N, j : 0 .. BLOCK_N]]
      /\ at[x].j0 = tile
  BY DEF Control, TypeOK, Schedule, Counters
<1>5. tile \in Nat /\ at[x].j \in 0 .. BLOCK_N /\ at[x].i \in Nat
  BY <1>4, Sizes
<1>6. Row(x) \in Nat /\ (Live(x) => Row(x) \in Rows)
  BY <1>1, <1>2, PairOf, Sizes DEF Row, Live, Rows
<1>7. ~Over(x) => tile < kv_end
  BY DEF Control, Schedule, InPhase, Over
<1>8. ~Over(x) => jn(x) \in 1 .. BLOCK_N /\ tile + jn(x) <= arg.seq
  BY <1>1, <1>3, <1>4, <1>5, <1>7, Sizes DEF jn, Least
<1> QED
  BY <1>1, <1>2, <1>3, <1>4, <1>5, <1>6, <1>7, <1>8

(* A tile row yet to be used is in shared memory.                          *)
LEMMA FreshRow ==
  ASSUME Control, NEW x \in Threads, Using(x), NEW j \in at[x].j .. jn(x) - 1
  PROVE  {Ks[s] : s \in HalfSlots(x, j)} = HalfChunks(x, tile + j)
<1>1. /\ tile \in Nat /\ jn(x) \in 0 .. BLOCK_N /\ j \in Nat /\ j < jn(x)
  <2>1. ~Over(x)
    BY DEF Using, Over
  <2>2. tile \in Nat /\ jn(x) \in 1 .. BLOCK_N /\ at[x].j \in 0 .. BLOCK_N
    BY <2>1, Basics
  <2> QED
    BY <2>2, Sizes
<1>2. \A s \in HalfSlots(x, j) : Ks[s] = tile * DIM4 + s
  <2>1. \A s \in HalfSlots(x, j) : s \in Slots /\ s < jn(x) * DIM4
    BY <1>1, HalvesOf, SlotsOfRow
  <2> QED
    BY <2>1 DEF Control, Copies, Copied
<1>3. {Ks[s] : s \in HalfSlots(x, j)} = {tile * DIM4 + s : s \in HalfSlots(x, j)}
  BY <1>2
<1> QED
  BY <1>1, <1>3, RowOfTile

LEMMA ControlNoTileRace == Control => NoTileRace
<1> SUFFICES ASSUME Control PROVE NoTileRace
  OBVIOUS
<1>1. \A x, y \in Threads : ~(Copying(x) /\ Using(y))
  BY DEF Control, Schedule, InPhase, Copying, Using, Over
<1>2. TileFresh
  <2> SUFFICES ASSUME NEW x \in Threads, Using(x), NEW j \in at[x].j .. jn(x) - 1
               PROVE  {Ks[i] : i \in HalfSlots(x, j)} = HalfChunks(x, at[x].j0 + j)
    BY DEF TileFresh
  <2> QED
    BY FreshRow, Basics
<1> QED
  BY <1>1, <1>2 DEF NoTileRace

LEMMA ControlConverge == Control => Converge
<1> SUFFICES ASSUME Control, NEW y \in Threads
             PROVE  /\ pc[y] = "shfl" => \A x \in ThreadsOf(y \div WARP) : OnTheWay(x, y)
                    /\ pc[y] = "sync1" => \A x \in Threads : Copying(x) /\ at[x].j0 = at[y].j0
                    /\ pc[y] = "sync2" => \A x \in Threads : Using(x) /\ at[x].j0 = at[y].j0
  BY DEF Converge
<1>1. \A x \in Threads : at[x].j0 = at[y].j0
  BY DEF Control, Schedule, Counters
<1>2. /\ Copying(y) => \A x \in Threads : Copying(x)
      /\ Using(y) => \A x \in Threads : Using(x)
  BY DEF Control, Schedule, InPhase, Copying, Using, Over
<1>3. ASSUME pc[y] = "shfl", NEW x \in ThreadsOf(y \div WARP) PROVE OnTheWay(x, y)
  <2>1. x \in Threads /\ Shuffles(x) = Shuffles(y)
    BY <1>3 DEF ThreadsOf, Control, Schedule, InWarp
  <2>2. Using(x) /\ at[y].j < jn(y) /\ Shuffles(y) = at[y].j
    BY <1>2, <1>3, <2>1 DEF Using, Control, Schedule, Counters, Shuffles
  <2>3. jn(x) = jn(y)
    BY <1>1, <2>1 DEF jn
  <2>4. at[x].j \in Int /\ at[y].j \in Int
    <3>1. at[x].j \in 0 .. BLOCK_N /\ at[y].j \in 0 .. BLOCK_N
      BY <2>1, Basics
    <3> QED
      BY <3>1
  <2>5. pc[x] # "sync2"
    BY <2>1, <2>2, <2>3, <2>4, Basics DEF Control, Schedule, Counters, Shuffles, Over
  <2> QED
    BY <1>1, <2>1, <2>2, <2>4, <2>5 DEF OnTheWay, Using, Shuffles
<1> QED
  BY <1>1, <1>2, <1>3 DEF Copying, Using

(* The threads of a block and the half rows it stores, one for the other.  *)
LEMMA OwnerOf ==
  ASSUME q0 \in Nat, NEW t \in Rows, OwnRow(t), NEW h \in 0 .. 1
  PROVE  /\ Owner(t, h) \in Threads
         /\ Row(Owner(t, h)) = t /\ Half(Owner(t, h)) = h
<1> DEFINE d == t - q0
<1>1. d \in 0 .. BLOCK_M - 1 /\ BLOCK_M \in Nat /\ t \in Nat /\ t = q0 + d
  BY Sizes DEF OwnRow, Rows
<1>2. Owner(t, h) = 2 * d + h
  BY DEF Owner
<1> HIDE DEF d
<1>3. 2 * d + h \in 0 .. 2 * BLOCK_M - 1
  BY <1>1
<1>4. (2 * d + h) \div 2 = d /\ (2 * d + h) % 2 = h
  <2>1. 2 * d <= 2 * d + h /\ 2 * d + h < 2 * d + 2 /\ (2 * d + h) - 2 * d = h
        /\ 2 * d + h \in Int /\ 2 \in Nat \ {0} /\ d \in Int
    BY <1>1
  <2> QED
    BY <2>1, DivUnique
<1> QED
  BY <1>1, <1>2, <1>3, <1>4, Sizes DEF Threads, NTHREADS, Row, Half

LEMMA OwnedBy ==
  ASSUME Control, NEW x \in Threads
  PROVE  /\ Owner(Row(x), Half(x)) = x /\ Half(x) \in 0 .. 1
         /\ Live(x) => OwnRow(Row(x))
<1>1. /\ Half(x) \in 0 .. 1 /\ x \div 2 \in 0 .. BLOCK_M - 1
      /\ x = 2 * (x \div 2) + Half(x)
  BY PairOf
<1>2. q0 \in Nat /\ BLOCK_M \in Nat
  BY Basics, Sizes
<1>3. Row(x) = q0 + x \div 2 /\ Row(x) - q0 = x \div 2
  BY <1>1, <1>2 DEF Row
<1>4. Owner(Row(x), Half(x)) = x
  BY <1>1, <1>3 DEF Owner
<1>5. Row(x) \in q0 .. q0 + BLOCK_M - 1
  BY <1>1, <1>2, <1>3
<1> QED
  BY <1>1, <1>4, <1>5 DEF OwnRow, Live

(* A thread's strided copy starts at its own number.                       *)
LEMMA StartOfStride ==
  ASSUME NEW x \in Threads
  PROVE  x % NTHREADS = x /\ \A s \in Slots : s % NTHREADS = x => ~(s < x)
<1>1. \A a \in Threads : a % NTHREADS = a
  <2> TAKE a \in Threads
  <2>1. /\ a \in Int /\ NTHREADS \in Nat \ {0} /\ 0 \in Int
        /\ NTHREADS * 0 <= a /\ a < NTHREADS * 0 + NTHREADS /\ a - NTHREADS * 0 = a
    BY Sizes DEF Threads
  <2> QED
    BY <2>1, DivUnique
<1>2. ASSUME NEW s \in Slots, s % NTHREADS = x, s < x PROVE FALSE
  <2>1. s \in Threads
    BY <1>2, Sizes DEF Slots, Threads
  <2>2. x \in Int
    BY Sizes DEF Threads
  <2> QED
    BY <1>1, <1>2, <2>1, <2>2
<1> QED
  BY <1>1, <1>2

LEMMA InitInductive == Init => Inductive
<1> SUFFICES ASSUME Init PROVE Inductive
  OBVIOUS
<1>1. /\ arg \in [seq : 1 .. MaxSeq, causal : BOOLEAN, lse : BOOLEAN, cta : Nat]
  <2>1. PICK c \in Calls : \E cta \in 0 .. (c.seq + BLOCK_M - 1) \div BLOCK_M - 1 :
          arg = [seq |-> c.seq, causal |-> c.causal, lse |-> c.lse, cta |-> cta]
    BY DEF Init
  <2>2. c.seq \in 1 .. MaxSeq /\ c.causal \in BOOLEAN /\ c.lse \in BOOLEAN
    BY FlashFwdAssumption
  <2> QED
    BY <2>1, <2>2
<1>2. /\ pc = [x \in Threads |-> "load"]
      /\ at = [x \in Threads |-> [i |-> x, j0 |-> 0, j |-> 0]]
      /\ part = [x \in Threads |-> {}]
      /\ reg = [x \in Threads |-> [m |-> Sentinel, l |-> {}, acc |-> {}]]
      /\ Ks = [i \in Slots |-> Uninit] /\ Vs = [i \in Slots |-> Uninit]
      /\ O = [t \in Rows |-> [h \in 0 .. 1 |-> NotStored]]
      /\ lse = [t \in Rows |-> NotStored]
  BY DEF Init
<1>3. Shape
  BY <1>1, <1>2 DEF Shape
<1>4. q0 \in Nat /\ kv_end \in Nat /\ 0 < kv_end /\ arg.seq \in Nat
  <2>1. arg.seq \in 1 .. MaxSeq /\ arg.cta \in Nat /\ arg.causal \in BOOLEAN
    BY <1>1
  <2>2. 0 * BLOCK_M <= arg.cta * BLOCK_M
    BY <2>1, Sizes, TimesMono
  <2> QED
    BY <2>1, <2>2, Sizes DEF q0, kv_end, Least
<1>5. tile = 0 /\ \A x \in Threads : Copying(x) /\ at[x].j0 = 0 /\ at[x].j = 0
  BY <1>2, Sizes DEF tile, Copying
<1>6. TypeOK
  <2>1. at \in [Threads -> [i : Nat, j0 : 0 .. MaxSeq + BLOCK_N, j : 0 .. BLOCK_N]]
    BY <1>2, Sizes
  <2> QED
    BY <1>2, <2>1, Sizes DEF TypeOK
<1>7. Schedule
  BY <1>2, <1>4, <1>5, Sizes DEF Schedule, InPhase, Counters, InWarp, Copying, Over,
     Shuffles
<1>8. Copies
  BY <1>2, <1>5, StartOfStride DEF Copies, Copying, Using
<1>9. Dots
  BY <1>2 DEF Dots
<1>10. Running
  BY <1>2, <1>5 DEF Running, IsFresh
<1>11. Output
  <2>1. \A t \in Rows, h \in 0 .. 1 : ~Written(t, h)
    BY <1>2, <1>4, OwnerOf DEF Written
  <2> QED
    BY <1>2, <2>1 DEF Output
<1> QED
  BY <1>3, <1>6, <1>7, <1>8, <1>9, <1>10, <1>11 DEF Inductive, Control
-----------------------------------------------------------------------------
(* Each action keeps the block in step.                                    *)
LEMMA LoadControl ==
  ASSUME Control, NEW x \in Threads, Load(x)
  PROVE  Control' /\ \A y \in Threads : at'[y].j0 = at[y].j0 /\ at'[y].j = at[y].j
<1> DEFINE a == at[x].i
<1>1. /\ pc[x] = "load" /\ a < jn(x) * DIM4
      /\ Ks' = [Ks EXCEPT ![a] = at[x].j0 * DIM4 + a]
      /\ Vs' = [Vs EXCEPT ![a] = at[x].j0 * DIM4 + a]
      /\ at' = [at EXCEPT ![x].i = @ + NTHREADS]
      /\ UNCHANGED <<arg, pc, part, reg, O, lse>>
  BY DEF Load
<1>2. /\ tile \in Nat /\ at[x].j0 = tile /\ a \in Nat /\ ~Over(x)
      /\ jn(x) \in 1 .. BLOCK_N /\ tile + jn(x) <= arg.seq /\ arg.seq \in Nat
  <2>1. ~Over(x)
    BY <1>1 DEF Over
  <2>2. tile \in Nat /\ at[x].j0 = tile /\ a \in Nat /\ arg.seq \in 1 .. MaxSeq
        /\ jn(x) \in 1 .. BLOCK_N /\ tile + jn(x) <= arg.seq
    BY <2>1, Basics
  <2> QED
    BY <2>1, <2>2, Sizes
<1>3. /\ a \in Slots /\ tile * DIM4 + a \in 0 .. arg.seq * DIM4 - 1
  <2>1. /\ jn(x) * DIM4 <= BLOCK_N * DIM4 /\ (tile + jn(x)) * DIM4 <= arg.seq * DIM4
        /\ 0 * DIM4 <= tile * DIM4
    BY <1>2, Sizes, TimesMono
  <2>2. (tile + jn(x)) * DIM4 = tile * DIM4 + jn(x) * DIM4 /\ tile * DIM4 \in Int
        /\ jn(x) * DIM4 \in Int /\ BLOCK_N * DIM4 \in Int /\ arg.seq * DIM4 \in Int
    BY <1>2, Sizes
  <2> QED
    BY <1>1, <1>2, <2>1, <2>2, Sizes DEF Slots
<1>4. /\ at \in [Threads -> [i : Nat, j0 : 0 .. MaxSeq + BLOCK_N, j : 0 .. BLOCK_N]]
      /\ Ks \in [Slots -> {Uninit} \cup 0 .. arg.seq * DIM4 - 1] /\ Vs = Ks
  BY DEF Control, TypeOK
<1>5. /\ at'[x].i = a + NTHREADS
      /\ \A y \in Threads : /\ at'[y].j0 = at[y].j0 /\ at'[y].j = at[y].j
                            /\ y # x => at'[y] = at[y]
      /\ at' \in [Threads -> [i : Nat, j0 : 0 .. MaxSeq + BLOCK_N, j : 0 .. BLOCK_N]]
  BY <1>1, <1>2, <1>4, Sizes
<1>6. tile' = tile /\ (\A y \in Threads : jn(y)' = jn(y)) /\ q0' = q0
      /\ kv_end' = kv_end
  BY <1>1, <1>5, Sizes DEF tile, jn, q0, kv_end
<1>7. Ks'[a] = tile * DIM4 + a /\ \A s \in Slots : s # a => Ks'[s] = Ks[s]
  BY <1>1, <1>2, <1>3, <1>4
<1>8. TypeOK'
  <2>1. Ks' \in [Slots -> {Uninit} \cup 0 .. arg.seq * DIM4 - 1] /\ Vs' = Ks'
    BY <1>1, <1>2, <1>3, <1>4
  <2> QED
    BY <1>1, <1>5, <2>1 DEF Control, TypeOK
<1>9. Shape'
  BY <1>1 DEF Control, Shape
<1>10. Schedule'
  <2>1. InPhase'
    BY <1>1, <1>6 DEF Control, Schedule, InPhase, Copying, Using, Over
  <2>2. Counters' /\ InWarp'
    BY <1>1, <1>5, <1>6 DEF Control, Schedule, Counters, InWarp, Copying, Over, Shuffles
  <2> QED
    BY <2>1, <2>2 DEF Schedule
<1>11. \A y \in Threads : Copying(y) /\ ~Using(y)
  BY <1>1 DEF Control, Schedule, InPhase, Copying, Using, Over
<1>12. a % NTHREADS = x
  BY <1>11 DEF Control, Copies
<1> HIDE DEF a
<1>13. Copies'
  <2>1. ASSUME NEW s \in Slots, Copied(s) \/ s = a PROVE Copied(s)'
    BY <1>6, <1>7, <2>1 DEF Copied
  <2>2. at'[x].i % NTHREADS = x
    <3>1. a \in Int /\ NTHREADS \in Nat \ {0}
      BY <1>2, Sizes
    <3>2. (a + NTHREADS) % NTHREADS = a % NTHREADS
      BY <3>1, StrideRemainder
    <3> QED
      BY <1>5, <1>12, <3>2
  <2>3. ASSUME NEW s \in Slots, s % NTHREADS = x, s < at'[x].i, s < jn(x) * DIM4
        PROVE  Copied(s)'
    <3>1. s \in Nat /\ s < a + NTHREADS
      BY <1>5, <2>3 DEF Slots
    <3>2. CASE s < a
      BY <1>11, <2>1, <2>3, <3>2 DEF Control, Copies, a
    <3>3. CASE ~(s < a)
      <4>1. a <= s
        BY <1>2, <3>1, <3>3
      <4>2. a = s
        <5>1. a \in Int /\ s \in Int /\ NTHREADS \in Nat \ {0} /\ a % NTHREADS = s % NTHREADS
          BY <1>2, <1>12, <2>3, <3>1, Sizes
        <5> QED
          BY <3>1, <4>1, <5>1, StrideUnique
      <4> QED
        BY <2>1, <4>2
    <3> QED
      BY <3>2, <3>3
  <2>4. ASSUME NEW y \in Threads, y # x
        PROVE  /\ at'[y].i % NTHREADS = y
               /\ \A s \in Slots : s % NTHREADS = y /\ s < at'[y].i /\ s < jn(y)' * DIM4
                                     => Copied(s)'
               /\ pc[y] = "sync1" => at'[y].i >= jn(y)' * DIM4
    BY <1>5, <1>6, <1>11, <2>1, <2>4 DEF Control, Copies
  <2>5. pc[x] # "sync1"
    BY <1>1
  <2> QED
    <3> SUFFICES ASSUME NEW y \in Threads
                 PROVE  /\ at'[y].i % NTHREADS = y
                        /\ \A s \in Slots : s % NTHREADS = y /\ s < at'[y].i
                                              /\ s < jn(y)' * DIM4 => Copied(s)'
                        /\ pc[y] = "sync1" => at'[y].i >= jn(y)' * DIM4
      BY <1>1, <1>11 DEF Copies, Copying, Using
    <3>1. CASE y = x
      BY <1>6, <2>2, <2>3, <2>5, <3>1
    <3>2. CASE y # x
      BY <2>4, <3>2
    <3> QED
      BY <3>1, <3>2
<1>14. Dots'
  BY <1>1, <1>11 DEF Dots, Copying
<1> QED
  BY <1>5, <1>8, <1>9, <1>10, <1>13, <1>14 DEF Control

(* A step between two barriers changes neither tile nor what derives from  *)
(* it.                                                                     *)
LEMMA SameTile ==
  ASSUME arg' = arg, \A y \in Threads : at'[y].j0 = at[y].j0
  PROVE  /\ tile' = tile /\ kv_end' = kv_end /\ q0' = q0
         /\ \A y \in Threads : jn(y)' = jn(y) /\ Row(y)' = Row(y) /\ Live(y)' = Live(y)
BY Sizes DEF tile, kv_end, q0, jn, Row, Live

LEMMA LoadedControl ==
  ASSUME Control, NEW x \in Threads, Loaded(x)
  PROVE  Control'
<1>1. /\ pc[x] = "load" /\ at[x].i >= jn(x) * DIM4
      /\ pc' = [pc EXCEPT ![x] = "sync1"]
      /\ UNCHANGED <<arg, at, part, reg, Ks, Vs, O, lse>>
  BY DEF Loaded
<1>2. pc'[x] = "sync1" /\ \A y \in Threads : y # x => pc'[y] = pc[y]
  BY <1>1 DEF Control, TypeOK
<1>3. /\ tile' = tile /\ kv_end' = kv_end
      /\ \A y \in Threads : jn(y)' = jn(y)
  BY <1>1, SameTile
<1>4. \A y \in Threads : /\ Copying(y) /\ ~Using(y) /\ ~Over(y)
                         /\ Copying(y)' /\ ~Using(y)' /\ ~Over(y)'
  BY <1>1, <1>2 DEF Control, Schedule, InPhase, Copying, Using, Over
<1>5. TypeOK' /\ Shape'
  <2>1. pc' \in [Threads -> {"load", "sync1", "dot", "shfl", "fold", "sync2",
                             "store", "done"}]
    BY <1>1 DEF Control, TypeOK
  <2> QED
    BY <1>1, <2>1 DEF Control, TypeOK, Shape
<1>6. Schedule'
  <2>1. InPhase'
    BY <1>1, <1>3, <1>4 DEF Control, Schedule, InPhase, Copying, Using, Over
  <2>2. Counters'
    <3> SUFFICES ASSUME NEW y \in Threads PROVE at[y].j0 = tile /\ at[y].j = 0
      BY <1>1, <1>3, <1>4 DEF Counters, Copying, Using
    <3> QED
      BY <1>4 DEF Control, Schedule, Counters
  <2>3. InWarp'
    BY <1>1, <1>2 DEF Control, Schedule, InWarp, Shuffles
  <2> QED
    BY <2>1, <2>2, <2>3 DEF Schedule
<1>7. Copies'
  BY <1>1, <1>2, <1>3, <1>4 DEF Control, Copies, Copied
<1>8. Dots'
  BY <1>4 DEF Dots, Copying
<1> QED
  BY <1>5, <1>6, <1>7, <1>8 DEF Control

LEMMA DotControl ==
  ASSUME Control, NEW x \in Threads, Dot(x)
  PROVE  Control'
<1>1. /\ pc[x] = "dot"
      /\ part' = [part EXCEPT ![x] = {Ks[i] : i \in HalfSlots(x, at[x].j)}]
      /\ pc' = [pc EXCEPT ![x] = "shfl"]
      /\ UNCHANGED <<arg, at, reg, Ks, Vs, O, lse>>
  BY DEF Dot
<1>2. pc'[x] = "shfl" /\ \A y \in Threads : y # x => pc'[y] = pc[y]
  BY <1>1 DEF Control, TypeOK
<1>3. /\ tile' = tile /\ kv_end' = kv_end
      /\ \A y \in Threads : jn(y)' = jn(y)
  BY <1>1, SameTile
<1>4. \A y \in Threads : /\ Using(y) /\ ~Copying(y) /\ ~Over(y)
                         /\ Using(y)' /\ ~Copying(y)' /\ ~Over(y)'
  BY <1>1, <1>2 DEF Control, Schedule, InPhase, Copying, Using, Over
<1>5. /\ part'[x] = HalfChunks(x, tile + at[x].j)
      /\ \A y \in Threads : y # x => part'[y] = part[y]
      /\ part'[x] \subseteq 0 .. arg.seq * DIM4 - 1
  <2>1. /\ at[x].j < jn(x) /\ at[x].j \in 0 .. BLOCK_N /\ tile \in Nat
        /\ jn(x) \in 1 .. BLOCK_N /\ tile + jn(x) <= arg.seq /\ arg.seq \in 1 .. MaxSeq
    BY <1>1, <1>4, Basics DEF Control, Schedule, Counters
  <2>2. at[x].j \in at[x].j .. jn(x) - 1
    BY <2>1, Sizes
  <2>3. part'[x] = HalfChunks(x, tile + at[x].j)
    BY <1>1, <1>4, <2>2, FreshRow DEF Control, TypeOK
  <2>4. ASSUME NEW c \in Chunks(tile + at[x].j) PROVE c \in 0 .. arg.seq * DIM4 - 1
    <3> DEFINE k == tile + at[x].j
    <3>1. k \in Nat /\ k + 1 <= arg.seq /\ arg.seq \in Nat
      <4>1. at[x].j \in Nat /\ jn(x) \in Nat /\ arg.seq \in Nat
        BY <2>1, Sizes
      <4> QED
        BY <2>1, <4>1
    <3> HIDE DEF k
    <3>2. (k + 1) * DIM4 <= arg.seq * DIM4 /\ 0 * DIM4 <= k * DIM4
      BY <3>1, Sizes, TimesMono
    <3>3. (k + 1) * DIM4 = k * DIM4 + DIM4 /\ k * DIM4 \in Int /\ arg.seq * DIM4 \in Int
      BY <3>1, Sizes
    <3>4. c \in k * DIM4 .. k * DIM4 + DIM4 - 1
      BY <2>4 DEF Chunks, k
    <3> QED
      BY <3>2, <3>3, <3>4, Sizes
  <2>5. HalfChunks(x, tile + at[x].j) \subseteq Chunks(tile + at[x].j)
    BY <2>1, Sizes, HalvesOf DEF HalfChunks
  <2> QED
    BY <1>1, <2>3, <2>4, <2>5 DEF Control, TypeOK
<1>6. TypeOK' /\ Shape'
  <2>1. pc' \in [Threads -> {"load", "sync1", "dot", "shfl", "fold", "sync2",
                             "store", "done"}]
    BY <1>1 DEF Control, TypeOK
  <2>2. part' \in [Threads -> SUBSET (0 .. arg.seq * DIM4 - 1)]
    BY <1>1, <1>5 DEF Control, TypeOK
  <2> QED
    BY <1>1, <2>1, <2>2 DEF Control, TypeOK, Shape
<1>7. Schedule'
  <2>1. InPhase'
    BY <1>1, <1>3, <1>4 DEF Control, Schedule, InPhase, Copying, Using, Over
  <2>2. Counters'
    BY <1>1, <1>2, <1>3, <1>4 DEF Control, Schedule, Counters
  <2>3. InWarp'
    BY <1>1, <1>2 DEF Control, Schedule, InWarp, Shuffles
  <2> QED
    BY <2>1, <2>2, <2>3 DEF Schedule
<1>8. Copies'
  BY <1>1, <1>3, <1>4 DEF Control, Copies, Copied
<1>9. Dots'
  BY <1>1, <1>2, <1>3, <1>5 DEF Control, Dots, HalfChunks, HalfSlots, Chunks, Half
<1> QED
  BY <1>6, <1>7, <1>8, <1>9 DEF Control

LEMMA ShuffleControl ==
  ASSUME Control, NEW w \in Warps, Shuffle(w)
  PROVE  Control'
<1>1. /\ \A x \in ThreadsOf(w) : pc[x] = "shfl"
      /\ part' = [x \in Threads |-> IF x \in ThreadsOf(w)
                                    THEN part[x] \cup part[Partner(x)] ELSE part[x]]
      /\ pc' = [x \in Threads |-> IF x \in ThreadsOf(w) THEN "fold" ELSE pc[x]]
      /\ UNCHANGED <<arg, at, reg, Ks, Vs, O, lse>>
  BY DEF Shuffle
<1>2. /\ tile' = tile /\ kv_end' = kv_end
      /\ \A y \in Threads : jn(y)' = jn(y)
  BY <1>1, SameTile
<1>3. \A y \in Threads : /\ Using(y)' = Using(y) /\ Copying(y)' = Copying(y)
                         /\ Over(y)' = Over(y)
  BY <1>1 DEF Copying, Using, Over
<1>4. \A x \in ThreadsOf(w) : /\ x \in Threads /\ Partner(x) \in ThreadsOf(w)
                              /\ pc[x] = "shfl" /\ pc[Partner(x)] = "shfl"
                              /\ Partner(x) \in Threads
  BY <1>1, PartnerOf DEF ThreadsOf
<1>5. TypeOK' /\ Shape'
  <2>1. pc' \in [Threads -> {"load", "sync1", "dot", "shfl", "fold", "sync2",
                             "store", "done"}]
    BY <1>1 DEF Control, TypeOK
  <2>2. part' \in [Threads -> SUBSET (0 .. arg.seq * DIM4 - 1)]
    BY <1>1, <1>4 DEF Control, TypeOK
  <2> QED
    BY <1>1, <2>1, <2>2 DEF Control, TypeOK, Shape
<1>6. Schedule'
  <2>1. InPhase'
    BY <1>1, <1>2, <1>3 DEF Control, Schedule, InPhase
  <2>2. Counters'
    BY <1>1, <1>2, <1>3 DEF Control, Schedule, Counters
  <2>3. InWarp'
    <3>1. \A x \in Threads : Shuffles(x)' = IF x \in ThreadsOf(w) THEN Shuffles(x) + 1
                                            ELSE Shuffles(x)
      BY <1>1 DEF Shuffles, ThreadsOf
    <3> QED
      BY <3>1 DEF Control, Schedule, InWarp, ThreadsOf
  <2> QED
    BY <2>1, <2>2, <2>3 DEF Schedule
<1>7. Copies'
  <2>1. \A y \in Threads : Copying(y) => pc'[y] = pc[y]
    BY <1>1 DEF Copying
  <2> QED
    BY <1>1, <1>2, <1>3, <2>1 DEF Control, Copies, Copied
<1>8. Dots'
  <2> SUFFICES ASSUME NEW x \in Threads
               PROVE  /\ pc'[x] = "shfl" => part'[x] = HalfChunks(x, tile + at[x].j)
                      /\ pc'[x] = "fold" => part'[x] = Chunks(tile + at[x].j)
    BY <1>1, <1>2 DEF Dots, HalfChunks, HalfSlots, Chunks, Half
  <2>1. CASE x \in ThreadsOf(w)
    <3>1. Shuffles(x) = at[x].j /\ Shuffles(Partner(x)) = at[Partner(x)].j
      BY <1>4, <2>1 DEF Shuffles
    <3>2. at[Partner(x)].j = at[x].j
      BY <1>4, <2>1, <3>1, PartnerOf DEF Control, Schedule, InWarp
    <3>3. part[x] = HalfSlots(x, tile + at[x].j)
          /\ part[Partner(x)] = HalfSlots(Partner(x), tile + at[x].j)
      BY <1>4, <2>1, <3>2 DEF Control, Dots, HalfChunks
    <3>4. tile + at[x].j \in Nat
      <4>1. tile \in Nat /\ at[x].j \in 0 .. BLOCK_N
        BY Basics
      <4> QED
        BY <4>1
    <3> QED
      BY <1>1, <2>1, <3>3, <3>4, HalvesOf
  <2>2. CASE x \notin ThreadsOf(w)
    BY <1>1, <2>2 DEF Control, Dots
  <2> QED
    BY <2>1, <2>2
<1> QED
  BY <1>5, <1>6, <1>7, <1>8 DEF Control

LEMMA ScoreType ==
  ASSUME NEW t \in Rows
  PROVE  AreScores(Score[t], Keys)
<1> SUFFICES ASSUME NEW k \in Keys
             PROVE  Score[t][k] \in Int /\ Score[t][k] - Sentinel > Under
  BY DEF AreScores
<1>1. Score[t][k] \in Int
  BY FlashFwdAssumption DEF Rows, Keys
<1>2. Sentinel - Score[t][k] < -Under
  BY SentinelIsLow DEF Vanishes, Rows, Keys
<1> QED
  BY <1>1, <1>2, Sizes

(* What a thread folds is the score and the V row of the key it is at.     *)
LEMMA FoldedKey ==
  ASSUME Control, NEW x \in Threads, pc[x] = "fold"
  PROVE  /\ tile + at[x].j \in Keys /\ tile + at[x].j < arg.seq
         /\ ValueKey(x) = tile + at[x].j
         /\ Live(x) => Joined(x) = Score[Row(x)][tile + at[x].j]
         /\ MaskedScore(x) \in Int
<1> DEFINE k == tile + at[x].j
<1>1. Using(x) /\ ~Over(x)
  BY DEF Using, Over
<1>2. /\ at[x].j < jn(x) /\ at[x].j \in 0 .. BLOCK_N /\ tile \in Nat
      /\ jn(x) \in 1 .. BLOCK_N /\ tile + jn(x) <= arg.seq /\ arg.seq \in 1 .. MaxSeq
      /\ arg.causal \in BOOLEAN
  BY <1>1, Basics DEF Control, Schedule, Counters
<1>3. at[x].j \in Nat /\ jn(x) \in Nat /\ arg.seq \in Nat /\ arg.seq <= MaxSeq
  BY <1>2, Sizes
<1>4. k \in Nat /\ k < arg.seq /\ k \in Keys
  BY <1>2, <1>3, Sizes DEF Keys
<1>5. /\ part[x] = Chunks(k)
      /\ {Vs[i] : i \in HalfSlots(x, at[x].j)} = HalfChunks(x, k)
  <2>1. at[x].j \in at[x].j .. jn(x) - 1
    BY <1>2, <1>3
  <2>2. Vs = Ks
    BY DEF Control, TypeOK
  <2> QED
    BY <1>1, <2>1, <2>2, FreshRow DEF Control, Dots
<1> HIDE DEF k
<1>6. \A d \in Keys : HalfChunks(x, k) = HalfChunks(x, d) => d = k
  <2> SUFFICES ASSUME NEW d \in Keys, HalfChunks(x, k) = HalfChunks(x, d) PROVE d = k
    OBVIOUS
  <2>1. d \in Nat /\ d \in Int /\ k \in Int
    BY <1>4 DEF Keys
  <2>2. PICK c : c \in HalfSlots(x, k)
    BY <1>4, HalvesOf
  <2>3. c \in Chunks(k) /\ c \in Chunks(d)
    BY <1>4, <2>1, <2>2, HalvesOf DEF HalfChunks
  <2> QED
    BY <2>1, <2>3, ChunksApart
<1>7. \A d \in Keys : Chunks(k) = Chunks(d) => d = k
  <2> SUFFICES ASSUME NEW d \in Keys, Chunks(k) = Chunks(d) PROVE d = k
    OBVIOUS
  <2>1. d \in Int /\ k \in Int
    BY <1>4 DEF Keys
  <2>2. k * DIM4 \in Chunks(k)
    BY <2>1, Sizes DEF Chunks
  <2> QED
    BY <2>1, <2>2, ChunksApart
<1>8. ValueKey(x) = k
  BY <1>4, <1>5, <1>6 DEF ValueKey
<1>9. Live(x) => Joined(x) = Score[Row(x)][k]
  BY <1>4, <1>5, <1>7 DEF Joined
<1>10. Live(x) => Row(x) \in Rows
  BY Basics
<1>11. Joined(x) \in Int
  BY <1>4, <1>9, <1>10, ScoreType DEF Joined, AreScores
<1>12. MaskedScore(x) \in Int
  BY <1>11, Sizes DEF MaskedScore
<1> QED
  BY <1>4, <1>8, <1>9, <1>12 DEF k

LEMMA FoldControl ==
  ASSUME Control, NEW x \in Threads, Fold(x)
  PROVE  /\ Control'
         /\ at'[x].j = at[x].j + 1 /\ \A y \in Threads : y # x => at'[y] = at[y]
         /\ \A y \in Threads : at'[y].j0 = at[y].j0
<1>1. /\ pc[x] = "fold" /\ AddKey(x)
      /\ at' = [at EXCEPT ![x].j = @ + 1]
      /\ pc' = [pc EXCEPT ![x] = AfterKey(x)]
      /\ part' = [part EXCEPT ![x] = {}]
      /\ UNCHANGED <<arg, Ks, Vs, O, lse>>
  BY DEF Fold
<1>2. pc'[x] = AfterKey(x) /\ \A y \in Threads : y # x => pc'[y] = pc[y]
  BY <1>1 DEF Control, TypeOK
<1>3. at \in [Threads -> [i : Nat, j0 : 0 .. MaxSeq + BLOCK_N, j : 0 .. BLOCK_N]]
  BY DEF Control, TypeOK
<1>4. /\ at'[x].j = at[x].j + 1 /\ at'[x].j0 = at[x].j0 /\ at'[x].i = at[x].i
      /\ \A y \in Threads : y # x => at'[y] = at[y]
  BY <1>1, <1>3
<1>5. /\ tile' = tile /\ kv_end' = kv_end
      /\ \A y \in Threads : jn(y)' = jn(y) /\ at'[y].j0 = at[y].j0
  BY <1>1, <1>4, SameTile
<1>6. AfterKey(x) \in {"dot", "sync2"}
  BY DEF AfterKey
<1>7. \A y \in Threads : /\ Using(y) /\ ~Copying(y) /\ ~Over(y)
                         /\ Using(y)' /\ ~Copying(y)' /\ ~Over(y)'
  BY <1>1, <1>2, <1>6 DEF Control, Schedule, InPhase, Copying, Using, Over
<1>8. /\ at[x].j < jn(x) /\ at[x].j \in Nat /\ jn(x) \in Nat /\ jn(x) <= BLOCK_N
  <2>1. at[x].j < jn(x) /\ at[x].j \in 0 .. BLOCK_N /\ jn(x) \in 1 .. BLOCK_N
    BY <1>1, <1>7, Basics DEF Control, Schedule, Counters
  <2> QED
    BY <2>1, Sizes
<1>9. TypeOK' /\ Shape'
  <2>1. pc' \in [Threads -> {"load", "sync1", "dot", "shfl", "fold", "sync2",
                             "store", "done"}]
    BY <1>1, <1>6 DEF Control, TypeOK
  <2>2. part' \in [Threads -> SUBSET (0 .. arg.seq * DIM4 - 1)]
    BY <1>1 DEF Control, TypeOK
  <2>3. at' \in [Threads -> [i : Nat, j0 : 0 .. MaxSeq + BLOCK_N, j : 0 .. BLOCK_N]]
    BY <1>1, <1>3, <1>8, Sizes
  <2>4. /\ reg' = [y \in Threads |-> reg'[y]]
        /\ \A y \in Threads : reg'[y].m \in Int
    <3> DEFINE r == FoldInto(reg[x], MaskedScore(x), at[x].j0 + at[x].j, ValueKey(x))
    <3>1. r.m \in Int
      BY <1>1, FoldedKey DEF FoldInto, Control, TypeOK
    <3>2. reg = [y \in Threads |-> reg[y]] /\ \A y \in Threads : reg[y].m \in Int
      BY DEF Control, Shape, TypeOK
    <3>3. reg' = [reg EXCEPT ![x] = r]
      BY <1>1 DEF AddKey
    <3> HIDE DEF r
    <3> QED
      BY <3>1, <3>2, <3>3
  <2> QED
    BY <1>1, <2>1, <2>2, <2>3, <2>4 DEF Control, TypeOK, Shape
<1>10. Schedule'
  <2>1. InPhase'
    BY <1>1, <1>5, <1>7 DEF Control, Schedule, InPhase
  <2>2. Counters'
    <3> SUFFICES ASSUME NEW y \in Threads
                 PROVE  /\ at'[y].j0 = tile
                        /\ pc'[y] \in {"dot", "shfl", "fold"} => at'[y].j < jn(y)
                        /\ pc'[y] = "sync2" => at'[y].j = jn(y)
      BY <1>5, <1>7 DEF Counters
    <3>1. CASE y = x
      BY <1>2, <1>4, <1>8, <3>1 DEF AfterKey, Control, Schedule, Counters
    <3>2. CASE y # x
      BY <1>2, <1>4, <3>2 DEF Control, Schedule, Counters
    <3> QED
      BY <3>1, <3>2
  <2>3. InWarp'
    <3>1. \A y \in Threads : Shuffles(y)' = Shuffles(y)
      BY <1>1, <1>2, <1>4, <1>6 DEF Shuffles
    <3> QED
      BY <3>1 DEF Control, Schedule, InWarp
  <2> QED
    BY <2>1, <2>2, <2>3 DEF Schedule
<1>11. Copies'
  BY <1>1, <1>5, <1>7 DEF Control, Copies, Copied
<1>12. Dots'
  BY <1>1, <1>2, <1>4, <1>5, <1>6 DEF Control, Dots, HalfChunks, HalfSlots, Chunks, Half
<1> QED
  BY <1>4, <1>5, <1>9, <1>10, <1>11, <1>12 DEF Control

(* At a barrier the whole block waits for the same one.                    *)
LEMMA SyncCases ==
  ASSUME Control, SyncThreads
  PROVE  \/ \A x \in Threads : pc[x] = "sync1" /\ pc'[x] = "dot" /\ at'[x] = at[x]
         \/ \A x \in Threads : /\ pc[x] = "sync2" /\ pc'[x] = AfterTile(x)
                               /\ at'[x] = NextTile(x)
<1>1. /\ \A x \in Threads : pc[x] \in Waiting
      /\ pc' = [x \in Threads |-> IF pc[x] = "sync1" THEN "dot" ELSE AfterTile(x)]
      /\ at' = [x \in Threads |-> IF pc[x] = "sync1" THEN at[x] ELSE NextTile(x)]
  BY DEF SyncThreads
<1>2. \/ \A x \in Threads : pc[x] = "sync1"
      \/ \A x \in Threads : pc[x] = "sync2"
  BY <1>1, Sizes DEF Control, Schedule, InPhase, Copying, Using, Over, Waiting
<1> QED
  BY <1>1, <1>2

LEMMA SyncControl ==
  ASSUME Control, SyncThreads
  PROVE  Control'
<1>1. UNCHANGED <<arg, part, reg, Ks, Vs, O, lse>>
  BY DEF SyncThreads
<1>2. pc' = [x \in Threads |-> pc'[x]] /\ at' = [x \in Threads |-> at'[x]]
  BY DEF SyncThreads
<1>3. q0' = q0 /\ kv_end' = kv_end
  BY <1>1 DEF q0, kv_end
<1>4. CASE \A x \in Threads : pc[x] = "sync1" /\ pc'[x] = "dot" /\ at'[x] = at[x]
  <2>1. /\ tile' = tile /\ \A y \in Threads : jn(y)' = jn(y)
    BY <1>1, <1>4, SameTile
  <2>2. \A y \in Threads : /\ Copying(y) /\ ~Using(y) /\ ~Over(y)
                           /\ Using(y)' /\ ~Copying(y)' /\ ~Over(y)'
    BY <1>4 DEF Copying, Using, Over
  <2>3. \A x \in Threads : at[x].j = 0 /\ at[x].j0 = tile /\ 0 < jn(x)
    <3> TAKE x \in Threads
    <3>1. at[x].j = 0 /\ at[x].j0 = tile /\ jn(x) \in 1 .. BLOCK_N
      BY <2>2, Basics DEF Control, Schedule, Counters
    <3> QED
      BY <3>1, Sizes
  <2>4. at' = at
    BY <1>2, <1>4 DEF Control, TypeOK
  <2>5. TypeOK' /\ Shape'
    <3>1. pc' \in [Threads -> {"load", "sync1", "dot", "shfl", "fold", "sync2",
                               "store", "done"}]
      BY <1>2, <1>4
    <3> QED
      BY <1>1, <2>4, <3>1 DEF Control, TypeOK, Shape
  <2>6. Schedule'
    <3>1. InPhase'
      BY <1>3, <2>1, <2>2, Sizes DEF Control, Schedule, InPhase
    <3>2. Counters'
      BY <1>4, <2>1, <2>2, <2>3, <2>4 DEF Counters
    <3>3. InWarp'
      BY <1>4, <2>3, <2>4 DEF InWarp, Shuffles
    <3> QED
      BY <3>1, <3>2, <3>3 DEF Schedule
  <2>7. Copies'
    <3>1. ASSUME NEW x \in Threads, NEW s \in Slots, s < jn(x) * DIM4 PROVE Copied(s)
      <4>1. s \in Nat /\ NTHREADS \in Nat \ {0}
        BY Sizes DEF Slots
      <4>2. PICK y \in Threads : s % NTHREADS = y
        BY <4>1 DEF Threads
      <4>3. /\ pc[y] = "sync1" /\ Copying(y) /\ jn(y) = jn(x) /\ at[y].i \in Nat
            /\ jn(x) \in 1 .. BLOCK_N
        BY <1>4, <2>2, <2>3, Basics DEF jn
      <4>4. jn(x) * DIM4 <= at[y].i /\ jn(x) * DIM4 \in Int
        <5>1. jn(y) * DIM4 <= at[y].i
          BY <4>3 DEF Control, Copies
        <5> QED
          BY <4>3, <5>1, Sizes
      <4>5. s < at[y].i
        BY <3>1, <4>1, <4>3, <4>4
      <4> QED
        BY <3>1, <4>2, <4>3, <4>5 DEF Control, Copies
    <3>2. \A s \in Slots : Copied(s)' <=> Copied(s)
      BY <1>1, <2>1 DEF Copied
    <3> QED
      BY <2>1, <2>2, <3>1, <3>2 DEF Copies
  <2>8. Dots'
    BY <1>4 DEF Dots
  <2> QED
    BY <2>5, <2>6, <2>7, <2>8 DEF Control
<1>5. CASE \A x \in Threads : /\ pc[x] = "sync2" /\ pc'[x] = AfterTile(x)
                              /\ at'[x] = NextTile(x)
  <2>1. \A x \in Threads : /\ at'[x].i = x /\ at'[x].j0 = tile + BLOCK_N /\ at'[x].j = 0
                           /\ at'[x] = [i |-> x, j0 |-> tile + BLOCK_N, j |-> 0]
                           /\ pc'[x] = IF tile + BLOCK_N < kv_end THEN "load" ELSE "store"
    BY <1>5 DEF NextTile, AfterTile, Control, Schedule, Counters
  <2>2. tile' = tile + BLOCK_N
    BY <2>1, Sizes DEF tile
  <2>3. tile \in Nat /\ tile < kv_end /\ kv_end \in Nat /\ kv_end <= MaxSeq
    <3>1. ~Over(0)
      BY <1>5, Sizes DEF Over
    <3>2. tile \in Nat /\ tile < kv_end /\ kv_end \in Nat /\ kv_end <= arg.seq
          /\ arg.seq \in 1 .. MaxSeq
      BY <3>1, Basics, Sizes
    <3> QED
      BY <3>2, Sizes
  <2>4. TypeOK' /\ Shape'
    <3>1. pc' \in [Threads -> {"load", "sync1", "dot", "shfl", "fold", "sync2",
                               "store", "done"}]
      BY <1>2, <2>1
    <3>2. at' \in [Threads -> [i : Nat, j0 : 0 .. MaxSeq + BLOCK_N, j : 0 .. BLOCK_N]]
      <4>1. tile + BLOCK_N \in 0 .. MaxSeq + BLOCK_N /\ 0 \in 0 .. BLOCK_N
        BY <2>3, Sizes
      <4>2. \A x \in Threads : x \in Nat
        BY Sizes
      <4>3. \A x \in Threads : at'[x] \in [i : Nat, j0 : 0 .. MaxSeq + BLOCK_N,
                                           j : 0 .. BLOCK_N]
        <5>1. \A a \in Nat, b \in 0 .. MaxSeq + BLOCK_N, c \in 0 .. BLOCK_N :
                [i |-> a, j0 |-> b, j |-> c]
                  \in [i : Nat, j0 : 0 .. MaxSeq + BLOCK_N, j : 0 .. BLOCK_N]
          OBVIOUS
        <5> TAKE x \in Threads
        <5>2. at'[x] = [i |-> x, j0 |-> tile + BLOCK_N, j |-> 0] /\ x \in Nat
          BY <2>1, <4>2
        <5> QED
          BY <4>1, <5>1, <5>2, Zenon
      <4> QED
        BY <1>2, <4>3
    <3> QED
      BY <1>1, <3>1, <3>2 DEF Control, TypeOK, Shape
  <2>5. Schedule'
    <3>1. InPhase'
      <4>1. tile' < kv_end' + BLOCK_N
        BY <1>3, <2>2, <2>3, Sizes
      <4>2. CASE tile + BLOCK_N < kv_end
        BY <1>3, <2>1, <2>2, <4>1, <4>2 DEF InPhase, Copying
      <4>3. CASE ~(tile + BLOCK_N < kv_end)
        <5>1. kv_end' <= tile'
          BY <1>3, <2>2, <2>3, <4>3, Sizes
        <5>2. \A x \in Threads : pc'[x] = "store"
          BY <2>1, <4>3
        <5> QED
          BY <4>1, <5>1, <5>2 DEF InPhase, Over
      <4> QED
        BY <4>2, <4>3
    <3>2. Counters'
      BY <2>1, <2>2 DEF Counters
    <3>3. InWarp'
      BY <2>1 DEF InWarp, Shuffles
    <3> QED
      BY <3>1, <3>2, <3>3 DEF Schedule
  <2>6. Copies'
    <3>1. \A x \in Threads : pc'[x] \notin {"sync1", "dot", "shfl", "fold", "sync2"}
      BY <2>1
    <3>2. \A x \in Threads : at'[x].i % NTHREADS = x
      BY <2>1, StartOfStride
    <3>3. \A x \in Threads, s \in Slots : s % NTHREADS = x => ~(s < at'[x].i)
      BY <2>1, StartOfStride
    <3> QED
      BY <3>1, <3>2, <3>3 DEF Copies, Copying, Using
  <2>7. Dots'
    BY <2>1 DEF Dots
  <2> QED
    BY <2>4, <2>5, <2>6, <2>7 DEF Control
<1> QED
  BY <1>4, <1>5, SyncCases

(* The epilogue.                                                           *)
LEMMA EpilogueControl ==
  ASSUME Control, NEW x \in Threads, Store(x) \/ SkipStore(x)
  PROVE  /\ Control' /\ pc'[x] = "done"
         /\ \A y \in Threads : y # x => pc'[y] = pc[y]
<1>1. /\ pc[x] = "store" /\ pc' = [pc EXCEPT ![x] = "done"]
      /\ UNCHANGED <<arg, at, part, reg, Ks, Vs>>
  BY DEF Store, SkipStore
<1>2. pc'[x] = "done" /\ \A y \in Threads : y # x => pc'[y] = pc[y]
  BY <1>1 DEF Control, TypeOK
<1>3. /\ tile' = tile /\ kv_end' = kv_end
      /\ \A y \in Threads : jn(y)' = jn(y)
  BY <1>1, SameTile
<1>4. \A y \in Threads : /\ Over(y) /\ ~Copying(y) /\ ~Using(y)
                         /\ Over(y)' /\ ~Copying(y)' /\ ~Using(y)'
  BY <1>1, <1>2 DEF Control, Schedule, InPhase, Copying, Using, Over
<1>5. TypeOK'
  <2>1. pc' \in [Threads -> {"load", "sync1", "dot", "shfl", "fold", "sync2",
                             "store", "done"}]
    BY <1>1 DEF Control, TypeOK
  <2> QED
    BY <1>1, <2>1 DEF Control, TypeOK
<1>6. Shape'
  <2>1. O' = [t \in Rows |-> [h \in 0 .. 1 |-> O'[t][h]]] /\ lse' = [t \in Rows |-> lse'[t]]
    <3>1. O = [t \in Rows |-> [h \in 0 .. 1 |-> O[t][h]]] /\ lse = [t \in Rows |-> lse[t]]
      BY DEF Control, Shape
    <3>2. CASE UNCHANGED <<O, lse>>
      BY <3>1, <3>2
    <3>3. CASE Store(x)
      <4> DEFINE r == Result(reg[x].acc, reg[x].l, reg[x].m)
      <4>1. /\ O' = [O EXCEPT ![Row(x)] = [O[Row(x)] EXCEPT ![Half(x)] = r]]
            /\ lse' = lse \/ lse' = [lse EXCEPT ![Row(x)] = r]
        BY <3>3 DEF Store
      <4> HIDE DEF r
      <4>2. \A t \in Rows : O[t] = [h \in 0 .. 1 |-> O[t][h]]
        BY <3>1
      <4>3. ASSUME NEW t \in Rows PROVE O'[t] = [h \in 0 .. 1 |-> O'[t][h]]
        <5>1. O'[t] = IF t = Row(x) THEN [O[t] EXCEPT ![Half(x)] = r] ELSE O[t]
          BY <3>1, <4>1
        <5> QED
          BY <4>2, <5>1
      <4>4. O' = [t \in Rows |-> O'[t]]
        BY <3>1, <4>1
      <4>5. lse' = [t \in Rows |-> lse'[t]]
        BY <3>1, <4>1
      <4> QED
        BY <4>3, <4>4, <4>5
    <3> QED
      BY <3>2, <3>3 DEF SkipStore
  <2> QED
    BY <1>1, <2>1 DEF Control, Shape, Rows
<1>7. Schedule'
  <2>1. InPhase'
    BY <1>1, <1>3, <1>4 DEF Control, Schedule, InPhase
  <2>2. Counters'
    BY <1>1, <1>2, <1>3, <1>4 DEF Control, Schedule, Counters
  <2>3. InWarp'
    BY <1>1, <1>2 DEF Control, Schedule, InWarp, Shuffles
  <2> QED
    BY <2>1, <2>2, <2>3 DEF Schedule
<1>8. Copies'
  BY <1>4 DEF Copies
<1>9. Dots'
  BY <1>4 DEF Dots, Over
<1> QED
  BY <1>2, <1>5, <1>6, <1>7, <1>8, <1>9 DEF Control
-----------------------------------------------------------------------------
(* Steps that touch neither the registers nor the output.                  *)
LEMMA QuietData ==
  ASSUME Control, Running, Output, UNCHANGED <<arg, reg, O, lse>>,
         \A y \in Threads : /\ at'[y].j0 = at[y].j0 /\ at'[y].j = at[y].j
                            /\ pc'[y] = "done" <=> pc[y] = "done"
  PROVE  Running' /\ Output'
<1>1. /\ q0' = q0 /\ \A y \in Threads : Row(y)' = Row(y) /\ Live(y)' = Live(y)
  BY SameTile
<1>2. \A y \in Threads : Before(y)' = Before(y)
  BY <1>1 DEF Before, RowKeys
<1>3. Running'
  BY <1>1, <1>2 DEF Running
<1>4. q0 \in Nat
  BY Basics, Sizes
<1>5. \A t \in Rows, h \in 0 .. 1 : Written(t, h)' <=> Written(t, h)
  BY <1>1, <1>4, OwnerOf DEF Written, OwnRow, Owner
<1>6. Output'
  BY <1>5 DEF Output, IsStored, IsReference
<1> QED
  BY <1>3, <1>6

(* A thread of a live row folds the key it is at, if the row attends to    *)
(* it, and nothing otherwise.                                              *)
LEMMA FoldStep ==
  ASSUME Control, Running, NEW x \in Threads, Fold(x), Live(x),
         NEW k, k = tile + at[x].j
  PROVE  /\ \/ k \in RowKeys(x) \ Before(x) /\ Before(x)' = Before(x) \cup {k}
            \/ /\ Before(x)' = Before(x)
               /\ reg'[x] = [m |-> reg[x].m, l |-> reg[x].l, acc |-> reg[x].acc]
         /\ at'[x].j0 + at'[x].j # 0
         /\ IsSoftmaxOf(reg'[x], Score[Row(x)], Before(x)')
<1> DEFINE sc == Score[Row(x)]
           r == reg[x]
           B == Before(x)
<1>1. /\ pc[x] = "fold" /\ arg' = arg /\ AddKey(x)
  BY DEF Fold
<1>2. /\ k \in Keys /\ k < arg.seq /\ ValueKey(x) = k /\ Joined(x) = sc[k]
  BY <1>1, FoldedKey
<1>3. /\ k \in Nat /\ arg.seq \in 1 .. MaxSeq /\ arg.seq \in Nat /\ arg.causal \in BOOLEAN
      /\ Row(x) \in Nat /\ Row(x) \in Rows
      /\ at[x].j0 + at[x].j = k /\ at[x].j0 = tile /\ tile \in Nat /\ at[x].j \in Nat
  <2>1. /\ arg.seq \in 1 .. MaxSeq /\ arg.causal \in BOOLEAN
        /\ Row(x) \in Nat /\ Row(x) \in Rows
        /\ at[x].j0 = tile /\ tile \in Nat /\ at[x].j \in 0 .. BLOCK_N
    BY Basics
  <2> QED
    BY <1>2, <2>1, Sizes DEF Keys
<1>4. reg'[x] = FoldInto(r, MaskedScore(x), k, k)
  BY <1>1, <1>2, <1>3 DEF AddKey, Control, Shape
<1>5. at'[x].j0 + at'[x].j = k + 1 /\ Row(x)' = Row(x) /\ RowKeys(x)' = RowKeys(x)
  <2>1. at'[x].j = at[x].j + 1 /\ \A y \in Threads : at'[y].j0 = at[y].j0
    BY FoldControl
  <2>2. Row(x)' = Row(x)
    BY <1>1, <2>1, SameTile
  <2> QED
    BY <1>1, <1>3, <2>1, <2>2 DEF RowKeys
<1>6. RowKeys(x) \subseteq Keys /\ B \subseteq Keys /\ RowKeys(x) \subseteq Nat
  BY <1>3, Sizes DEF RowKeys, Visible, Before, Keys
<1>7. B = {j \in RowKeys(x) : j < k} /\ Before(x)' = {j \in RowKeys(x) : j < k + 1}
  BY <1>3, <1>5 DEF Before
<1>8. IF k = 0 THEN IsFresh(r) ELSE IsSoftmaxOf(r, sc, B)
  BY <1>3 DEF Running
<1>9. AreScores(sc, B) /\ AreScores(sc, B \cup {k}) /\ AreScores(sc, {k})
  <2>1. AreScores(sc, Keys)
    BY <1>3, ScoreType
  <2> QED
    BY <1>2, <1>6, <2>1 DEF AreScores
<1>10. Under \in Nat /\ Sentinel \in Int
  BY Sizes
<1> HIDE DEF sc, r, B
<1>11. CASE arg.causal /\ k > Row(x)
  <2>1. k # 0 /\ k \notin RowKeys(x)
    BY <1>3, <1>11 DEF RowKeys, Visible
  <2>2. Before(x)' = B
    BY <1>3, <1>6, <1>7, <2>1
  <2>3. reg'[x] = FoldInto(r, Sentinel, k, k)
    BY <1>3, <1>4, <1>11 DEF MaskedScore
  <2>4. reg'[x] = [m |-> r.m, l |-> r.l, acc |-> r.acc]
    BY <1>8, <1>9, <1>10, <2>1, <2>3, FoldMasked
  <2>5. IsSoftmaxOf(reg'[x], sc, B)
    BY <1>8, <2>1, <2>4 DEF IsSoftmaxOf
  <2> QED
    BY <1>3, <1>5, <2>2, <2>4, <2>5 DEF sc, r, B
<1>12. CASE ~(arg.causal /\ k > Row(x))
  <2>1. k \in RowKeys(x)
    BY <1>2, <1>3, <1>12 DEF RowKeys, Visible
  <2>2. k \notin B /\ Before(x)' = B \cup {k}
    BY <1>3, <1>6, <1>7, <2>1
  <2>3. reg'[x] = FoldInto(r, sc[k], k, k)
    BY <1>2, <1>3, <1>4, <1>12 DEF MaskedScore
  <2>4. IsSoftmaxOf(reg'[x], sc, B \cup {k})
    <3>1. CASE k = 0
      <4>1. B \cup {k} = {k}
        BY <1>6, <1>7, <3>1
      <4> QED
        BY <1>8, <1>9, <1>10, <2>3, <3>1, <4>1, FoldFirst
    <3>2. CASE k # 0
      BY <1>8, <1>9, <1>10, <2>3, <3>2, FoldOneMore
    <3> QED
      BY <3>1, <3>2
  <2> QED
    BY <1>3, <1>5, <2>1, <2>2, <2>4 DEF sc, B
<1> QED
  BY <1>11, <1>12

LEMMA FoldData ==
  ASSUME Control, Running, Output, NEW x \in Threads, Fold(x)
  PROVE  Running' /\ Output'
<1>1. /\ pc[x] = "fold" /\ AddKey(x) /\ pc' = [pc EXCEPT ![x] = AfterKey(x)]
      /\ UNCHANGED <<arg, O, lse>>
  BY DEF Fold
<1>2. /\ \A y \in Threads : y # x => at'[y] = at[y]
      /\ \A y \in Threads : at'[y].j0 = at[y].j0
  BY FoldControl
<1>3. /\ q0' = q0 /\ \A y \in Threads : Row(y)' = Row(y) /\ Live(y)' = Live(y)
  BY <1>1, <1>2, SameTile
<1>4. \A y \in Threads : y # x => reg'[y] = reg[y]
  BY <1>1 DEF AddKey, Control, Shape
<1>5. Running'
  <2> SUFFICES ASSUME NEW y \in Threads, Live(y)
               PROVE  IF at'[y].j0 + at'[y].j = 0 THEN IsFresh(reg'[y])
                      ELSE IsSoftmaxOf(reg'[y], Score[Row(y)], Before(y)')
    BY <1>3 DEF Running, IsFresh, IsSoftmaxOf
  <2>1. CASE y = x
    BY <2>1, FoldStep
  <2>2. CASE y # x
    <3>1. Before(y)' = Before(y)
      BY <1>1, <1>2, <1>3, <2>2 DEF Before, RowKeys
    <3> QED
      BY <1>2, <1>4, <2>2, <3>1 DEF Running
  <2> QED
    BY <2>1, <2>2
<1>6. Output'
  <2>1. \A y \in Threads : pc'[y] = "done" <=> pc[y] = "done"
    BY <1>1 DEF AfterKey, Control, TypeOK
  <2>2. q0 \in Nat
    BY Basics
  <2>3. \A t \in Rows, h \in 0 .. 1 : Written(t, h)' <=> Written(t, h)
    BY <1>1, <1>3, <2>1, <2>2, OwnerOf DEF Written, OwnRow, Owner
  <2> QED
    BY <1>1, <2>3 DEF Output, IsStored, IsReference
<1> QED
  BY <1>5, <1>6

(* After the last key of a tile a row has folded all keys before the next. *)
LEMMA SyncBefore ==
  ASSUME Control, NEW x \in Threads, SyncThreads,
         pc[x] = "sync2", at'[x] = NextTile(x)
  PROVE  /\ Before(x)' = Before(x)
         /\ at[x].j0 + at[x].j # 0 /\ at'[x].j0 + at'[x].j # 0
<1>1. ~Over(x) /\ arg' = arg
  BY DEF Over, SyncThreads
<1>2. /\ at[x].j0 = tile /\ at[x].j = jn(x) /\ tile \in Nat /\ tile < kv_end
      /\ kv_end \in Nat /\ kv_end <= arg.seq
      /\ jn(x) \in 1 .. BLOCK_N /\ arg.seq \in 1 .. MaxSeq
  BY <1>1, Basics DEF Control, Schedule, Counters
<1>3. /\ jn(x) \in Nat /\ jn(x) # 0 /\ arg.seq \in Nat
      /\ jn(x) = BLOCK_N \/ (jn(x) <= BLOCK_N /\ tile + jn(x) = arg.seq)
  BY <1>2, Sizes DEF jn, Least
<1>4. at'[x].j0 + at'[x].j = tile + BLOCK_N
  BY <1>2, Sizes DEF NextTile
<1>5. RowKeys(x)' = RowKeys(x) /\ RowKeys(x) \subseteq 0 .. arg.seq - 1
  BY <1>1 DEF RowKeys, Row, q0, Visible
<1>6. \A k \in RowKeys(x) : k < tile + BLOCK_N <=> k < tile + jn(x)
  BY <1>2, <1>3, <1>5, Sizes
<1>7. Before(x)' = Before(x)
  BY <1>2, <1>4, <1>5, <1>6 DEF Before
<1> QED
  BY <1>2, <1>3, <1>4, <1>7, Sizes

LEMMA SyncData ==
  ASSUME Control, Running, Output, SyncThreads
  PROVE  Running' /\ Output'
<1>1. UNCHANGED <<arg, part, reg, Ks, Vs, O, lse>>
  BY DEF SyncThreads
<1>2. CASE \A x \in Threads : pc[x] = "sync1" /\ pc'[x] = "dot" /\ at'[x] = at[x]
  BY <1>1, <1>2, QuietData
<1>3. CASE \A x \in Threads : /\ pc[x] = "sync2" /\ pc'[x] = AfterTile(x)
                              /\ at'[x] = NextTile(x)
  <2>1. q0' = q0 /\ \A y \in Threads : Row(y)' = Row(y) /\ Live(y)' = Live(y)
    BY <1>1 DEF q0, Row, Live
  <2>2. Running'
    BY <1>1, <1>3, <2>1, SyncBefore DEF Running
  <2>3. q0 \in Nat
    BY Basics, Sizes
  <2>4. \A t \in Rows, h \in 0 .. 1 : ~Written(t, h)' /\ ~Written(t, h)
    BY <1>1, <1>3, <2>1, <2>3, OwnerOf DEF Written, OwnRow, Owner, AfterTile
  <2>5. Output'
    BY <1>1, <2>4 DEF Output
  <2> QED
    BY <2>2, <2>5
<1> QED
  BY <1>2, <1>3, SyncCases

(* A thread in the epilogue has folded all keys of its row.                *)
LEMMA AllFolded ==
  ASSUME Control, Running, NEW x \in Threads, Over(x), Live(x)
  PROVE  Before(x) = RowKeys(x) /\ IsSoftmaxOf(reg[x], Score[Row(x)], RowKeys(x))
<1>1. /\ at[x].j0 = tile /\ at[x].j = 0 /\ tile \in Nat /\ kv_end <= tile
      /\ Row(x) \in Nat /\ arg.seq \in 1 .. MaxSeq /\ arg.causal \in BOOLEAN
      /\ q0 \in Nat
  BY Basics DEF Control, Schedule, Counters, InPhase, Copying, Using, Over
<1>2. arg.seq \in Nat /\ arg.seq > 0
  BY <1>1, Sizes
<1>3. Row(x) < q0 + BLOCK_M
  BY <1>1, PairOf, Sizes DEF Row
<1>4. kv_end > 0
  BY <1>1, <1>2, Sizes DEF kv_end, Least
<1>5. \A k \in RowKeys(x) : k < kv_end
  <2> TAKE k \in RowKeys(x)
  <2>1. k \in Nat /\ k < arg.seq /\ (arg.causal => k <= Row(x))
    BY <1>2 DEF RowKeys, Visible
  <2>2. arg.causal => k < q0 + BLOCK_M
    BY <1>1, <1>3, <2>1, Sizes
  <2>3. kv_end = arg.seq \/ (arg.causal /\ kv_end = q0 + BLOCK_M)
    BY DEF kv_end, Least
  <2> QED
    BY <2>1, <2>2, <2>3
<1>6. kv_end \in Nat /\ RowKeys(x) \subseteq Nat
  <2>1. kv_end \in Nat
    BY Basics
  <2>2. RowKeys(x) \subseteq Nat
    BY <1>2 DEF RowKeys, Visible
  <2> QED
    BY <2>1, <2>2
<1>7. Before(x) = RowKeys(x)
  BY <1>1, <1>5, <1>6 DEF Before
<1>8. at[x].j0 + at[x].j # 0
  BY <1>1, <1>4, <1>6
<1> QED
  BY <1>7, <1>8 DEF Running

LEMMA StoreStep ==
  ASSUME Control, Running, NEW x \in Threads, Store(x),
         NEW r, r = Result(reg[x].acc, reg[x].l, reg[x].m)
  PROVE  /\ Live(x) /\ Row(x) \in Rows /\ Half(x) \in 0 .. 1
         /\ IsStored(Row(x), r)
         /\ O'[Row(x)][Half(x)] = r
         /\ \A t \in Rows, h \in 0 .. 1 :
              t # Row(x) \/ h # Half(x) => O'[t][h] = O[t][h]
         /\ IF arg.lse /\ Half(x) = 0
            THEN /\ lse'[Row(x)] = r
                 /\ \A t \in Rows : t # Row(x) => lse'[t] = lse[t]
            ELSE lse' = lse
<1>1. /\ pc[x] = "store" /\ Live(x)
      /\ O' = [O EXCEPT ![Row(x)] = [O[Row(x)] EXCEPT ![Half(x)] = r]]
      /\ lse' = IF arg.lse /\ Half(x) = 0 THEN [lse EXCEPT ![Row(x)] = r] ELSE lse
  BY DEF Store, Writes
<1>2. Row(x) \in Rows /\ Half(x) \in 0 .. 1
  BY <1>1, Basics, OwnedBy
<1>3. IsSoftmaxOf(reg[x], Score[Row(x)], RowKeys(x))
  BY <1>1, AllFolded DEF Over
<1>4. r.num = reg[x].acc /\ r.den = reg[x].l /\ r.max = reg[x].m
      /\ r = [num |-> reg[x].acc, den |-> reg[x].l, max |-> reg[x].m]
  BY DEF Result
<1>5. IsReference(Row(x), r)
  BY <1>3, <1>4 DEF IsReference, IsSoftmaxOf, RowKeys
<1>6. r # NotStored
  <2> DEFINE terms == SUBSET [key : 0 .. MaxSeq - 1, x : Int]
  <2>1. reg[x].m \in Int
    BY DEF Control, TypeOK
  <2>2. RowKeys(x) \subseteq Keys
    <3>1. arg.seq \in 1 .. MaxSeq
      BY Basics
    <3> QED
      BY <3>1, Sizes DEF RowKeys, Visible, Keys
  <2>3. \A k \in RowKeys(x) : k \in 0 .. MaxSeq - 1 /\ Score[Row(x)][k] - reg[x].m \in Int
    BY <1>2, <2>1, <2>2, ScoreType DEF AreScores, Keys
  <2>4. Weights(Score[Row(x)], RowKeys(x), reg[x].m) \in terms
    BY <2>3 DEF Weights
  <2>5. reg[x].l \in terms /\ reg[x].acc \in terms
    BY <1>3, <2>4 DEF IsSoftmaxOf
  <2> HIDE DEF terms
  <2>6. r \in [num : terms, den : terms, max : Int]
    BY <1>4, <2>1, <2>5
  <2> QED
    BY <2>6, NotStoredIsNoResult DEF terms
<1>7. O = [t \in Rows |-> [h \in 0 .. 1 |-> O[t][h]]] /\ lse = [t \in Rows |-> lse[t]]
  BY DEF Control, Shape
<1>8. O'[Row(x)] = [O[Row(x)] EXCEPT ![Half(x)] = r]
      /\ \A t \in Rows : t # Row(x) => O'[t] = O[t]
  BY <1>1, <1>2, <1>7
<1>9. O[Row(x)] = [h \in 0 .. 1 |-> O[Row(x)][h]]
  BY <1>2, <1>7
<1>10. O'[Row(x)][Half(x)] = r
       /\ \A h \in 0 .. 1 : h # Half(x) => O'[Row(x)][h] = O[Row(x)][h]
  BY <1>2, <1>8, <1>9
<1>11. arg.lse /\ Half(x) = 0 =>
         lse'[Row(x)] = r /\ \A t \in Rows : t # Row(x) => lse'[t] = lse[t]
  BY <1>1, <1>2, <1>7
<1> QED
  BY <1>1, <1>2, <1>5, <1>6, <1>8, <1>10, <1>11 DEF IsStored

LEMMA StoreData ==
  ASSUME Control, Running, Output, NEW x \in Threads, Store(x)
  PROVE  Running' /\ Output'
<1> DEFINE r == Result(reg[x].acc, reg[x].l, reg[x].m)
<1>1. /\ Live(x) /\ Row(x) \in Rows /\ Half(x) \in 0 .. 1
      /\ IsStored(Row(x), r)
      /\ O'[Row(x)][Half(x)] = r
      /\ \A t \in Rows, h \in 0 .. 1 : t # Row(x) \/ h # Half(x) => O'[t][h] = O[t][h]
      /\ IF arg.lse /\ Half(x) = 0
         THEN lse'[Row(x)] = r /\ \A t \in Rows : t # Row(x) => lse'[t] = lse[t]
         ELSE lse' = lse
  BY StoreStep
<1> HIDE DEF r
<1>2. UNCHANGED <<arg, at, reg>> /\ pc[x] = "store"
  BY DEF Store
<1>3. /\ q0' = q0
      /\ \A y \in Threads : Row(y)' = Row(y) /\ Live(y)' = Live(y) /\ Before(y)' = Before(y)
  BY <1>2 DEF q0, Row, Live, Before, RowKeys
<1>4. Running'
  BY <1>2, <1>3 DEF Running
<1>5. pc'[x] = "done" /\ \A y \in Threads : y # x => pc'[y] = pc[y]
  BY EpilogueControl
<1>6. /\ q0 \in Nat /\ Owner(Row(x), Half(x)) = x /\ OwnRow(Row(x))
  BY <1>1, Basics, OwnedBy
<1>7. \A t \in Rows, h \in 0 .. 1 :
        /\ Written(t, h)' <=> Written(t, h) \/ (t = Row(x) /\ h = Half(x))
        /\ t = Row(x) /\ h = Half(x) => ~Written(t, h)
  <2> TAKE t \in Rows, h \in 0 .. 1
  <2>1. OwnRow(t)' = OwnRow(t) /\ Owner(t, h)' = Owner(t, h)
    BY <1>2, <1>3 DEF OwnRow, Owner
  <2>2. CASE t = Row(x) /\ h = Half(x)
    BY <1>2, <1>5, <1>6, <2>1, <2>2 DEF Written
  <2>3. CASE ~(t = Row(x) /\ h = Half(x))
    <3>1. OwnRow(t) => Owner(t, h) \in Threads /\ Owner(t, h) # x
      BY <1>6, <2>3, OwnerOf
    <3> QED
      BY <1>5, <2>1, <2>3, <3>1 DEF Written
  <2> QED
    BY <2>2, <2>3
<1>8. \A t, o : IsStored(t, o)' <=> IsStored(t, o)
  BY <1>2 DEF IsStored, IsReference
<1>9. Output'
  <2> SUFFICES ASSUME NEW t \in Rows
               PROVE  /\ \A h \in 0 .. 1 : IF Written(t, h)' THEN IsStored(t, O'[t][h])
                                           ELSE O'[t][h] = NotStored
                      /\ IF Written(t, 0)' /\ arg.lse THEN IsStored(t, lse'[t])
                         ELSE lse'[t] = NotStored
    BY <1>2, <1>8 DEF Output, IsStored, IsReference
  <2>1. /\ \A h \in 0 .. 1 : IF Written(t, h) THEN IsStored(t, O[t][h])
                             ELSE O[t][h] = NotStored
        /\ IF Written(t, 0) /\ arg.lse THEN IsStored(t, lse[t]) ELSE lse[t] = NotStored
    BY DEF Output
  <2>2. ASSUME NEW h \in 0 .. 1
        PROVE  IF Written(t, h)' THEN IsStored(t, O'[t][h]) ELSE O'[t][h] = NotStored
    <3>1. CASE t = Row(x) /\ h = Half(x)
      BY <1>1, <1>7, <3>1
    <3>2. CASE ~(t = Row(x) /\ h = Half(x))
      BY <1>1, <1>7, <2>1, <3>2
    <3> QED
      BY <3>1, <3>2
  <2>3. IF Written(t, 0)' /\ arg.lse THEN IsStored(t, lse'[t]) ELSE lse'[t] = NotStored
    <3>1. CASE t = Row(x) /\ Half(x) = 0
      BY <1>1, <1>7, <2>1, <3>1
    <3>2. CASE ~(t = Row(x) /\ Half(x) = 0)
      BY <1>1, <1>7, <2>1, <3>2
    <3> QED
      BY <3>1, <3>2
  <2> QED
    BY <2>2, <2>3
<1> QED
  BY <1>4, <1>9

LEMMA SkipData ==
  ASSUME Control, Running, Output, NEW x \in Threads, SkipStore(x)
  PROVE  Running' /\ Output'
<1>1. UNCHANGED <<arg, at, reg, O, lse>> /\ ~Live(x)
  BY DEF SkipStore, Writes
<1>2. /\ q0' = q0
      /\ \A y \in Threads : Row(y)' = Row(y) /\ Live(y)' = Live(y) /\ Before(y)' = Before(y)
  BY <1>1 DEF q0, Row, Live, Before, RowKeys
<1>3. Running'
  BY <1>1, <1>2 DEF Running
<1>4. \A y \in Threads : y # x => pc'[y] = pc[y]
  BY EpilogueControl
<1>5. q0 \in Nat
  BY Basics
<1>6. \A t \in Rows, h \in 0 .. 1 : Written(t, h)' <=> Written(t, h)
  <2> TAKE t \in Rows, h \in 0 .. 1
  <2>1. OwnRow(t)' = OwnRow(t) /\ Owner(t, h)' = Owner(t, h)
    BY <1>1, <1>2 DEF OwnRow, Owner
  <2>2. OwnRow(t) => Owner(t, h) \in Threads /\ Owner(t, h) # x
    BY <1>1, <1>5, OwnerOf DEF OwnRow, Live
  <2> QED
    BY <1>4, <2>1, <2>2 DEF Written
<1>7. Output'
  BY <1>1, <1>6 DEF Output, IsStored, IsReference
<1> QED
  BY <1>3, <1>7

LEMMA NextInductive == Inductive /\ [Next]_vars => Inductive'
<1> SUFFICES ASSUME Inductive, [Next]_vars PROVE Inductive'
  OBVIOUS
<1>1. Control /\ Running /\ Output
  BY DEF Inductive
<1>2. CASE UNCHANGED vars
  <2>1. UNCHANGED <<arg, pc, at, part, reg, Ks, Vs, O, lse>>
    BY <1>2 DEF vars
  <2>2. TypeOK' /\ Shape'
    BY <1>1, <2>1 DEF Control, TypeOK, Shape
  <2>3. /\ tile' = tile /\ kv_end' = kv_end /\ \A y \in Threads : jn(y)' = jn(y)
    BY <2>1, SameTile
  <2>4. Schedule'
    BY <1>1, <2>1, <2>3 DEF Control, Schedule, InPhase, Counters, InWarp, Copying, Using,
       Over, Shuffles
  <2>5. Copies'
    BY <1>1, <2>1, <2>3 DEF Control, Copies, Copying, Using, Copied
  <2>6. Dots'
    BY <1>1, <2>1, <2>3 DEF Control, Dots, HalfChunks, HalfSlots, Half, Chunks
  <2>7. Running' /\ Output'
    BY <1>1, <2>1, QuietData
  <2> QED
    BY <2>2, <2>4, <2>5, <2>6, <2>7 DEF Inductive, Control
<1>3. ASSUME NEW x \in Threads, Load(x) PROVE Inductive'
  <2>1. UNCHANGED <<arg, pc, reg, O, lse>>
    BY <1>3 DEF Load
  <2> QED
    BY <1>1, <1>3, <2>1, LoadControl, QuietData DEF Inductive
<1>4. ASSUME NEW x \in Threads, Loaded(x) PROVE Inductive'
  <2>1. UNCHANGED <<arg, at, reg, O, lse>>
        /\ \A y \in Threads : pc'[y] = "done" <=> pc[y] = "done"
    BY <1>1, <1>4 DEF Loaded, Control, TypeOK
  <2> QED
    BY <1>1, <1>4, <2>1, LoadedControl, QuietData DEF Inductive
<1>5. ASSUME NEW x \in Threads, Dot(x) PROVE Inductive'
  <2>1. UNCHANGED <<arg, at, reg, O, lse>>
        /\ \A y \in Threads : pc'[y] = "done" <=> pc[y] = "done"
    BY <1>1, <1>5 DEF Dot, Control, TypeOK
  <2> QED
    BY <1>1, <1>5, <2>1, DotControl, QuietData DEF Inductive
<1>6. ASSUME NEW w \in Warps, Shuffle(w) PROVE Inductive'
  <2>1. UNCHANGED <<arg, at, reg, O, lse>>
        /\ \A y \in Threads : pc'[y] = "done" <=> pc[y] = "done"
    BY <1>1, <1>6 DEF Shuffle
  <2> QED
    BY <1>1, <1>6, <2>1, ShuffleControl, QuietData DEF Inductive
<1>7. ASSUME NEW x \in Threads, Fold(x) PROVE Inductive'
  BY <1>1, <1>7, FoldControl, FoldData DEF Inductive
<1>8. ASSUME NEW x \in Threads, Store(x) PROVE Inductive'
  BY <1>1, <1>8, EpilogueControl, StoreData DEF Inductive
<1>9. ASSUME NEW x \in Threads, SkipStore(x) PROVE Inductive'
  BY <1>1, <1>9, EpilogueControl, SkipData DEF Inductive
<1>10. CASE SyncThreads
  BY <1>1, <1>10, SyncControl, SyncData DEF Inductive
<1> QED
  BY <1>2, <1>3, <1>4, <1>5, <1>6, <1>7, <1>8, <1>9, <1>10 DEF Next, Step, Finished

(* The inductive invariant.                                                *)
THEOREM Invariance == Spec => []Inductive
BY InitInductive, NextInductive, PTL DEF Spec

(* No copy and no read leaves shared memory or the seq rows of K and V.    *)
THEOREM TypeCorrect == Spec => []TypeOK
<1>1. Inductive => TypeOK
  BY DEF Inductive, Control
<1> QED
  BY <1>1, Invariance, PTL

(* The two barriers of the loop keep the copy of a tile and its use apart. *)
THEOREM NoTileRaceHolds == Spec => []NoTileRace
<1>1. Inductive => NoTileRace
  BY ControlNoTileRace DEF Inductive
<1> QED
  BY <1>1, Invariance, PTL

(* All threads reach every barrier, and a warp's every shuffle, together.  *)
THEOREM ConvergeHolds == Spec => []Converge
<1>1. Inductive => Converge
  BY ControlConverge DEF Inductive
<1> QED
  BY <1>1, Invariance, PTL

(* What a block has stored is the reference softmax of its own rows; at    *)
(* its end all of them are stored.                                         *)
THEOREM RowsCorrectHolds == Spec => []RowsCorrect
<1>1. Inductive => RowsCorrect
  <2> SUFFICES ASSUME Inductive, NEW t \in Rows,
                      NEW stored,
                      stored = {O[t][0], O[t][1]} \cup (IF arg.lse THEN {lse[t]} ELSE {})
               PROVE  /\ \A r \in stored \ {NotStored} : OwnRow(t) /\ IsReference(t, r)
                      /\ (\A x \in Threads : pc[x] = "done") /\ OwnRow(t)
                           => NotStored \notin stored
                      /\ ~arg.lse => lse[t] = NotStored
    BY DEF RowsCorrect
  <2>1. /\ \A h \in 0 .. 1 : IF Written(t, h) THEN IsStored(t, O[t][h])
                             ELSE O[t][h] = NotStored
        /\ IF Written(t, 0) /\ arg.lse THEN IsStored(t, lse[t]) ELSE lse[t] = NotStored
    BY DEF Inductive, Output
  <2>2. 0 \in 0 .. 1 /\ 1 \in 0 .. 1
    OBVIOUS
  <2>3. q0 \in Nat
    BY Basics, Sizes DEF Inductive
  <2>4. ASSUME NEW r \in stored \ {NotStored} PROVE OwnRow(t) /\ IsReference(t, r)
    BY <2>1, <2>2, <2>4 DEF Written, IsStored
  <2>5. ASSUME \A x \in Threads : pc[x] = "done", OwnRow(t) PROVE NotStored \notin stored
    <3>1. Written(t, 0) /\ Written(t, 1)
      BY <2>2, <2>3, <2>5, OwnerOf DEF Written
    <3> QED
      BY <2>1, <2>2, <3>1 DEF IsStored
  <2> QED
    BY <2>1, <2>4, <2>5
<1> QED
  BY <1>1, Invariance, PTL
-----------------------------------------------------------------------------
(* The refinement: for one thread of a live row, each action is a step of  *)
(* the streaming softmax of the row or none.                               *)
LEMMA InitOnline ==
  ASSUME Init, NEW x \in Threads, Live(x)
  PROVE  Online(x)!Init
<1>1. Inductive
  BY InitInductive
<1>2. at[x].j0 + at[x].j = 0 /\ IsFresh(reg[x]) /\ pc[x] = "load"
  BY DEF Init, IsFresh
<1>3. Before(x) = {}
  BY <1>2 DEF Before, RowKeys, Visible
<1>4. /\ Row(x) \in Rows /\ Half(x) \in 0 .. 1 /\ Owner(Row(x), Half(x)) = x
  BY <1>1, Basics, OwnedBy DEF Inductive
<1>5. O[Row(x)][Half(x)] = NotStored
  BY <1>1, <1>2, <1>4 DEF Inductive, Output, Written
<1> QED
  BY <1>2, <1>3, <1>5 DEF Online!Init, IsFresh, Before, RowKeys

(* A step that leaves the row's registers and output, and the keys before  *)
(* its position, as they are.                                              *)
LEMMA QuietOnline ==
  ASSUME NEW x \in Threads, arg' = arg, Row(x)' = Row(x), Before(x)' = Before(x),
         reg'[x].m = reg[x].m, reg'[x].l = reg[x].l, reg'[x].acc = reg[x].acc,
         O'[Row(x)][Half(x)] = O[Row(x)][Half(x)]
  PROVE  UNCHANGED Online(x)!vars
BY DEF Online!vars, Before, RowKeys, Half

LEMMA FoldOnline ==
  ASSUME Inductive, NEW x \in Threads, Fold(x), Live(x)
  PROVE  UNCHANGED Online(x)!vars \/ Online(x)!Next
<1> DEFINE k == tile + at[x].j
<1>1. Control /\ Running /\ Output
  BY DEF Inductive
<1>2. /\ \/ k \in RowKeys(x) \ Before(x) /\ Before(x)' = Before(x) \cup {k}
         \/ /\ Before(x)' = Before(x)
            /\ reg'[x] = [m |-> reg[x].m, l |-> reg[x].l, acc |-> reg[x].acc]
      /\ IsSoftmaxOf(reg'[x], Score[Row(x)], Before(x)')
  BY <1>1, FoldStep
<1>3. pc[x] = "fold" /\ UNCHANGED <<arg, O, lse>>
  BY DEF Fold
<1>4. Row(x)' = Row(x) /\ RowKeys(x)' = RowKeys(x)
  BY <1>3 DEF Row, q0, RowKeys
<1>5. O[Row(x)][Half(x)] = NotStored
  <2>1. Row(x) \in Rows /\ Half(x) \in 0 .. 1 /\ Owner(Row(x), Half(x)) = x
    BY <1>1, Basics, OwnedBy
  <2> QED
    BY <1>1, <1>3, <2>1 DEF Output, Written
<1> HIDE DEF k
<1>6. CASE k \in RowKeys(x) \ Before(x) /\ Before(x)' = Before(x) \cup {k}
  <2> PICK S : S = {k}
    OBVIOUS
  <2>1. Online(x)!Fold(S)
    <3>1. /\ IsMax(reg'[x].m, Score[Row(x)], Before(x)')
          /\ reg'[x].l = Weights(Score[Row(x)], Before(x)', reg'[x].m)
          /\ reg'[x].acc = reg'[x].l
      BY <1>2 DEF IsSoftmaxOf
    <3>2. /\ Online(x)!IsMax(reg'[x].m, Score[Row(x)], Before(x)')
          /\ reg'[x].l = Online(x)!Weights(Score[Row(x)], Before(x)', reg'[x].m)
      BY <3>1 DEF IsMax, Online!IsMax, Weights, Online!Weights, Vanishes, Online!Vanishes
    <3> QED
      BY <1>3, <1>4, <1>5, <1>6, <3>1, <3>2 DEF Online!Fold, Before, RowKeys, Half
  <2>2. S \in SUBSET (RowKeys(x) \ Before(x))
    BY <1>6
  <2> QED
    BY <2>1, <2>2 DEF Online!Next, Online!FoldSome, Before, RowKeys
<1>7. CASE /\ Before(x)' = Before(x)
           /\ reg'[x] = [m |-> reg[x].m, l |-> reg[x].l, acc |-> reg[x].acc]
  BY <1>3, <1>4, <1>7, QuietOnline
<1> QED
  BY <1>2, <1>6, <1>7

LEMMA StoreOnline ==
  ASSUME Inductive, NEW x \in Threads, Store(x)
  PROVE  Online(x)!Next
<1> DEFINE r == Result(reg[x].acc, reg[x].l, reg[x].m)
<1>1. Control /\ Running /\ Output
  BY DEF Inductive
<1>2. /\ Live(x) /\ Row(x) \in Rows /\ Half(x) \in 0 .. 1 /\ O'[Row(x)][Half(x)] = r
  BY <1>1, StoreStep
<1>3. UNCHANGED <<arg, at, reg>> /\ pc[x] = "store"
  BY DEF Store
<1>4. Before(x) = RowKeys(x)
  BY <1>1, <1>2, <1>3, AllFolded DEF Over
<1>5. Row(x)' = Row(x) /\ RowKeys(x)' = RowKeys(x)
  BY <1>3 DEF Row, q0, RowKeys
<1>6. O[Row(x)][Half(x)] = NotStored
  BY <1>1, <1>2, <1>3, OwnedBy DEF Output, Written
<1>7. Online(x)!Store
  BY <1>2, <1>3, <1>4, <1>5, <1>6
  DEF Online!Store, Online!Result, Result, Before, RowKeys, Half
<1> QED
  BY <1>7 DEF Online!Next

(* The other threads' folds and stores.                                    *)
LEMMA OthersOnline ==
  ASSUME Inductive, NEW x \in Threads, NEW y \in Threads, y # x, Live(x),
         Fold(y) \/ Store(y) \/ SkipStore(y)
  PROVE  UNCHANGED Online(x)!vars
<1>1. Control /\ Running
  BY DEF Inductive
<1>2. arg' = arg /\ at'[x] = at[x] /\ reg'[x] = reg[x]
  BY <1>1, FoldControl DEF Fold, Store, SkipStore, AddKey, Control, Shape
<1>3. Row(x)' = Row(x) /\ Before(x)' = Before(x)
  BY <1>2 DEF Row, q0, Before, RowKeys
<1>4. O'[Row(x)][Half(x)] = O[Row(x)][Half(x)]
  <2>1. CASE Store(y)
    <3>1. Row(x) \in Rows /\ Half(x) \in 0 .. 1
      BY <1>1, Basics, OwnedBy
    <3>2. Row(x) # Row(y) \/ Half(x) # Half(y)
      BY <1>1, OwnedBy
    <3> QED
      BY <1>1, <2>1, <3>1, <3>2, StoreStep
  <2>2. CASE Fold(y) \/ SkipStore(y)
    BY <2>2 DEF Fold, SkipStore
  <2> QED
    BY <2>1, <2>2
<1> QED
  BY <1>2, <1>3, <1>4, QuietOnline

LEMMA SyncOnline ==
  ASSUME Inductive, NEW x \in Threads, SyncThreads
  PROVE  UNCHANGED Online(x)!vars
<1>1. Control
  BY DEF Inductive
<1>2. UNCHANGED <<arg, reg, O>>
  BY DEF SyncThreads
<1>3. Row(x)' = Row(x)
  BY <1>2 DEF Row, q0
<1>4. Before(x)' = Before(x)
  BY <1>1, <1>2, <1>3, SyncCases, SyncBefore DEF Before, RowKeys
<1> QED
  BY <1>2, <1>3, <1>4, QuietOnline

LEMMA StepOnline ==
  ASSUME Inductive, [Next]_vars, NEW x \in Threads, Live(x)
  PROVE  UNCHANGED Online(x)!vars \/ Online(x)!Next
<1>1. Control
  BY DEF Inductive
<1>2. ASSUME UNCHANGED <<arg, reg, O>>, at'[x].j0 = at[x].j0, at'[x].j = at[x].j
      PROVE  UNCHANGED Online(x)!vars
  <2>1. Row(x)' = Row(x) /\ Before(x)' = Before(x)
    BY <1>2 DEF Row, q0, Before, RowKeys
  <2> QED
    BY <1>2, <2>1, QuietOnline
<1>3. CASE UNCHANGED vars
  BY <1>2, <1>3 DEF vars
<1>4. ASSUME NEW y \in Threads, Load(y) PROVE UNCHANGED Online(x)!vars
  BY <1>1, <1>2, <1>4, LoadControl DEF Load
<1>5. ASSUME NEW y \in Threads, Loaded(y) \/ Dot(y) PROVE UNCHANGED Online(x)!vars
  BY <1>2, <1>5 DEF Loaded, Dot
<1>6. ASSUME NEW w \in Warps, Shuffle(w) PROVE UNCHANGED Online(x)!vars
  BY <1>2, <1>6 DEF Shuffle
<1>7. ASSUME NEW y \in Threads, Fold(y) \/ Store(y) \/ SkipStore(y)
      PROVE  UNCHANGED Online(x)!vars \/ Online(x)!Next
  <2>1. CASE y # x
    BY <1>7, <2>1, OthersOnline
  <2>2. CASE y = x
    <3>1. ~SkipStore(x)
      BY DEF SkipStore, Writes
    <3> QED
      BY <1>7, <2>2, <3>1, FoldOnline, StoreOnline
  <2> QED
    BY <2>1, <2>2
<1>8. CASE SyncThreads
  BY <1>8, SyncOnline
<1> QED
  BY <1>3, <1>4, <1>5, <1>6, <1>7, <1>8 DEF Next, Step, Finished

(* Every thread of a live row implements the streaming softmax.            *)
THEOREM Refinement == Spec => ImplementsOnline
<1> DEFINE Each == \A x \in Threads :
                     Live(x) => UNCHANGED Online(x)!vars \/ Online(x)!Next
           Starts == \A x \in Threads : Live(x) => Online(x)!Init
<1>1. Init => Starts
  BY InitOnline
<1>2. Inductive /\ [Next]_vars => [Each]_vars
  BY StepOnline
<1> HIDE DEF Each, Starts
<1>3. Spec => Starts /\ [][Each]_vars
  BY <1>1, <1>2, Invariance, PTL DEF Spec
<1> QED
  BY <1>3 DEF ImplementsOnline, Each, Starts
=============================================================================
