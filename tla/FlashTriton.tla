---------------------------- MODULE FlashTriton ----------------------------
(***************************************************************************)
(* The Triton rendering of the forward (src/triton/flash_attn_triton.py):  *)
(* a grid of programs, one per tile of BLOCK_M query rows of each head,    *)
(* each streaming K/V tiles of BLOCK_N rows through the softmax statistics *)
(* of all its rows at once, then storing O and Lse under a mask. Programs  *)
(* run in any order and share O and Lse only.                              *)
(*                                                                         *)
(* The first call for a shape launches every configuration of autotune on  *)
(* the caller's own tensors, one after the other, before the one that      *)
(* counts: here any. Triton's tuner is modelled from how the code uses it. *)
(*                                                                         *)
(* Unlike the CUDA kernel's -1e30, the initial maximum and a masked score  *)
(* are -inf, whose difference is NaN. A NaN in a sum is a term that stays. *)
(*                                                                         *)
(* pc: tile (the loop), store (O), lse, done. Out is O; it and what starts *)
(* with Grid are named so that FlashCpu can be used beside this module.    *)
(***************************************************************************)
EXTENDS Scores, FiniteSets

CONSTANTS Configs,      \* the tuner's choices: records [m, n] of block sizes
          NegInf,       \* float("-inf")
          NaN

ASSUME FlashTritonAssumption ==
  /\ Configs \subseteq [m : Nat \ {0}, n : Nat \ {0}] /\ Configs # {}
  /\ IsFiniteSet(Configs)
  /\ Heads \in Nat /\ MaxSeq \in Nat \ {0} /\ Under \in Nat
  /\ NegInf \notin Int /\ NaN \notin Int
  /\ Score \in [0 .. Heads - 1 -> [0 .. MaxSeq - 1 -> [0 .. MaxSeq - 1 -> Int]]]

(* A stored result can be told from an element that was not written.       *)
ASSUME NotStoredIsNoResult ==
  LET terms == SUBSET [key : 0 .. MaxSeq - 1, x : Int]
  IN  NotStored \notin [num : terms, den : terms, max : Int]

VARIABLES arg,          \* the call: seq_len, causal
          cfg,          \* the configuration of the launch
          todo,         \* those the tuner has yet to time, this one included
          pc,           \* control point of each program
          start_n,      \* its tile
          reg,          \* its m_i, l_i and acc, one of each per row
          Out, Lse        \* rows of all heads

gridVars == <<arg, cfg, todo, pc, start_n, reg, Out, Lse>>

(* The grid of a launch: (pid_m, pid_bh).                                  *)
GridOf(c, seq) == (0 .. (seq + c.m - 1) \div c.m - 1) \X (0 .. Heads - 1)
Grid == GridOf(cfg, arg.seq)

Lanes(c) == 0 .. c.m - 1
offs_m(p, i) == p[1] * cfg.m + i
Least(a, b) == IF a < b THEN a ELSE b
hi(p) == IF arg.causal THEN Least((p[1] + 1) * cfg.m, arg.seq) ELSE arg.seq
offs_n(p) == start_n[p] .. start_n[p] + cfg.n - 1

(* O and Lse, with what lies behind them for as long as a tile is.         *)
Elements == 0 .. Heads * MaxSeq + MaxSeq - 1
Fresh(c) == [m |-> [i \in Lanes(c) |-> NegInf],
             l |-> [i \in Lanes(c) |-> {}], acc |-> [i \in Lanes(c) |-> {}]]

Launched(c, seq) ==
  [pc |-> [p \in GridOf(c, seq) |-> "tile"],
   start_n |-> [p \in GridOf(c, seq) |-> 0],
   reg |-> [p \in GridOf(c, seq) |-> Fresh(c)]]

GridInit ==
  /\ arg \in [seq : 1 .. MaxSeq, causal : BOOLEAN]
  /\ cfg \in Configs /\ todo \in {{}, Configs}
  /\ LET g == Launched(cfg, arg.seq)
     IN  pc = g.pc /\ start_n = g.start_n /\ reg = g.reg
  /\ Out = [e \in Elements |-> NotStored]
  /\ Lse = [e \in Elements |-> NotStored]
-----------------------------------------------------------------------------
(* Arithmetic with -inf: the larger of two; exp(a - b) for key k; a sum    *)
(* multiplied by exp(a - b).                                               *)
Broken == {[key |-> NaN, x |-> 0]}
Max2(a, b) == IF a = NegInf THEN b ELSE IF b = NegInf THEN a
              ELSE IF a < b THEN b ELSE a
ExpOf(k, a, b) ==
  IF a = NegInf THEN IF b = NegInf THEN Broken ELSE {} ELSE Weight(k, a - b)
Scaled(T, a, b) ==
  IF Broken \subseteq T \/ (a = NegInf /\ b = NegInf) THEN Broken
  ELSE IF a = NegInf THEN {} ELSE Decay(T, a - b)

(* s of lane i and key k: rows past the end were loaded as 0; keys past    *)
(* the end, and later than the row under the causal mask, are -inf.        *)
RawScore(p, i, k) ==
  IF offs_m(p, i) < arg.seq /\ k < arg.seq
  THEN Score[p[2]][offs_m(p, i)][k] ELSE 0
Kept(p, i, k) == k < arg.seq /\ (arg.causal => offs_m(p, i) >= k)
s(p, i, k) == IF Kept(p, i, k) THEN RawScore(p, i, k) ELSE NegInf

m_new(p, i) ==
  LET S == {s(p, i, k) : k \in offs_n(p)} \cup {reg[p].m[i]}
  IN  CHOOSE v \in S : \A u \in S : Max2(u, v) = v

(* p and its two uses: l takes all keys of the tile, acc those whose V row *)
(* was not masked to 0.                                                    *)
Share(p, i, K) == UNION {ExpOf(k, s(p, i, k), m_new(p, i)) : k \in K}

(* What l and acc held, relative to the new maximum.                       *)
Carried_Stale(p, i, T) == T                                \* mutant
Carried(p, i, T) == Scaled(T, reg[p].m[i], m_new(p, i))

Update(p) ==
  [m   |-> [i \in Lanes(cfg) |-> m_new(p, i)],
   l   |-> [i \in Lanes(cfg) |-> Carried(p, i, reg[p].l[i])
                                 \cup Share(p, i, offs_n(p))],
   acc |-> [i \in Lanes(cfg) |-> Carried(p, i, reg[p].acc[i])
                                 \cup Share(p, i, offs_n(p) \cap 0 .. arg.seq - 1)]]

(* There is a first tile: hi is at least 1.                                *)
AfterTile_Again(p) ==                                      \* mutant
  IF start_n[p] + cfg.n <= hi(p) THEN "tile" ELSE "store"
AfterTile(p) == IF start_n[p] + cfg.n < hi(p) THEN "tile" ELSE "store"

GridTile(p) ==
  /\ pc[p] = "tile"
  /\ reg' = [reg EXCEPT ![p] = Update(p)]
  /\ start_n' = [start_n EXCEPT ![p] = @ + cfg.n]
  /\ pc' = [pc EXCEPT ![p] = AfterTile(p)]
  /\ UNCHANGED <<arg, cfg, todo, Out, Lse>>

(* The stores of O and of Lse: base + row, for the rows of the head.       *)
Live_Padded(p, i) == TRUE                                  \* mutant
Live(p, i) == offs_m(p, i) < arg.seq

StoredBy(p, A) ==
  [e \in Elements |->
     LET i == e - p[2] * arg.seq - p[1] * cfg.m
     IN  IF i \in Lanes(cfg) /\ Live(p, i)
         THEN Result(reg[p].acc[i], reg[p].l[i], reg[p].m[i]) ELSE A[e]]

StoreO(p) ==
  /\ pc[p] = "store"
  /\ Out' = StoredBy(p, Out)
  /\ pc' = [pc EXCEPT ![p] = "lse"]
  /\ UNCHANGED <<arg, cfg, todo, start_n, reg, Lse>>

StoreLse(p) ==
  /\ pc[p] = "lse"
  /\ Lse' = StoredBy(p, Lse)
  /\ pc' = [pc EXCEPT ![p] = "done"]
  /\ UNCHANGED <<arg, cfg, todo, start_n, reg, Out>>

(* The tuner's next launch, the stream's order putting it after the last.  *)
GridDone == \A p \in Grid : pc[p] = "done"

Tune ==
  /\ GridDone /\ todo # {}
  /\ todo' = todo \ {cfg}
  /\ cfg' \in IF todo' = {} THEN Configs ELSE todo'
  /\ LET g == Launched(cfg', arg.seq)
     IN  pc' = g.pc /\ start_n' = g.start_n /\ reg' = g.reg
  /\ UNCHANGED <<arg, Out, Lse>>

GridFinished == GridDone /\ todo = {} /\ UNCHANGED gridVars

Program(p) == GridTile(p) \/ StoreO(p) \/ StoreLse(p)
GridNext == (\E p \in Grid : Program(p)) \/ Tune \/ GridFinished

GridSpec == GridInit /\ [][GridNext]_gridVars
-----------------------------------------------------------------------------
(* Types; tiles are multiples of BLOCK_N and the last begins before hi.    *)
GridTypeOK ==
  /\ todo \subseteq Configs /\ cfg \in Configs
  /\ todo # {} => cfg \in todo
  /\ pc \in [Grid -> {"tile", "store", "lse", "done"}]
  /\ \A p \in Grid : /\ start_n[p] % cfg.n = 0
                     /\ start_n[p] < hi(p) + cfg.n
                     /\ pc[p] = "tile" => start_n[p] < hi(p)
                     /\ \A i \in Lanes(cfg) : reg[p].m[i] \in Int \cup {NegInf}

(* What the two-pass reference stores for row t of head h.                 *)
IsReferenceOf(h, t, r) ==
  LET S == Visible(t, arg.seq, arg.causal)
  IN  /\ IsMax(r.max, Score[h][t], S)
      /\ r.num = Weights(Score[h][t], S, r.max)
      /\ r.den = Weights(Score[h][t], S, r.max)

(* Whatever the order of the programs and the configurations they were     *)
(* launched with before, each element of O and Lse that is written is one  *)
(* of the heads' rows, with the reference softmax of that row of that      *)
(* head: no NaN, no masked key, no other tile's row. When a launch is over *)
(* all are written.                                                        *)
GridRowsCorrect ==
  \A A \in {Out, Lse} : \A e \in Elements :
    LET real == e < Heads * arg.seq
    IN  /\ A[e] # NotStored =>
             real /\ IsReferenceOf(e \div arg.seq, e % arg.seq, A[e])
        /\ GridDone => (real => A[e] # NotStored)

(* Within a launch every row of the sequence is a streaming softmax that   *)
(* takes a tile's visible keys at once, and none, without a trace, when    *)
(* the whole tile is masked for it; a maximum of -inf is that of no key.   *)
LaneOnline(p, i) == INSTANCE OnlineSoftmax WITH
  score <- Score[p[2]][offs_m(p, i)],
  visible <- Visible(offs_m(p, i), arg.seq, arg.causal),
  folded <- {k \in Visible(offs_m(p, i), arg.seq, arg.causal) : k < start_n[p]},
  m <- IF reg[p].m[i] = NegInf THEN Sentinel ELSE reg[p].m[i],
  l <- reg[p].l[i], acc <- reg[p].acc[i],
  out <- IF pc[p] \in {"tile", "store"} THEN NotStored
         ELSE Out[p[2] * arg.seq + offs_m(p, i)]

LiveLanes(p) == {i \in Lanes(cfg) : Live(p, i)}

LanesImplementOnline ==
  /\ \A g \in Grid : \A i \in LiveLanes(g) : LaneOnline(g, i)!Init
  /\ [][Tune \/ \A g \in Grid : \A i \in LiveLanes(g) :
                  [LaneOnline(g, i)!Next]_(LaneOnline(g, i)!vars)]_gridVars
=============================================================================
