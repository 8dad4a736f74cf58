----------------------------- MODULE ParallelFor -----------------------------
(***************************************************************************)
(* What parallel_for promises its callers (src/parallel.h): every index of *)
(* [0, n) is passed to fn exactly once, in contiguous ranges, in no        *)
(* particular order, and the call returns only when all of them are done.  *)
(* Threads, the mutex, the wakeups and the chunk arithmetic are not here.  *)
(***************************************************************************)
EXTENDS Integers

CONSTANT MaxN           \* bound on the n of a call, a natural number

VARIABLES phase,        \* "idle", "running" (a call is on), "closed" (pool destroyed)
          size,         \* n of the current or last call
          hits          \* how often fn has been applied to each index, this call

vars == <<phase, size, hits>>

Indices == 0 .. MaxN - 1
None == [x \in Indices |-> 0]

Init == phase = "idle" /\ size = 0 /\ hits = None

(* A caller asks for [0, n).                                               *)
Call(n) ==
  /\ phase = "idle"
  /\ phase' = "running"
  /\ size' = n
  /\ hits' = None

(* fn has been applied to the nonempty range [b, e), no part of which it   *)
(* had been applied to before.                                             *)
Apply(b, e) ==
  /\ phase = "running"
  /\ b < e /\ e <= size
  /\ \A x \in b .. e - 1 : hits[x] = 0
  /\ hits' = [x \in Indices |-> IF x \in b .. e - 1 THEN 1 ELSE hits[x]]
  /\ UNCHANGED <<phase, size>>

(* The call returns: nothing is left to do.                                *)
Return ==
  /\ phase = "running"
  /\ \A x \in 0 .. size - 1 : hits[x] = 1
  /\ phase' = "idle"
  /\ UNCHANGED <<size, hits>>

(* The pool is destroyed, between calls.                                   *)
Close ==
  /\ phase = "idle"
  /\ phase' = "closed"
  /\ UNCHANGED <<size, hits>>

ApplySome == \E b, e \in 0 .. MaxN : Apply(b, e)

Next == (\E n \in 0 .. MaxN : Call(n)) \/ ApplySome \/ Return \/ Close

Spec == Init /\ [][Next]_vars

(* The call terminates: parallel_for returns to its caller.                *)
Returns == (phase = "running") ~> (phase = "idle")
=============================================================================
