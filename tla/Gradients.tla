----------------------------- MODULE Gradients -----------------------------
(***************************************************************************)
(* The gradients of attention as sums, after the reference                 *)
(* (src/reference_bwd.cpp): dQ of a query row is a sum over the keys it    *)
(* sees, dK and dV of a key row are sums over the queries that see it. A   *)
(* sum is the sequence of the rows its terms belong to, in the order of    *)
(* their addition, which float arithmetic does not ignore.                 *)
(***************************************************************************)
EXTENDS Integers, Sequences

CONSTANT MaxSeq         \* bound on seq

(* The rows a, a + 1, ..., b - 1.                                          *)
Ascending(a, b) == [i \in 1 .. b - a |-> a + i - 1]

(* The number of keys query t sees; the first query to see key j.          *)
kmax(t, seq, causal) == IF causal THEN t + 1 ELSE seq
FirstQuery(j, causal) == IF causal THEN j ELSE 0

KeysOf(t, seq, causal) == Ascending(0, kmax(t, seq, causal))
QueriesOf(j, seq, causal) == Ascending(FirstQuery(j, causal), seq)
=============================================================================
