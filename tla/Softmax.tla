------------------------------- MODULE Softmax -------------------------------
(***************************************************************************)
(* Attention weights of one query row, as the reference computes them in   *)
(* two passes (src/reference.cpp): the maximum m of the visible scores,    *)
(* then the weight exp(s - m) of each visible key.                         *)
(*                                                                         *)
(* Scores are integers and a sum of weights is kept symbolically, as the   *)
(* set of its terms [key, x], each standing for exp(x) times the key's 1   *)
(* (in l) or V row (in acc). Multiplying the sum by exp(d) adds d to every *)
(* exponent. exp(x) underflows to 0 below -Under, and its term disappears. *)
(* The rounding of the remaining float arithmetic is not modelled.         *)
(***************************************************************************)
EXTENDS Integers

CONSTANTS Sentinel,     \* -1e30f: the initial m, and a masked key's score
          Under         \* exp(x) = 0 in float for x < -Under

Vanishes(x) == x < -Under

(* exp(x) for key k, as a sum of at most one term.                         *)
Weight(k, x) == IF Vanishes(x) THEN {} ELSE {[key |-> k, x |-> x]}

(* The sum T multiplied by exp(d).                                         *)
Decay(T, d) ==
  {z \in {[key |-> y.key, x |-> y.x + d] : y \in T} : ~Vanishes(z.x)}

(* The keys row t of a seq x seq problem attends to.                       *)
Visible(t, seq, causal) == {k \in 0 .. seq - 1 : causal => k <= t}

(* m is the maximum of the scores of the keys in S.                        *)
IsMax(m, score, S) ==
  /\ \E k \in S : score[k] = m
  /\ \A k \in S : score[k] <= m

(* The weights of the keys in S relative to m.                             *)
Weights(score, S, m) ==
  {z \in {[key |-> k, x |-> score[k] - m] : k \in S} : ~Vanishes(z.x)}

(* The values a row stores: O = num / den, lse = max + log(den).           *)
Result(num, den, max) == [num |-> num, den |-> den, max |-> max]

(* One key with score s folded into a row's registers r: a new maximum     *)
(* rescales the history, then e = exp(s - m) is added to l, and e times    *)
(* the V row of vkey to acc.                                               *)
(* Mutant: a new maximum rescales l but not acc.                           *)
FoldInto_StaleAcc(r, s, key, vkey) ==
  LET mx == IF s > r.m THEN s ELSE r.m
  IN  [m   |-> mx,
       l   |-> Decay(r.l, r.m - mx) \cup Weight(key, s - mx),
       acc |-> r.acc \cup Weight(vkey, s - mx)]

FoldInto(r, s, key, vkey) ==
  LET mx == IF s > r.m THEN s ELSE r.m
      d  == r.m - mx
  IN  [m   |-> mx,
       l   |-> Decay(r.l, d) \cup Weight(key, s - mx),
       acc |-> Decay(r.acc, d) \cup Weight(vkey, s - mx)]
=============================================================================
