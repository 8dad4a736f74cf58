---------------------------- MODULE GradientSum ----------------------------
(***************************************************************************)
(* attention_backward_reference (src/reference_bwd.cpp) as a process: row  *)
(* after row, each (query, key) pair the row sees contributes to dQ of the *)
(* query and to dK and dV of the key. The softmax of a row, rebuilt before *)
(* its pairs, is a function of the inputs and has no state of its own.     *)
(***************************************************************************)
EXTENDS Gradients

CONSTANTS Heads         \* batch * heads

VARIABLES seq, causal,  \* the call
          h, t, j,      \* the loops over heads, rows and keys
          dQ, dKV       \* the gradients, by row; dK and dV get the same terms

vars == <<seq, causal, h, t, j, dQ, dKV>>

(* Shape::row                                                              *)
row(i, r) == i * seq + r

Init ==
  /\ h = 0 /\ t = 0 /\ j = 0
  /\ \A i \in 0 .. Heads - 1, r \in 0 .. seq - 1 :
       dQ[row(i, r)] = <<>> /\ dKV[row(i, r)] = <<>>

AddPair ==
  /\ h < Heads /\ t < seq /\ j < kmax(t, seq, causal)
  /\ dQ' = [dQ EXCEPT ![row(h, t)] = Append(@, row(h, j))]
  /\ dKV' = [dKV EXCEPT ![row(h, j)] = Append(@, row(h, t))]
  /\ j' = j + 1
  /\ UNCHANGED <<seq, causal, h, t>>

NextRow ==
  /\ h < Heads /\ t < seq /\ j >= kmax(t, seq, causal)
  /\ t' = t + 1 /\ j' = 0
  /\ UNCHANGED <<seq, causal, h, dQ, dKV>>

NextHead ==
  /\ h < Heads /\ t >= seq
  /\ h' = h + 1 /\ t' = 0
  /\ UNCHANGED <<seq, causal, j, dQ, dKV>>

Next == AddPair \/ NextRow \/ NextHead

Spec == Init /\ [][Next]_vars
=============================================================================
