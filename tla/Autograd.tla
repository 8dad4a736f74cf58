------------------------------ MODULE Autograd ------------------------------
(***************************************************************************)
(* The differentiable operator: _FlashAttention                            *)
(* (src/pytorch/flash_attn.py), its bindings (src/pytorch/binding*.cpp)    *)
(* and the host functions flash_forward and flash_backward (src/src/*.cu). *)
(* The host allocates memory and enqueues kernels; each stream runs its    *)
(* kernels in order, some time later. Every call of the operator is on a   *)
(* host thread of its own and its kernels go to its thread's stream.       *)
(*                                                                         *)
(* A block of device memory holds one value: what a kernel of a call       *)
(* computed. A kernel that finds in a block it reads anything else than    *)
(* what it was launched for computes Wrong. Q, K and V are one block, O    *)
(* and lse another, dQ, dK and dV another; the dq and dkv kernels, with    *)
(* the same inputs and launched together, are one.                         *)
(*                                                                         *)
(* What a call is given decides its path. Tensors on the CPU run there,    *)
(* before the operator returns and without device memory. What the binding *)
(* refuses ends in an exception; what it accepts may still be empty, or    *)
(* have more heads than a grid has blocks in y. Other inputs are dense or  *)
(* strided, these needing a copy to be contiguous; so is the gradient of O *)
(* that autograd passes. The binding makes every other tensor contiguous   *)
(* too, which does nothing: O, lse and dO already are.                     *)
(*                                                                         *)
(* Torch's allocator and autograd, and CUDA's streams and memory, are      *)
(* modelled from how the code uses them.                                   *)
(***************************************************************************)
EXTENDS Naturals, Sequences, FiniteSets

CONSTANTS Calls, Streams,
          Blocks,       \* device memory: numbers from 1
          Wrong         \* not the value of any kernel

ASSUME AutogradAssumption ==
  /\ Blocks \subseteq Nat \ {0} /\ IsFiniteSet(Blocks)
  /\ "free" \notin Streams /\ "held" \notin Streams
  /\ Streams # {}

VARIABLES
  pc,       \* control point of each call
  stream,   \* its thread's current stream
  input,    \* what its q, k, v are
  ptr,      \* its tensors' blocks
  heap,     \* of each block: held, free, or the stream whose cache it is in
  mem,      \* the value in each block
  queue,    \* the kernels each stream has yet to run
  awaited   \* how many of each stream's kernels a cudaFree waits for

vars == <<pc, stream, input, ptr, heap, mem, queue, awaited>>

Tensors == {"qkv", "copy", "o", "grad_out", "dO", "D", "grads"}
NoBlock == 0
Points == {"input", "copy", "forward", "loss", "gradient", "recopy", "backward",
           "launch", "free", "return", "use", "done", "raised", "exited", "failed"}
Inputs == {"dense", "strided", "unsupported", "empty", "wide", "cpu"}

Init ==
  /\ pc = [c \in Calls |-> "input"]
  /\ stream \in [Calls -> Streams] /\ input \in [Calls -> Inputs]
  /\ ptr = [c \in Calls |-> [n \in Tensors |-> NoBlock]]
  /\ heap = [b \in Blocks |-> "free"]
  /\ mem = [b \in Blocks |-> Wrong]
  /\ queue = [s \in Streams |-> <<>>]
  /\ awaited = [c \in Calls |-> [s \in Streams |-> 0]]

(* A kernel of call c, computing tensor n in its block from those of src.  *)
Kernel(p, c, n, src) ==
  [call |-> c, writes |-> n, to |-> p[n], reads |-> {<<m, p[m]>> : m \in src}]

(* The stream the binding passes to the host functions.                    *)
KernelStream(c) == stream[c]

(* The allocators: cudaMalloc takes free memory, torch on stream s also    *)
(* what was held on s before. Of either kind the lowest block is taken.    *)
Lowest(S) == {b \in S : \A d \in S : b <= d}
FreeBlocks == Lowest({b \in Blocks : heap[b] = "free"})
TorchBlocks(s) == UNION {Lowest({b \in Blocks : heap[b] = kind}) :
                         kind \in {"free", s}}

Hold(b) == [heap EXCEPT ![b] = "held"]

(* Torch takes the blocks of c's tensors N back into its stream's cache,   *)
(* whatever is still enqueued: later kernels of the stream come later.     *)
Release(c, N) ==
  LET bs == {ptr[c][n] : n \in N} \ {NoBlock}
  IN  [b \in Blocks |-> IF b \in bs THEN stream[c] ELSE heap[b]]

(* One step of the host: memory is taken for tensor n of c, the kernel     *)
(* that computes it from src is enqueued on stream s, and the tensors N    *)
(* are dropped.                                                            *)
Compute(c, s, n, src, N, x) ==
  \E b \in TorchBlocks(stream[c]) :
    LET p == [ptr[c] EXCEPT ![n] = b]
    IN  /\ ptr' = [ptr EXCEPT ![c] = [m \in Tensors |-> IF m \in N THEN NoBlock ELSE p[m]]]
        /\ heap' = [Release(c, N) EXCEPT ![b] = "held"]
        /\ queue' = [queue EXCEPT ![s] = Append(@, Kernel(p, c, n, src))]
        /\ pc' = [pc EXCEPT ![c] = x]
        /\ UNCHANGED <<stream, input, mem, awaited>>
-----------------------------------------------------------------------------
Strided(c) == input[c] = "strided"

(* The caller's own kernel computes q, k and v,                            *)
Input(c) ==
  /\ pc[c] = "input" /\ input[c] \notin {"empty", "cpu"}
  /\ Compute(c, stream[c], "qkv", {}, {}, IF Strided(c) THEN "copy" ELSE "forward")

(* unless they are on the CPU, or have no elements.                        *)
InputOffDevice(c) ==
  /\ pc[c] = "input" /\ input[c] \in {"empty", "cpu"}
  /\ pc' = [pc EXCEPT ![c] = "forward"]
  /\ UNCHANGED <<stream, input, ptr, heap, mem, queue, awaited>>

(* check_contract refuses other types, ranks and head dimensions, and      *)
(* shapes that differ: an exception, after which the caller drops q, k, v. *)
Refuse(c) ==
  /\ pc[c] = "forward" /\ input[c] = "unsupported"
  /\ heap' = Release(c, {"qkv"})
  /\ ptr' = [ptr EXCEPT ![c]["qkv"] = NoBlock]
  /\ pc' = [pc EXCEPT ![c] = "raised"]
  /\ UNCHANGED <<stream, input, mem, queue, awaited>>

(* The CPU binding copies to vectors, computes, and copies the result.     *)
ForwardCpu(c) ==
  /\ pc[c] = "forward" /\ input[c] = "cpu"
  /\ pc' = [pc EXCEPT ![c] = "backward"]
  /\ UNCHANGED <<stream, input, ptr, heap, mem, queue, awaited>>

BackwardCpu(c) ==
  /\ pc[c] = "backward" /\ input[c] = "cpu"
  /\ pc' = [pc EXCEPT ![c] = "done"]
  /\ UNCHANGED <<stream, input, ptr, heap, mem, queue, awaited>>

(* The contiguous copies, kernels of torch: of q, k and v in the forward   *)
(* and again in the backward, of the gradient before the latter.           *)
Retrace(c) == IF Strided(c) THEN "recopy" ELSE "backward"
Contiguous(c) ==
  \/ pc[c] = "copy" /\ Compute(c, stream[c], "copy", {"qkv"}, {}, "forward")
  \/ pc[c] = "gradient" /\ Compute(c, stream[c], "dO", {"grad_out"}, {}, Retrace(c))
  \/ pc[c] = "recopy" /\ Compute(c, stream[c], "copy", {"qkv"}, {}, "backward")

(* What the operator's own kernels read.                                   *)
Source(c) == IF Strided(c) THEN "copy" ELSE "qkv"

(* binding.cpp forward, after the copies: o and lse are allocated and the  *)
(* kernel is enqueued; on return the copies are dropped, while             *)
(* save_for_backward keeps q, k, v, o and lse.                             *)
Forward(c) ==
  /\ pc[c] = "forward" /\ input[c] \in {"dense", "strided"}
  /\ Compute(c, KernelStream(c), "o", {Source(c)}, {"copy"}, "loss")

(* The loss and its gradient: kernels of the caller and autograd, which    *)
(* then runs the operator's backward on the stream of its forward. The     *)
(* gradient is dO at once, unless it is not contiguous.                    *)
Loss(c) ==
  /\ pc[c] = "loss"
  /\ \/ Compute(c, stream[c], "dO", {"o"}, {}, Retrace(c))
     \/ Compute(c, stream[c], "grad_out", {"o"}, {}, "gradient")

(* binding.cpp backward, after the copies: the gradients are allocated;    *)
Backward(c) ==
  /\ pc[c] = "backward" /\ input[c] # "cpu"
  /\ \E b \in TorchBlocks(stream[c]) : /\ ptr' = [ptr EXCEPT ![c]["grads"] = b]
                                      /\ heap' = Hold(b)
  /\ pc' = [pc EXCEPT ![c] = "launch"]
  /\ UNCHANGED <<stream, input, mem, queue, awaited>>

(* flash_backward: cudaMalloc of the scratch buffer D, then the launches,  *)
Launches_DotLast(p, c) ==                                  \* mutant
  <<Kernel(p, c, "grads", {Source(c), "o", "dO", "D"}),
    Kernel(p, c, "D", {"o", "dO"})>>
Launches(p, c) ==
  <<Kernel(p, c, "D", {"o", "dO"}),
    Kernel(p, c, "grads", {Source(c), "o", "dO", "D"})>>

Launch(c) ==
  /\ pc[c] = "launch"
  /\ \E b \in FreeBlocks :
       LET p == [ptr[c] EXCEPT !["D"] = b]
       IN  /\ ptr' = [ptr EXCEPT ![c] = p]
           /\ heap' = Hold(b)
           /\ queue' = [queue EXCEPT ![KernelStream(c)] = @ \o Launches(p, c)]
  /\ pc' = [pc EXCEPT ![c] = "free"]
  /\ UNCHANGED <<stream, input, mem, awaited>>

(* and cudaFree(D), which first waits for what the device has been given.  *)
Awaits_Nothing == [s \in Streams |-> 0]                    \* mutant
Awaits == [s \in Streams |-> Len(queue[s])]

FreeScratch(c) ==
  /\ pc[c] = "free"
  /\ awaited' = [awaited EXCEPT ![c] = Awaits]
  /\ pc' = [pc EXCEPT ![c] = "return"]
  /\ UNCHANGED <<stream, input, ptr, heap, mem, queue>>

(* flash_backward and the binding return: the copies are dropped, and      *)
(* autograd drops what was saved. The gradients go to the caller.          *)
AfterFree_Leak == "held"                                   \* mutant
AfterFree == "free"

Return(c) ==
  /\ pc[c] = "return" /\ \A s \in Streams : awaited[c][s] = 0
  /\ heap' = [Release(c, Tensors \ {"D", "grads"}) EXCEPT ![ptr[c]["D"]] = AfterFree]
  /\ ptr' = [ptr EXCEPT ![c] = [n \in Tensors |->
                                  IF n = "grads" THEN @[n] ELSE NoBlock]]
  /\ pc' = [pc EXCEPT ![c] = "use"]
  /\ UNCHANGED <<stream, input, mem, queue, awaited>>

(* The caller is done with the gradients.                                  *)
Use(c) ==
  /\ pc[c] = "use"
  /\ heap' = Release(c, {"grads"})
  /\ ptr' = [ptr EXCEPT ![c]["grads"] = NoBlock]
  /\ pc' = [pc EXCEPT ![c] = "done"]
  /\ UNCHANGED <<stream, input, mem, queue, awaited>>

(* A call that finds no memory: torch waits for the device, gives all its  *)
(* caches back, and tries again; with nothing to give back it raises an    *)
(* exception, and the call's tensors are dropped. In flash_backward the    *)
(* program ends at once, whatever torch has cached.                        *)
Cached == {b \in Blocks : heap[b] \in Streams}
Stuck(c) == /\ pc[c] \in {"input", "copy", "forward", "loss", "gradient", "recopy",
                         "backward"}
            /\ input[c] \notin {"empty", "cpu"}
            /\ ~(pc[c] = "forward" /\ input[c] = "unsupported")
            /\ TorchBlocks(stream[c]) = {}

EmptyCaches(c) ==
  /\ Stuck(c) /\ Cached # {}
  /\ \A s \in Streams : queue[s] = <<>>
  /\ heap' = [b \in Blocks |-> IF b \in Cached THEN "free" ELSE heap[b]]
  /\ UNCHANGED <<pc, stream, input, ptr, mem, queue, awaited>>

Raise(c) ==
  /\ Stuck(c) /\ Cached = {}
  /\ heap' = Release(c, Tensors)
  /\ ptr' = [ptr EXCEPT ![c] = [n \in Tensors |-> NoBlock]]
  /\ pc' = [pc EXCEPT ![c] = "raised"]
  /\ UNCHANGED <<stream, input, mem, queue, awaited>>

Exit(c) ==
  /\ pc[c] = "launch" /\ FreeBlocks = {}
  /\ pc' = [d \in Calls |-> "exited"]
  /\ UNCHANGED <<stream, input, ptr, heap, mem, queue, awaited>>

(* flash_forward on a grid without blocks, or with too many: the launch    *)
(* fails and CUDA_CHECK ends the program.                                  *)
FailLaunch(c) ==
  /\ pc[c] = "forward" /\ input[c] \in {"empty", "wide"} /\ ~Stuck(c)
  /\ pc' = [d \in Calls |-> IF d = c THEN "failed" ELSE "exited"]
  /\ UNCHANGED <<stream, input, ptr, heap, mem, queue, awaited>>

(* The next kernel of a stream runs.                                       *)
Value(c, n) == <<c, n>>
Run(s) ==
  /\ queue[s] # <<>>
  /\ LET k == Head(queue[s])
         good == \A r \in k.reads : mem[r[2]] = Value(k.call, r[1])
     IN  /\ mem' = [mem EXCEPT ![k.to] =
                      IF good THEN Value(k.call, k.writes) ELSE Wrong]
  /\ queue' = [queue EXCEPT ![s] = Tail(@)]
  /\ awaited' = [c \in Calls |->
                   [awaited[c] EXCEPT ![s] = IF @ > 0 THEN @ - 1 ELSE 0]]
  /\ UNCHANGED <<pc, stream, input, ptr, heap>>

Finished == /\ \A c \in Calls : pc[c] \in {"done", "raised", "exited", "failed"}
            /\ UNCHANGED vars

Host(c) == Input(c) \/ InputOffDevice(c) \/ Refuse(c)
           \/ ForwardCpu(c) \/ BackwardCpu(c) \/ FailLaunch(c)
           \/ Contiguous(c) \/ Forward(c) \/ Loss(c) \/ Backward(c) \/ Launch(c)
           \/ FreeScratch(c) \/ Return(c) \/ Use(c)
           \/ EmptyCaches(c) \/ Raise(c) \/ Exit(c)
Next == (\E c \in Calls : Host(c)) \/ (\E s \in Streams : Run(s)) \/ Finished

Spec == Init /\ [][Next]_vars
-----------------------------------------------------------------------------
(* Types; no block has two owners, a held one has one, and no other has:   *)
(* nothing leaks, not even D, of which torch knows nothing.                *)
TypeOK ==
  /\ pc \in [Calls -> Points]
  /\ ptr \in [Calls -> [Tensors -> Blocks \cup {NoBlock}]]
  /\ heap \in [Blocks -> {"free", "held"} \cup Streams]
  /\ \A c, d \in Calls, m, n \in Tensors :
       <<c, m>> # <<d, n>> /\ ptr[c][m] # NoBlock => ptr[c][m] # ptr[d][n]
  /\ \A b \in Blocks :
       heap[b] = "held" <=> \E c \in Calls, n \in Tensors : ptr[c][n] = b

(* A kernel yet to run keeps its memory: each block it reads or writes is  *)
(* still held, or in the cache of its own stream, where anything that      *)
(* takes it runs later. D needs the wait of cudaFree for this, the copies  *)
(* and the saved tensors the order of the stream.                          *)
MemoryKept ==
  \A s \in Streams : \A i \in DOMAIN queue[s] :
    LET k == queue[s][i]
    IN  \A b \in {k.to} \cup {r[2] : r \in k.reads} : heap[b] \in {"held", s}

(* Whatever runs at the same time, no kernel reads what it was not         *)
(* launched for: a call that returned has, once its gradients' kernel has  *)
(* run, the gradients of its own q, k, v, O, lse, dO and D there, and they *)
(* stay until the caller drops them.                                       *)
GradsCorrect ==
  \A c \in Calls :
    (pc[c] = "use" /\ \A s \in Streams : \A i \in DOMAIN queue[s] :
                        queue[s][i].to # ptr[c]["grads"])
      => mem[ptr[c]["grads"]] = Value(c, "grads")

(* What binding.cpp says of itself, that it validates the contract the     *)
(* kernels assume: no call it accepts ends the program by a launch that    *)
(* cannot be made.                                                         *)
ContractSuffices == \A c \in Calls : pc[c] # "failed"
=============================================================================
