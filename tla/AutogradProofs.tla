--------------------------- MODULE AutogradProofs ---------------------------
(***************************************************************************)
(* The differentiable operator, for any calls, streams and device memory:  *)
(* blocks have one owner and none leaks, a kernel yet to run keeps its     *)
(* memory, and the gradients a call returns are those of its own inputs.   *)
(***************************************************************************)
EXTENDS Autograd, SequenceTheorems, TLAPS

Kernels == [call : Calls, writes : Tensors, to : Blocks,
            reads : SUBSET (Tensors \X Blocks)]

Shape ==
  /\ stream \in [Calls -> Streams] /\ input \in [Calls -> Inputs]
  /\ mem = [b \in Blocks |-> mem[b]]
  /\ queue \in [Streams -> Seq(Kernels)]
  /\ awaited \in [Calls -> [Streams -> Nat]]

(* The tensors T a call has memory for at point x of its path. A program   *)
(* that ended keeps its own.                                               *)
OffDevice(c) == input[c] \in {"empty", "cpu"}
Saved == {"qkv", "o", "dO"}
Copied(c, n) == n = "copy" /\ Strided(c)
Has(c, x, n) ==
  CASE x = "copy"               -> n = "qkv"
    [] x = "forward"            -> (n = "qkv" /\ ~OffDevice(c)) \/ Copied(c, n)
    [] x \in {"loss", "gradient"} -> n \in {"qkv", "o"}
    [] x = "recopy"             -> n \in Saved
    [] x = "backward"           -> (n \in Saved /\ input[c] # "cpu") \/ Copied(c, n)
    [] x = "launch"             -> n \in Saved \cup {"grads"} \/ Copied(c, n)
    [] x \in {"free", "return"} -> n \in Saved \cup {"grads", "D"} \/ Copied(c, n)
    [] x = "use"                -> n = "grads"
    [] OTHER                    -> FALSE

(* Whether autograd's gradient needs a copy is the caller's doing.         *)
Backwards == {"gradient", "recopy", "backward", "launch", "free", "return"}
Holds(c, x, T) ==
  /\ \A n \in Tensors \ {"grad_out"} : n \in T <=> Has(c, x, n)
  /\ "grad_out" \in T => x \in Backwards /\ input[c] # "cpu"
  /\ x = "gradient" => "grad_out" \in T
  /\ x \in {"copy", "recopy"} => Strided(c)
  /\ x \in {"loss", "gradient"} => input[c] # "cpu"

Owns(p) == {n \in Tensors : p[n] # NoBlock}
Ended(x) == x \in {"exited", "failed"}
Owned == \A c \in Calls : ~Ended(pc[c]) => Holds(c, pc[c], Owns(ptr[c]))

(* What a queued kernel uses is its stream's.                              *)
Uses(k) == {k.to} \cup {r[2] : r \in k.reads}
Home(p, h, s, b) ==
  /\ h[b] \in {"held", s}
  /\ \A c \in Calls, n \in Tensors : p[c][n] = b => stream[c] = s

Homes ==
  \A s \in Streams : \A i \in DOMAIN queue[s] :
    \A b \in Uses(queue[s][i]) : Home(ptr, heap, s, b)

(* cudaFree waits for every kernel that uses D.                            *)
Waited ==
  \A c \in Calls : pc[c] = "return" =>
    \A i \in DOMAIN queue[stream[c]] :
      ptr[c]["D"] \in Uses(queue[stream[c]][i]) => i <= awaited[c][stream[c]]

(* The i-th kernel of queue q, with memory m now, will find v in block b:  *)
(* what the last kernel before it to write b leaves there.                 *)
Finds(q, m, b, i, v) ==
  \E j \in 0 .. i - 1 :
    /\ v = IF j = 0 THEN m[b] ELSE Value(q[j].call, q[j].writes)
    /\ j # 0 => q[j].to = b
    /\ \A l \in j + 1 .. i - 1 : q[l].to # b

(* Every kernel will find what it was launched for,                        *)
Fed(q, m) ==
  \A i \in DOMAIN q : \A r \in q[i].reads : Finds(q, m, r[2], i, Value(q[i].call, r[1]))

(* and so would one that is launched next.                                 *)
Launched(x, n) == n = "grads" => x \in {"free", "return", "use"}
Filled ==
  \A c \in Calls, n \in Tensors :
    ptr[c][n] # NoBlock /\ Launched(pc[c], n) =>
      Finds(queue[stream[c]], mem, ptr[c][n], Len(queue[stream[c]]) + 1, Value(c, n))

Memory == TypeOK /\ Shape /\ Owned /\ Homes /\ Waited
Inductive == Memory /\ (\A s \in Streams : Fed(queue[s], mem)) /\ Filled
-----------------------------------------------------------------------------
(* Most steps of the host are of one call c: it goes to point x, its       *)
(* tensors become p, the blocks h, and its stream is given the kernels ks. *)
Step(c, x, p, h, ks) ==
  /\ pc' = [pc EXCEPT ![c] = x]
  /\ ptr' = [ptr EXCEPT ![c] = p]
  /\ heap' = h
  /\ queue' = [queue EXCEPT ![stream[c]] = @ \o ks]
  /\ UNCHANGED <<stream, input, mem, awaited>>

(* It keeps its blocks, drops them, or takes what torch may: its own cache *)
(* or free memory. What it has is held, what it dropped is not.            *)
Types(p, h) ==
  /\ p \in [Tensors -> Blocks \cup {NoBlock}]
  /\ h \in [Blocks -> {"free", "held"} \cup Streams]

Takes(c, p, h) ==
  /\ \A n \in Tensors : p[n] # NoBlock =>
       p[n] = ptr[c][n] \/ heap[p[n]] \in {"free", stream[c]}
  /\ \A m, n \in Tensors : m # n /\ p[m] # NoBlock => p[m] # p[n]
  /\ \A b \in Blocks : h[b] = "held" <=>
       \/ \E n \in Tensors : p[n] = b
       \/ heap[b] = "held" /\ \A n \in Tensors : ptr[c][n] # b

(* A block a queued kernel uses does not leave the stream.                 *)
Unused(b) == \A s \in Streams : \A i \in DOMAIN queue[s] : b \notin Uses(queue[s][i])
Moves(c, h, b) ==
  \/ h[b] = heap[b]
  \/ /\ heap[b] \in {"free", stream[c]} \/ \E n \in Tensors : ptr[c][n] = b
     /\ h[b] \in {"held", stream[c]}
  \/ Unused(b)

(* The kernels use the call's own blocks,                                  *)
Mine(c, p, h, b) == (\E n \in Tensors : p[n] = b) \/ h[b] = stream[c]
Kept(c, p, h, ks) ==
  /\ \A b \in Blocks : Moves(c, h, b)
  /\ \A i \in 1 .. Len(ks) : \A b \in Uses(ks[i]) : Mine(c, p, h, b)

(* and what the i-th of them finds in block b is tensor n of the call:     *)
(* another of them wrote it, or it was there.                              *)
Supplies(c, ks, i, n, b) ==
  \/ /\ b = ptr[c][n] /\ b # NoBlock /\ Launched(pc[c], n)
     /\ \A l \in 1 .. i - 1 : ks[l].to # b
  \/ \E j \in 1 .. i - 1 :
       /\ ks[j].to = b /\ ks[j].call = c /\ ks[j].writes = n
       /\ \A l \in j + 1 .. i - 1 : ks[l].to # b

Supplied(c, x, p, ks) ==
  /\ \A i \in 1 .. Len(ks) :
       /\ ks[i].call = c /\ \E n \in Tensors : ks[i].to = p[n] \/ heap[ks[i].to] # "held"
       /\ \A r \in ks[i].reads : Supplies(c, ks, i, r[1], r[2])
  /\ \A n \in Tensors : p[n] # NoBlock /\ Launched(x, n) =>
       Supplies(c, ks, Len(ks) + 1, n, p[n])
-----------------------------------------------------------------------------
(* What the i-th kernel of a queue finds is not changed by those enqueued  *)
(* later, nor by one that writes another block.                            *)
LEMMA FindsMore ==
  ASSUME NEW q \in Seq(Kernels), NEW Q \in Seq(Kernels), NEW m, NEW b, NEW v,
         NEW i \in Nat, NEW k \in Nat, k <= Len(q) + 1, k <= i, k > 0,
         \A l \in 1 .. Len(q) : Q[l] = q[l],
         \A l \in k .. i - 1 : Q[l].to # b,
         Finds(q, m, b, k, v)
  PROVE  Finds(Q, m, b, i, v)
<1>1. PICK j \in 0 .. k - 1 :
        /\ v = IF j = 0 THEN m[b] ELSE Value(q[j].call, q[j].writes)
        /\ j # 0 => q[j].to = b
        /\ \A l \in j + 1 .. k - 1 : q[l].to # b
  BY DEF Finds
<1>2. Len(q) \in Nat
  BY LenProperties
<1>3. \A l \in j + 1 .. i - 1 : Q[l].to # b
  <2> SUFFICES ASSUME NEW l \in j + 1 .. i - 1 PROVE Q[l].to # b
    OBVIOUS
  <2>1. CASE l >= k
    BY <2>1
  <2>2. CASE l < k
    BY <1>1, <1>2, <2>2
  <2> QED
    BY <2>1, <2>2
<1>4. j # 0 => Q[j] = q[j]
  BY <1>2
<1>5. j \in 0 .. i - 1
  OBVIOUS
<1> QED
  BY <1>1, <1>3, <1>4, <1>5 DEF Finds

(* The kernel a stream runs finds what is in memory, and what the others   *)
(* find is what they would have found.                                     *)
LEMMA FindsNow ==
  ASSUME NEW q, NEW m, NEW b, NEW v, Finds(q, m, b, 1, v)
  PROVE  m[b] = v
BY DEF Finds

LEMMA FindsTail ==
  ASSUME NEW q \in Seq(Kernels), q # <<>>, NEW m, m = [b \in Blocks |-> m[b]],
         NEW b \in Blocks, NEW v, NEW i \in Nat, i > 1, i <= Len(q) + 1,
         Finds(q, m, b, i, v)
  PROVE  Finds(Tail(q), [m EXCEPT ![Head(q).to] = Value(Head(q).call, Head(q).writes)],
               b, i - 1, v)
<1> DEFINE T == Tail(q)
           M == [m EXCEPT ![Head(q).to] = Value(Head(q).call, Head(q).writes)]
<1> SUFFICES Finds(T, M, b, i - 1, v)
  OBVIOUS
<1>1. PICK j \in 0 .. i - 1 :
        /\ v = IF j = 0 THEN m[b] ELSE Value(q[j].call, q[j].writes)
        /\ j # 0 => q[j].to = b
        /\ \A l \in j + 1 .. i - 1 : q[l].to # b
  BY DEF Finds
<1>2. Len(q) \in Nat /\ Len(T) = Len(q) - 1 /\ Head(q) = q[1]
      /\ \A l \in 1 .. Len(q) - 1 : T[l] = q[l + 1]
  BY HeadTailProperties, LenProperties
<1> HIDE DEF T
<1>3. ASSUME NEW a \in Nat, a >= j
      PROVE  \A l \in a .. i - 1 - 1 : l > 0 => T[l].to # b
  <2> SUFFICES ASSUME NEW l \in a .. i - 1 - 1, l > 0 PROVE T[l].to # b
    OBVIOUS
  <2>1. l \in 1 .. Len(q) - 1 /\ l + 1 \in j + 1 .. i - 1
    BY <1>2, <1>3
  <2> QED
    BY <1>1, <1>2, <2>1
<1>4. CASE j > 1
  <2>1. j - 1 \in 1 .. Len(q) - 1 /\ (j - 1) + 1 = j
        /\ j - 1 \in 0 .. i - 1 - 1 /\ j - 1 # 0
    BY <1>2, <1>4
  <2>3. T[j - 1] = q[j]
    BY <1>2, <2>1
  <2>2. \A l \in (j - 1) + 1 .. i - 1 - 1 : T[l].to # b
    <3> SUFFICES ASSUME NEW l \in (j - 1) + 1 .. i - 1 - 1 PROVE T[l].to # b
      OBVIOUS
    <3>2. j \in Nat /\ l \in j .. i - 1 - 1 /\ l > 0
      BY <1>4
    <3> QED
      BY <1>3, <3>2
  <2>4. v = Value(T[j - 1].call, T[j - 1].writes) /\ T[j - 1].to = b
    BY <1>1, <1>4, <2>3
  <2> HIDE DEF M
  <2> QED
    BY <2>1, <2>2, <2>4 DEF Finds
<1>5. CASE j = 1
  <2>1. M[b] = v
    BY <1>1, <1>2, <1>5
  <2>2. \A l \in 0 + 1 .. i - 1 - 1 : T[l].to # b
    BY <1>3, <1>5
  <2>3. 0 \in 0 .. i - 1 - 1
    OBVIOUS
  <2> HIDE DEF M
  <2> QED
    BY <2>1, <2>2, <2>3 DEF Finds
<1>6. CASE j = 0
  <2>1. M[b] = m[b]
    BY <1>1, <1>2, <1>6
  <2>2. \A l \in 0 + 1 .. i - 1 - 1 : T[l].to # b
    BY <1>3, <1>6
  <2> HIDE DEF M
  <2> QED
    BY <1>1, <1>6, <2>1, <2>2 DEF Finds
<1> QED
  BY <1>4, <1>5, <1>6

LEMMA FindsElsewhere ==
  ASSUME NEW q, NEW m, NEW M, NEW b, NEW v, NEW i, M[b] = m[b], Finds(q, m, b, i, v)
  PROVE  Finds(q, M, b, i, v)
BY DEF Finds

(* A queue with the kernels ks at its end.                                 *)
LEMMA More ==
  ASSUME NEW q \in Seq(Kernels), NEW ks \in Seq(Kernels)
  PROVE  /\ q \o ks \in Seq(Kernels)
         /\ Len(q) \in Nat /\ Len(ks) \in Nat
         /\ Len(q \o ks) = Len(q) + Len(ks)
         /\ DOMAIN (q \o ks) = 1 .. Len(q) + Len(ks) /\ DOMAIN q = 1 .. Len(q)
         /\ \A i \in 1 .. Len(q) : (q \o ks)[i] = q[i]
         /\ \A i \in 1 .. Len(ks) : (q \o ks)[Len(q) + i] = ks[i]
<1>1. Len(q) \in Nat /\ Len(ks) \in Nat /\ DOMAIN q = 1 .. Len(q)
  BY LenProperties
<1>2. /\ q \o ks \in Seq(Kernels) /\ Len(q \o ks) = Len(q) + Len(ks)
      /\ \A i \in 1 .. Len(q) + Len(ks) : (q \o ks)[i] =
           IF i <= Len(q) THEN q[i] ELSE ks[i - Len(q)]
  BY ConcatProperties
<1>3. DOMAIN (q \o ks) = 1 .. Len(q \o ks)
  BY <1>2, LenProperties
<1>4. ASSUME NEW i \in 1 .. Len(ks) PROVE (q \o ks)[Len(q) + i] = ks[i]
  <2>1. Len(q) + i \in 1 .. Len(q) + Len(ks) /\ ~(Len(q) + i <= Len(q))
        /\ (Len(q) + i) - Len(q) = i
    BY <1>1
  <2> QED
    BY <1>2, <2>1
<1>5. ASSUME NEW i \in 1 .. Len(q) PROVE (q \o ks)[i] = q[i]
  BY <1>1, <1>2
<1> QED
  BY <1>1, <1>2, <1>3, <1>4, <1>5
-----------------------------------------------------------------------------
(* A step of a call leaves every block with at most one owner.             *)
LEMMA AfterStep ==
  ASSUME TypeOK, Shape, NEW c \in Calls, NEW x \in Points, NEW p, NEW h,
         NEW ks \in Seq(Kernels), Types(p, h), Step(c, x, p, h, ks)
  PROVE  /\ Shape'
         /\ pc' \in [Calls -> Points] /\ pc'[c] = x
         /\ \A d \in Calls : d # c => pc'[d] = pc[d] /\ ptr'[d] = ptr[d]
         /\ ptr' \in [Calls -> [Tensors -> Blocks \cup {NoBlock}]] /\ ptr'[c] = p
         /\ heap' = h /\ stream' = stream /\ mem' = mem
         /\ input' = input /\ awaited' = awaited
         /\ queue'[stream[c]] = queue[stream[c]] \o ks
         /\ \A s \in Streams : s # stream[c] => queue'[s] = queue[s]
<1>1. stream[c] \in Streams /\ queue[stream[c]] \in Seq(Kernels)
  BY DEF Shape
<1>2. queue[stream[c]] \o ks \in Seq(Kernels)
  BY <1>1, More
<1> DEFINE Q == queue[stream[c]] \o ks
<1>3. queue' = [queue EXCEPT ![stream[c]] = Q]
  BY DEF Step
<1>4. Q \in Seq(Kernels)
  BY <1>2
<1> HIDE DEF Q
<1>5. /\ queue' \in [Streams -> Seq(Kernels)] /\ queue'[stream[c]] = Q
      /\ \A s \in Streams : s # stream[c] => queue'[s] = queue[s]
  BY <1>1, <1>3, <1>4 DEF Shape
<1>6. Shape'
  BY <1>5 DEF Shape, Step
<1>7. /\ pc' \in [Calls -> Points] /\ pc'[c] = x
      /\ \A d \in Calls : d # c => pc'[d] = pc[d] /\ ptr'[d] = ptr[d]
  BY DEF Step, TypeOK
<1>8. ptr' \in [Calls -> [Tensors -> Blocks \cup {NoBlock}]] /\ ptr'[c] = p
  BY DEF Step, TypeOK, Types
<1> QED
  BY <1>5, <1>6, <1>7, <1>8 DEF Step, Q

LEMMA TypeStep ==
  ASSUME TypeOK, Shape, NEW c \in Calls, NEW x \in Points, NEW p, NEW h,
         NEW ks \in Seq(Kernels), Types(p, h), Takes(c, p, h), Step(c, x, p, h, ks)
  PROVE  TypeOK'
<1>1. /\ pc' \in [Calls -> Points]
      /\ \A d \in Calls : d # c => ptr'[d] = ptr[d]
      /\ ptr' \in [Calls -> [Tensors -> Blocks \cup {NoBlock}]] /\ ptr'[c] = p
      /\ heap' = h
  BY AfterStep
<1>2. /\ \A d, e \in Calls, m, n \in Tensors :
           <<d, m>> # <<e, n>> /\ ptr[d][m] # NoBlock => ptr[d][m] # ptr[e][n]
      /\ \A b \in Blocks :
           heap[b] = "held" <=> \E e \in Calls, n \in Tensors : ptr[e][n] = b
      /\ ptr \in [Calls -> [Tensors -> Blocks \cup {NoBlock}]]
  BY DEF TypeOK
<1>3. ASSUME NEW d \in Calls, d # c, NEW m \in Tensors, NEW n \in Tensors,
             ptr[d][m] # NoBlock
      PROVE  p[n] # ptr[d][m]
  <2> SUFFICES ASSUME p[n] = ptr[d][m] PROVE FALSE
    OBVIOUS
  <2>1. ptr[d][m] # ptr[c][n] /\ ptr[d][m] \in Blocks
    BY <1>2, <1>3
  <2>2. heap[ptr[d][m]] = "held"
    BY <1>2, <2>1
  <2>3. heap[p[n]] \in {"free", stream[c]}
    BY <1>3, <2>1 DEF Takes
  <2>4. stream[c] \in Streams
    BY DEF Shape
  <2> QED
    BY <2>2, <2>3, <2>4, AutogradAssumption
<1>4. ASSUME NEW d \in Calls, NEW e \in Calls, NEW m \in Tensors, NEW n \in Tensors,
             <<d, m>> # <<e, n>>, ptr'[d][m] # NoBlock
      PROVE  ptr'[d][m] # ptr'[e][n]
  <2>1. CASE d = c /\ e = c
    BY <1>1, <1>4, <2>1 DEF Takes
  <2>2. CASE d = c /\ e # c
    BY <1>1, <1>3, <1>4, <2>2
  <2>3. CASE d # c /\ e = c
    BY <1>1, <1>3, <1>4, <2>3
  <2>4. CASE d # c /\ e # c
    BY <1>1, <1>2, <1>4, <2>4
  <2> QED
    BY <2>1, <2>2, <2>3, <2>4
<1>5. ASSUME NEW b \in Blocks
      PROVE  heap'[b] = "held" <=> \E e \in Calls, n \in Tensors : ptr'[e][n] = b
  <2>1. b # NoBlock
    BY AutogradAssumption DEF NoBlock
  <2>2. ASSUME NEW e \in Calls, NEW n \in Tensors, ptr'[e][n] = b PROVE h[b] = "held"
    <3>1. CASE e = c
      BY <1>1, <2>2, <3>1 DEF Takes
    <3>2. CASE e # c
      <4>1. ptr[e][n] = b /\ heap[b] = "held"
        BY <1>1, <1>2, <2>2, <3>2
      <4>2. \A m \in Tensors : ptr[c][m] # b
        BY <1>2, <2>1, <3>2, <4>1
      <4> QED
        BY <4>1, <4>2 DEF Takes
    <3> QED
      BY <3>1, <3>2
  <2>3. ASSUME h[b] = "held" PROVE \E e \in Calls, n \in Tensors : ptr'[e][n] = b
    <3>1. CASE \E n \in Tensors : p[n] = b
      BY <1>1, <3>1
    <3>2. CASE heap[b] = "held" /\ \A n \in Tensors : ptr[c][n] # b
      <4>1. PICK e \in Calls, n \in Tensors : ptr[e][n] = b
        BY <1>2, <3>2
      <4>2. e # c
        BY <3>2, <4>1
      <4> QED
        BY <1>1, <4>1, <4>2
    <3> QED
      BY <2>3, <3>1, <3>2 DEF Takes
  <2> QED
    BY <1>1, <2>2, <2>3
<1>6. heap' \in [Blocks -> {"free", "held"} \cup Streams]
  BY <1>1 DEF Types
<1> QED
  BY <1>1, <1>4, <1>5, <1>6 DEF TypeOK

(* The kernels that were queued keep their memory, and those enqueued have *)
(* the call's.                                                             *)
LEMMA HomeKept ==
  ASSUME TypeOK, Shape, NEW c \in Calls, NEW p, NEW h, NEW s \in Streams, NEW b \in Blocks,
         Types(p, h), Takes(c, p, h), Moves(c, h, b), Home(ptr, heap, s, b), ~Unused(b)
  PROVE  /\ h[b] \in {"held", s}
         /\ \A n \in Tensors : p[n] = b => stream[c] = s
<1>1. stream[c] \in Streams /\ b # NoBlock
  BY AutogradAssumption DEF Shape, NoBlock
<1>2. heap[b] \in {"free", stream[c]} => stream[c] = s
  BY <1>1, AutogradAssumption DEF Home
<1>3. (\E n \in Tensors : ptr[c][n] = b) => stream[c] = s
  BY DEF Home
<1>4. h[b] \in {"held", s}
  BY <1>2, <1>3 DEF Moves, Home
<1>5. ASSUME NEW n \in Tensors, p[n] = b PROVE stream[c] = s
  BY <1>1, <1>2, <1>3, <1>5 DEF Takes
<1> QED
  BY <1>4, <1>5

LEMMA UsesBlocks ==
  ASSUME NEW k \in Kernels
  PROVE  Uses(k) \subseteq Blocks
<1>1. k.to \in Blocks /\ k.reads \subseteq Tensors \X Blocks
  BY DEF Kernels
<1> QED
  BY <1>1 DEF Uses

LEMMA HomesStep ==
  ASSUME TypeOK, Shape, Homes, NEW c \in Calls, NEW x \in Points, NEW p, NEW h,
         NEW ks \in Seq(Kernels), Types(p, h), Takes(c, p, h), Kept(c, p, h, ks),
         Step(c, x, p, h, ks)
  PROVE  Homes'
<1> DEFINE S == stream[c]
<1>1. /\ \A d \in Calls : d # c => ptr'[d] = ptr[d]
      /\ ptr'[c] = p /\ heap' = h /\ stream' = stream
      /\ queue'[S] = queue[S] \o ks
      /\ \A s \in Streams : s # S => queue'[s] = queue[s]
  BY AfterStep
<1>2. S \in Streams /\ queue \in [Streams -> Seq(Kernels)]
  BY DEF Shape
<1>3. TypeOK'
  BY TypeStep
<1>4. ASSUME NEW s \in Streams, NEW i \in DOMAIN queue[s], NEW b \in Uses(queue[s][i])
      PROVE  Home(ptr, heap, s, b)' /\ b \in Blocks
  <2>1. queue[s][i] \in Kernels
    BY <1>2, LenProperties, ElementOfSeq
  <2>2. b \in Blocks
    BY <2>1, UsesBlocks
  <2>3. Home(ptr, heap, s, b) /\ ~Unused(b) /\ Moves(c, h, b)
    BY <2>2 DEF Homes, Unused, Kept
  <2>4. h[b] \in {"held", s} /\ \A n \in Tensors : p[n] = b => stream[c] = s
    BY <2>2, <2>3, HomeKept
  <2>5. ASSUME NEW d \in Calls, NEW n \in Tensors, ptr'[d][n] = b PROVE stream'[d] = s
    <3>1. CASE d = c
      BY <1>1, <2>4, <2>5, <3>1
    <3>2. CASE d # c
      BY <1>1, <2>3, <2>5, <3>2 DEF Home
    <3> QED
      BY <3>1, <3>2
  <2> QED
    BY <1>1, <2>2, <2>4, <2>5 DEF Home
<1>5. ASSUME NEW i \in 1 .. Len(ks), NEW b \in Uses(ks[i])
      PROVE  Home(ptr, heap, S, b)'
  <2>1. ks[i] \in Kernels
    BY ElementOfSeq
  <2>2. b \in Blocks /\ Mine(c, p, h, b)
    BY <2>1, UsesBlocks DEF Kept
  <2>3. b # NoBlock /\ S # "held" /\ S # "free"
    BY <1>2, <2>2, AutogradAssumption DEF NoBlock
  <2>4. CASE \E n \in Tensors : p[n] = b
    <3>1. PICK n \in Tensors : ptr'[c][n] = b
      BY <1>1, <2>4
    <3>2. heap'[b] = "held"
      BY <1>3, <2>2, <3>1 DEF TypeOK
    <3>3. ASSUME NEW d \in Calls, NEW m \in Tensors, ptr'[d][m] = b PROVE d = c
      BY <1>3, <2>3, <3>1, <3>3 DEF TypeOK
    <3> QED
      BY <1>1, <3>2, <3>3 DEF Home
  <2>5. CASE h[b] = S
    <3>1. \A d \in Calls, m \in Tensors : ptr'[d][m] # b
      BY <1>1, <1>3, <2>2, <2>3, <2>5 DEF TypeOK
    <3> QED
      BY <1>1, <2>5, <3>1 DEF Home
  <2> QED
    BY <2>2, <2>4, <2>5 DEF Mine
<1>6. ASSUME NEW s \in Streams, NEW i \in DOMAIN queue'[s], NEW b \in Uses(queue'[s][i])
      PROVE  Home(ptr, heap, s, b)'
  <2>1. CASE s # S
    BY <1>1, <1>4, <1>6, <2>1
  <2>2. CASE s = S
    <3> DEFINE q == queue[S]
    <3>1. q \in Seq(Kernels) /\ queue'[s] = q \o ks
      BY <1>1, <1>2, <2>2
    <3> HIDE DEF q
    <3>2. /\ Len(q) \in Nat /\ Len(ks) \in Nat /\ DOMAIN q = 1 .. Len(q)
          /\ DOMAIN (q \o ks) = 1 .. Len(q) + Len(ks)
          /\ \A l \in 1 .. Len(q) : (q \o ks)[l] = q[l]
          /\ \A l \in 1 .. Len(ks) : (q \o ks)[Len(q) + l] = ks[l]
      BY <3>1, More
    <3>3. CASE i <= Len(q)
      <4>1. i \in DOMAIN q /\ queue'[s][i] = q[i]
        BY <1>6, <3>1, <3>2, <3>3
      <4> QED
        BY <1>2, <1>4, <1>6, <2>2, <4>1 DEF q
    <3>4. CASE i > Len(q)
      <4>1. i - Len(q) \in 1 .. Len(ks) /\ Len(q) + (i - Len(q)) = i
        BY <1>6, <3>1, <3>2, <3>4
      <4>2. queue'[s][i] = ks[i - Len(q)]
        BY <3>1, <3>2, <4>1
      <4> QED
        <5>1. Home(ptr, heap, S, b)'
          BY <1>5, <1>6, <4>1, <4>2
        <5> QED
          BY <1>1, <2>2, <5>1 DEF Home
    <3> QED
      BY <1>6, <3>1, <3>2, <3>3, <3>4
  <2> QED
    BY <2>1, <2>2
<1> QED
  BY <1>1, <1>6 DEF Homes

(* No kernel but its own uses the D of another call.                       *)
LEMMA WaitedStep ==
  ASSUME TypeOK, Shape, Waited, Owned, NEW c \in Calls, NEW x \in Points, x # "return",
         NEW p, NEW h, NEW ks \in Seq(Kernels), Types(p, h), Takes(c, p, h),
         Kept(c, p, h, ks), Step(c, x, p, h, ks)
  PROVE  Waited'
<1>1. /\ pc'[c] = x
      /\ \A d \in Calls : d # c => pc'[d] = pc[d] /\ ptr'[d] = ptr[d]
      /\ ptr'[c] = p /\ heap' = h /\ stream' = stream /\ awaited' = awaited
      /\ queue'[stream[c]] = queue[stream[c]] \o ks
      /\ \A s \in Streams : s # stream[c] => queue'[s] = queue[s]
  BY AfterStep
<1>2. TypeOK'
  BY TypeStep
<1>3. SUFFICES ASSUME NEW d \in Calls, pc'[d] = "return",
                      NEW i \in DOMAIN queue'[stream[d]],
                      ptr'[d]["D"] \in Uses(queue'[stream[d]][i])
               PROVE  i <= awaited[d][stream[d]]
  BY <1>1 DEF Waited
<1>4. d # c /\ ptr'[d] = ptr[d] /\ pc[d] = "return" /\ stream[d] \in Streams
  BY <1>1, <1>3 DEF Shape
<1>5. \A j \in DOMAIN queue[stream[d]] :
        ptr[d]["D"] \in Uses(queue[stream[d]][j]) => j <= awaited[d][stream[d]]
  BY <1>4 DEF Waited
<1>6. CASE stream[d] # stream[c]
  BY <1>1, <1>3, <1>4, <1>5, <1>6
<1>7. CASE stream[d] = stream[c]
  <2> DEFINE q == queue[stream[c]]
  <2>1. q \in Seq(Kernels) /\ queue'[stream[d]] = q \o ks /\ queue[stream[d]] = q
    BY <1>1, <1>7 DEF Shape
  <2> HIDE DEF q
  <2>2. /\ Len(q) \in Nat /\ Len(ks) \in Nat /\ DOMAIN q = 1 .. Len(q)
        /\ DOMAIN (q \o ks) = 1 .. Len(q) + Len(ks)
        /\ \A l \in 1 .. Len(q) : (q \o ks)[l] = q[l]
        /\ \A l \in 1 .. Len(ks) : (q \o ks)[Len(q) + l] = ks[l]
    BY <2>1, More
  <2>3. CASE i <= Len(q)
    <3>1. i \in DOMAIN q /\ queue'[stream[d]][i] = q[i]
      BY <1>3, <2>1, <2>2, <2>3
    <3>2. ptr[d]["D"] \in Uses(q[i])
      BY <1>3, <1>4, <3>1
    <3> QED
      BY <1>5, <2>1, <3>1, <3>2
  <2>4. CASE i > Len(q)
    <3>1. i - Len(q) \in 1 .. Len(ks) /\ Len(q) + (i - Len(q)) = i
      BY <1>3, <2>1, <2>2, <2>4
    <3>2. queue'[stream[d]][i] = ks[i - Len(q)]
      BY <2>1, <2>2, <3>1
    <3> DEFINE b == ptr[d]["D"]
    <3>3. b \in Uses(ks[i - Len(q)]) /\ ks[i - Len(q)] \in Kernels
      BY <1>3, <1>4, <3>1, <3>2, ElementOfSeq
    <3>4. b \in Blocks /\ Mine(c, p, h, b)
      BY <3>1, <3>3, UsesBlocks DEF Kept
    <3>5. b # NoBlock /\ stream[c] # "held"
      BY <3>4, AutogradAssumption DEF NoBlock, Shape
    <3>6. "D" \in Tensors /\ ptr'[d]["D"] = b
      BY <1>4 DEF Tensors
    <3>7. heap'[b] = "held"
      BY <1>2, <3>4, <3>6 DEF TypeOK
    <3>8. \A n \in Tensors : ptr'[c][n] # b
      BY <1>2, <1>4, <3>5, <3>6 DEF TypeOK
    <3> QED
      BY <1>1, <3>4, <3>5, <3>7, <3>8 DEF Mine
  <2> QED
    BY <1>3, <2>1, <2>2, <2>3, <2>4
<1> QED
  BY <1>6, <1>7

LEMMA OwnedStep ==
  ASSUME TypeOK, Shape, Owned, NEW c \in Calls, NEW x \in Points, NEW p, NEW h,
         NEW ks \in Seq(Kernels), Types(p, h), Step(c, x, p, h, ks),
         Holds(c, x, Owns(p))
  PROVE  Owned'
<1>1. /\ pc'[c] = x
      /\ \A d \in Calls : d # c => pc'[d] = pc[d] /\ ptr'[d] = ptr[d]
      /\ ptr'[c] = p /\ input' = input
  BY AfterStep
<1>2. SUFFICES ASSUME NEW d \in Calls, ~Ended(pc'[d]) PROVE Holds(d, pc[d], Owns(ptr[d]))'
  BY DEF Owned
<1>3. Holds(d, pc'[d], Owns(ptr'[d]))
  BY <1>1, <1>2 DEF Owned
<1> QED
  BY <1>1, <1>3 DEF Holds, Owns, Has, OffDevice, Copied, Strided

LEMMA SuppliesFinds ==
  ASSUME Shape, Filled, NEW c \in Calls, NEW ks \in Seq(Kernels), NEW q, q = queue[stream[c]],
         NEW i \in 1 .. Len(ks) + 1, NEW n \in Tensors, NEW b, Supplies(c, ks, i, n, b)
  PROVE  Finds(q \o ks, mem, b, Len(q) + i, Value(c, n))
<1>1. q \in Seq(Kernels)
  BY DEF Shape
<1>2. /\ Len(q) \in Nat /\ Len(ks) \in Nat /\ q \o ks \in Seq(Kernels)
      /\ \A l \in 1 .. Len(q) : (q \o ks)[l] = q[l]
      /\ \A l \in 1 .. Len(ks) : (q \o ks)[Len(q) + l] = ks[l]
  BY <1>1, More
<1> DEFINE Q == q \o ks
<1> SUFFICES Finds(Q, mem, b, Len(q) + i, Value(c, n))
  OBVIOUS
<1> HIDE DEF Q
<1>3. ASSUME NEW a \in Nat, \A l \in a + 1 .. i - 1 : ks[l].to # b
      PROVE  \A l \in Len(q) + a + 1 .. Len(q) + i - 1 : Q[l].to # b
  <2> SUFFICES ASSUME NEW l \in Len(q) + a + 1 .. Len(q) + i - 1 PROVE Q[l].to # b
    OBVIOUS
  <2>1. l - Len(q) \in a + 1 .. i - 1 /\ l - Len(q) \in 1 .. Len(ks)
        /\ Len(q) + (l - Len(q)) = l
    BY <1>2
  <2>2. Q[l] = ks[l - Len(q)]
    BY <1>2, <2>1 DEF Q
  <2> QED
    BY <1>3, <2>1, <2>2
<1>4. CASE /\ b = ptr[c][n] /\ b # NoBlock /\ Launched(pc[c], n)
           /\ \A l \in 1 .. i - 1 : ks[l].to # b
  <2>1. Finds(q, mem, b, Len(q) + 1, Value(c, n))
    BY <1>4 DEF Filled
  <2>2. \A l \in Len(q) + 1 .. Len(q) + i - 1 : Q[l].to # b
    <3>1. \A l \in 0 + 1 .. i - 1 : ks[l].to # b
      BY <1>4
    <3>2. \A l \in Len(q) + 0 + 1 .. Len(q) + i - 1 : Q[l].to # b
      BY <1>3, <3>1
    <3> QED
      BY <1>2, <3>2
  <2> DEFINE K == Len(q) + 1
             N == Len(q) + i
  <2>3. /\ Q \in Seq(Kernels) /\ \A l \in 1 .. Len(q) : Q[l] = q[l]
        /\ N \in Nat /\ K \in Nat /\ K <= N /\ K > 0 /\ K <= Len(q) + 1
    BY <1>2 DEF Q
  <2>4. Finds(q, mem, b, K, Value(c, n)) /\ \A l \in K .. N - 1 : Q[l].to # b
    BY <2>1, <2>2
  <2> SUFFICES Finds(Q, mem, b, N, Value(c, n))
    OBVIOUS
  <2> HIDE DEF K, N
  <2> QED
    BY <1>1, <2>3, <2>4, FindsMore
<1>5. ASSUME NEW j \in 1 .. i - 1,
             ks[j].to = b /\ ks[j].call = c /\ ks[j].writes = n,
             \A l \in j + 1 .. i - 1 : ks[l].to # b
      PROVE  Finds(Q, mem, b, Len(q) + i, Value(c, n))
  <2>1. j \in 1 .. Len(ks) /\ Len(q) + j \in 0 .. (Len(q) + i) - 1 /\ Len(q) + j # 0
    BY <1>2
  <2>2. Q[Len(q) + j] = ks[j]
    BY <1>2, <2>1 DEF Q
  <2>3. \A l \in (Len(q) + j) + 1 .. (Len(q) + i) - 1 : Q[l].to # b
    BY <1>3, <1>5, <2>1
  <2>4. Value(c, n) = Value(Q[Len(q) + j].call, Q[Len(q) + j].writes)
        /\ Q[Len(q) + j].to = b
    BY <1>5, <2>2
  <2> QED
    BY <2>1, <2>3, <2>4 DEF Finds
<1> QED
  BY <1>4, <1>5 DEF Supplies

(* Every kernel enqueued is fed, and so are those that were.               *)
LEMMA FedStep ==
  ASSUME TypeOK, Shape, \A s \in Streams : Fed(queue[s], mem), Filled,
         NEW c \in Calls, NEW x \in Points, NEW p, NEW h, NEW ks \in Seq(Kernels),
         Types(p, h), Supplied(c, x, p, ks), Step(c, x, p, h, ks)
  PROVE  \A s \in Streams : Fed(queue'[s], mem')
<1> DEFINE S == stream[c]
           q == queue[S]
<1>1. /\ mem' = mem /\ queue'[S] = q \o ks
      /\ \A s \in Streams : s # S => queue'[s] = queue[s]
  BY AfterStep
<1>2. S \in Streams /\ q \in Seq(Kernels) /\ Fed(q, mem)
  BY DEF Shape
<1>3. /\ Len(q) \in Nat /\ Len(ks) \in Nat /\ DOMAIN q = 1 .. Len(q)
      /\ q \o ks \in Seq(Kernels)
      /\ DOMAIN (q \o ks) = 1 .. Len(q) + Len(ks)
      /\ \A l \in 1 .. Len(q) : (q \o ks)[l] = q[l]
      /\ \A l \in 1 .. Len(ks) : (q \o ks)[Len(q) + l] = ks[l]
  BY <1>2, More
<1>4. ASSUME NEW i \in DOMAIN (q \o ks), NEW r \in (q \o ks)[i].reads
      PROVE  Finds(q \o ks, mem, r[2], i, Value((q \o ks)[i].call, r[1]))
  <2>1. CASE i <= Len(q)
    <3>1. i \in DOMAIN q /\ (q \o ks)[i] = q[i]
      BY <1>3, <2>1
    <3>2. Finds(q, mem, r[2], i, Value(q[i].call, r[1]))
      BY <1>2, <1>4, <3>1 DEF Fed
    <3>3. i \in Nat /\ i <= Len(q) + 1 /\ i <= i /\ i > 0
          /\ \A l \in i .. i - 1 : (q \o ks)[l].to # r[2]
      BY <1>3, <3>1
    <3> HIDE DEF q
    <3>4. Finds(q \o ks, mem, r[2], i, Value(q[i].call, r[1]))
      BY <1>2, <1>3, <3>2, <3>3, FindsMore
    <3> QED
      BY <3>1, <3>4
  <2>2. CASE i > Len(q)
    <3> DEFINE a == i - Len(q)
    <3>1. a \in 1 .. Len(ks) /\ a \in 1 .. Len(ks) + 1 /\ Len(q) + a = i
      <4> HIDE DEF q
      <4>1. i \in 1 .. Len(q) + Len(ks)
        BY <1>3
      <4> QED
        BY <1>3, <2>2, <4>1
    <3>2. (q \o ks)[i] = ks[a]
      BY <1>3, <3>1
    <3>3. ks[a].call = c /\ Supplies(c, ks, a, r[1], r[2])
      BY <1>4, <3>1, <3>2 DEF Supplied
    <3>4. r[1] \in Tensors
      <4>1. ks[a] \in Kernels
        BY <3>1, ElementOfSeq
      <4>2. ks[a].reads \subseteq Tensors \X Blocks
        BY <4>1 DEF Kernels
      <4> QED
        BY <1>4, <3>2, <4>2
    <3> HIDE DEF a
    <3>5. Finds(q \o ks, mem, r[2], Len(q) + a, Value(c, r[1]))
      BY <3>1, <3>3, <3>4, SuppliesFinds
    <3> QED
      BY <3>1, <3>2, <3>3, <3>5
  <2> QED
    BY <1>3, <1>4, <2>1, <2>2
<1>5. Fed(q \o ks, mem)
  BY <1>4 DEF Fed
<1>6. ASSUME NEW s \in Streams PROVE Fed(queue'[s], mem)
  <2>1. CASE s = S
    BY <1>1, <1>5, <2>1
  <2>2. CASE s # S
    BY <1>1, <2>2
  <2> QED
    BY <2>1, <2>2
<1> QED
  BY <1>1, <1>6

LEMMA FilledStep ==
  ASSUME TypeOK, Shape, Filled, NEW c \in Calls, NEW x \in Points, NEW p, NEW h,
         NEW ks \in Seq(Kernels), Types(p, h), Takes(c, p, h), Supplied(c, x, p, ks),
         Step(c, x, p, h, ks)
  PROVE  Filled'
<1> DEFINE S == stream[c]
           q == queue[S]
<1>1. /\ pc'[c] = x
      /\ \A d \in Calls : d # c => pc'[d] = pc[d] /\ ptr'[d] = ptr[d]
      /\ ptr'[c] = p /\ stream' = stream /\ mem' = mem /\ queue'[S] = q \o ks
      /\ \A s \in Streams : s # S => queue'[s] = queue[s]
  BY AfterStep
<1>2. S \in Streams /\ q \in Seq(Kernels)
  BY DEF Shape
<1>3. /\ Len(q) \in Nat /\ Len(ks) \in Nat
      /\ q \o ks \in Seq(Kernels) /\ Len(q \o ks) = Len(q) + Len(ks)
      /\ \A l \in 1 .. Len(q) : (q \o ks)[l] = q[l]
      /\ \A l \in 1 .. Len(ks) : (q \o ks)[Len(q) + l] = ks[l]
  BY <1>2, More
<1>4. SUFFICES ASSUME NEW d \in Calls, NEW n \in Tensors, ptr'[d][n] # NoBlock,
                      Launched(pc'[d], n)
               PROVE  Finds(queue'[stream[d]], mem, ptr'[d][n],
                            Len(queue'[stream[d]]) + 1, Value(d, n))
  BY <1>1 DEF Filled
<1>5. CASE d = c
  <2>1. Supplies(c, ks, Len(ks) + 1, n, p[n])
    BY <1>1, <1>4, <1>5 DEF Supplied
  <2>2. Len(ks) + 1 \in 1 .. Len(ks) + 1 /\ Len(q) + (Len(ks) + 1) = Len(q \o ks) + 1
    <3> HIDE DEF q
    <3> QED
      BY <1>3
  <2> HIDE DEF q
  <2>3. q = queue[stream[c]]
    BY DEF q
  <2>4. Finds(q \o ks, mem, p[n], Len(q) + (Len(ks) + 1), Value(c, n))
    BY <2>1, <2>2, <2>3, SuppliesFinds
  <2> QED
    BY <1>1, <1>5, <2>2, <2>4
<1>6. CASE d # c
  <2>1. Finds(queue[stream[d]], mem, ptr[d][n], Len(queue[stream[d]]) + 1, Value(d, n))
        /\ stream[d] \in Streams
    BY <1>1, <1>4, <1>6 DEF Filled, Shape
  <2>2. CASE stream[d] # S
    BY <1>1, <1>6, <2>1, <2>2
  <2>3. CASE stream[d] = S
    <3> DEFINE b == ptr[d][n]
    <3>1. b = ptr'[d][n] /\ b \in Blocks /\ heap'[b] = "held" /\ heap[b] = "held"
      <4>1. TypeOK'
        BY TypeStep
      <4>2. b = ptr'[d][n] /\ b \in Blocks
        BY <1>1, <1>4, <1>6 DEF TypeOK
      <4> QED
        BY <4>1, <4>2 DEF TypeOK
    <3>2. \A m \in Tensors : p[m] # b
      <4>1. TypeOK'
        BY TypeStep
      <4>2. \A m \in Tensors : ptr'[c][m] # b
        BY <1>4, <1>6, <3>1, <4>1 DEF TypeOK
      <4> QED
        BY <1>1, <4>2
    <3>3. ASSUME NEW l \in Len(q) + 1 .. (Len(q) + Len(ks) + 1) - 1
          PROVE  (q \o ks)[l].to # b
      <4>1. l - Len(q) \in 1 .. Len(ks) /\ Len(q) + (l - Len(q)) = l
        <5> HIDE DEF q
        <5> QED
          BY <1>3
      <4>2. (q \o ks)[l] = ks[l - Len(q)]
        BY <1>3, <4>1
      <4> QED
        BY <3>1, <3>2, <4>1, <4>2 DEF Supplied
    <3> HIDE DEF q, b
    <3>4. Len(q) + 1 \in Nat /\ Len(q) + 1 <= Len(q) + 1 /\ Len(q) + 1 > 0
          /\ Len(q) + Len(ks) + 1 \in Nat /\ Len(q) + 1 <= Len(q) + Len(ks) + 1
      BY <1>3
    <3>5. Finds(q, mem, b, Len(q) + 1, Value(d, n))
      BY <2>1, <2>3 DEF q, b
    <3>6. Finds(q \o ks, mem, b, Len(q) + Len(ks) + 1, Value(d, n))
      BY <1>2, <1>3, <3>3, <3>4, <3>5, FindsMore
    <3> QED
      BY <1>1, <1>3, <2>3, <3>1, <3>6
  <2> QED
    BY <2>2, <2>3
<1> QED
  BY <1>5, <1>6

LEMMA Stepped ==
  ASSUME Inductive, NEW c \in Calls, NEW x \in Points, x # "return",
         NEW p, NEW h, NEW ks \in Seq(Kernels),
         Types(p, h), Takes(c, p, h), Kept(c, p, h, ks), Supplied(c, x, p, ks),
         Step(c, x, p, h, ks), Holds(c, x, Owns(p))
  PROVE  Inductive'
<1>1. /\ TypeOK /\ Shape /\ Owned /\ Homes /\ Waited
      /\ (\A s \in Streams : Fed(queue[s], mem)) /\ Filled
  BY DEF Inductive, Memory
<1>2. TypeOK' /\ Shape'
  BY <1>1, TypeStep, AfterStep
<1>3. Owned'
  BY <1>1, OwnedStep
<1>4. Homes'
  BY <1>1, HomesStep
<1>5. Waited'
  BY <1>1, WaitedStep
<1>6. \A s \in Streams : Fed(queue'[s], mem')
  BY <1>1, FedStep
<1>7. Filled'
  BY <1>1, FilledStep
<1> QED
  BY <1>2, <1>3, <1>4, <1>5, <1>6, <1>7 DEF Inductive, Memory
-----------------------------------------------------------------------------
(* What the actions do to blocks: take one that torch or cudaMalloc has,   *)
Takeable(c, b) == b \in Blocks /\ heap[b] \in {"free", stream[c]}

LEMMA Lowests ==
  ASSUME NEW c \in Calls, NEW b
  PROVE  /\ b \in TorchBlocks(stream[c]) => Takeable(c, b)
         /\ b \in FreeBlocks => Takeable(c, b)
BY DEF TorchBlocks, FreeBlocks, Lowest, Takeable

LEMMA NotHeld ==
  ASSUME TypeOK, Shape, NEW c \in Calls, NEW b, Takeable(c, b)
  PROVE  /\ b \in Blocks /\ b # NoBlock /\ heap[b] # "held" /\ stream[c] # "held"
         /\ stream[c] # "free" /\ stream[c] \in Streams
         /\ \A d \in Calls, n \in Tensors : ptr[d][n] # b
<1>1. b \in Blocks /\ b # NoBlock /\ stream[c] \in Streams
  BY AutogradAssumption DEF Takeable, NoBlock, Shape
<1>2. heap[b] # "held" /\ stream[c] # "held" /\ stream[c] # "free"
  BY <1>1, AutogradAssumption DEF Takeable
<1> QED
  BY <1>1, <1>2 DEF TypeOK

(* for tensor n, dropping the tensors N to the cache of the stream,        *)
Taking(c, n, b, N, p, h) ==
  /\ n \in Tensors \ N /\ N \subseteq Tensors
  /\ ptr[c][n] = NoBlock /\ Takeable(c, b)
  /\ p \in [Tensors -> Blocks \cup {NoBlock}]
  /\ \A m \in Tensors : p[m] = IF m = n THEN b ELSE IF m \in N THEN NoBlock ELSE ptr[c][m]
  /\ h \in [Blocks -> {"free", "held"} \cup Streams]
  /\ \A a \in Blocks : h[a] = IF a = b THEN "held"
                              ELSE IF \E m \in N : ptr[c][m] = a THEN stream[c] ELSE heap[a]

LEMMA TakeOne ==
  ASSUME TypeOK, Shape, NEW c \in Calls, NEW n, NEW b, NEW N, NEW p, NEW h,
         Taking(c, n, b, N, p, h)
  PROVE  /\ Types(p, h) /\ Takes(c, p, h)
         /\ \A a \in Blocks : Moves(c, h, a)
<1>1. /\ n \in Tensors \ N /\ N \subseteq Tensors /\ ptr[c][n] = NoBlock /\ Takeable(c, b)
      /\ p \in [Tensors -> Blocks \cup {NoBlock}]
      /\ \A m \in Tensors : p[m] = IF m = n THEN b ELSE IF m \in N THEN NoBlock ELSE ptr[c][m]
      /\ h \in [Blocks -> {"free", "held"} \cup Streams]
      /\ \A a \in Blocks : h[a] = IF a = b THEN "held"
                                  ELSE IF \E m \in N : ptr[c][m] = a THEN stream[c] ELSE heap[a]
  BY DEF Taking
<1>2. /\ b \in Blocks /\ b # NoBlock /\ heap[b] # "held" /\ stream[c] # "held"
      /\ heap[b] \in {"free", stream[c]}
      /\ \A d \in Calls, m \in Tensors : ptr[d][m] # b
  BY <1>1, NotHeld DEF Takeable
<1>3. ASSUME NEW l \in Tensors, NEW m \in Tensors, l # m, p[l] # NoBlock
      PROVE  p[l] # p[m]
  <2>1. CASE l = n \/ m = n
    BY <1>1, <1>2, <1>3, <2>1
  <2>2. CASE l # n /\ m # n
    BY <1>1, <1>3, <2>2 DEF TypeOK
  <2> QED
    BY <2>1, <2>2
<1>4. ASSUME NEW a \in Blocks
      PROVE  h[a] = "held" <=>
               \/ \E m \in Tensors : p[m] = a
               \/ heap[a] = "held" /\ \A m \in Tensors : ptr[c][m] # a
  <2>0. a # NoBlock
    BY AutogradAssumption DEF NoBlock
  <2>1. CASE a = b
    BY <1>1, <2>1
  <2>2. CASE a # b /\ \E m \in N : ptr[c][m] = a
    <3>1. PICK m \in N : ptr[c][m] = a
      BY <2>2
    <3>2. h[a] # "held"
      BY <1>1, <1>2, <2>2
    <3>3. \A l \in Tensors : p[l] # a
      <4> SUFFICES ASSUME NEW l \in Tensors, p[l] = a PROVE FALSE
        OBVIOUS
      <4>1. l # m /\ m \in Tensors /\ ptr[c][l] = a
        BY <1>1, <2>0, <2>2
      <4> QED
        BY <2>0, <3>1, <4>1 DEF TypeOK
    <3> QED
      BY <1>1, <3>1, <3>2, <3>3
  <2>3. CASE a # b /\ \A m \in N : ptr[c][m] # a
    <3>1. h[a] = heap[a]
      BY <1>1, <2>3
    <3>2. (\E m \in Tensors : p[m] = a) <=> \E m \in Tensors : ptr[c][m] = a
      BY <1>1, <2>0, <2>3
    <3> QED
      BY <3>1, <3>2 DEF TypeOK
  <2> QED
    BY <2>1, <2>2, <2>3
<1>5. \A m \in Tensors : p[m] # NoBlock =>
        p[m] = ptr[c][m] \/ heap[p[m]] \in {"free", stream[c]}
  BY <1>1, <1>2
<1>6. ASSUME NEW a \in Blocks PROVE Moves(c, h, a)
  BY <1>1, <1>2 DEF Moves
<1>7. Types(p, h) /\ Takes(c, p, h)
  BY <1>1, <1>3, <1>4, <1>5 DEF Types, Takes
<1> QED
  BY <1>6, <1>7

(* or drop those of the tensors N: to the cache of the call's stream, or,  *)
(* when no kernel uses them, to the device.                                *)
Dropping(c, N, p, h) ==
  /\ N \subseteq Tensors /\ p \in [Tensors -> Blocks \cup {NoBlock}]
  /\ \A n \in Tensors : p[n] = IF n \in N THEN NoBlock ELSE ptr[c][n]
  /\ h \in [Blocks -> {"free", "held"} \cup Streams]
  /\ \A b \in Blocks : (\E n \in N : ptr[c][n] = b) =>
       h[b] = stream[c] \/ (h[b] = "free" /\ Unused(b))
  /\ \A b \in Blocks : (\A n \in N : ptr[c][n] # b) => h[b] = heap[b]

LEMMA DropMany ==
  ASSUME TypeOK, Shape, NEW c \in Calls, NEW N, NEW p, NEW h, Dropping(c, N, p, h)
  PROVE  Types(p, h) /\ Takes(c, p, h) /\ \A b \in Blocks : Moves(c, h, b)
<1>0. /\ N \subseteq Tensors /\ p \in [Tensors -> Blocks \cup {NoBlock}]
      /\ \A n \in Tensors : p[n] = IF n \in N THEN NoBlock ELSE ptr[c][n]
      /\ h \in [Blocks -> {"free", "held"} \cup Streams]
      /\ \A b \in Blocks : (\E n \in N : ptr[c][n] = b) =>
           h[b] = stream[c] \/ (h[b] = "free" /\ Unused(b))
      /\ \A b \in Blocks : (\A n \in N : ptr[c][n] # b) => h[b] = heap[b]
  BY DEF Dropping
<1>1. stream[c] # "held"
  BY AutogradAssumption DEF Shape
<1>2. ASSUME NEW m \in Tensors, NEW n \in Tensors, m # n, p[m] # NoBlock
      PROVE  p[m] # p[n]
  BY <1>0, <1>2 DEF TypeOK
<1>3. ASSUME NEW b \in Blocks
      PROVE  h[b] = "held" <=>
               \/ \E n \in Tensors : p[n] = b
               \/ heap[b] = "held" /\ \A n \in Tensors : ptr[c][n] # b
  <2>0. b # NoBlock
    BY AutogradAssumption DEF NoBlock
  <2>1. CASE \E n \in N : ptr[c][n] = b
    <3>1. h[b] # "held"
      BY <1>0, <1>1, <2>1
    <3>2. \A n \in Tensors : p[n] # b
      <4> SUFFICES ASSUME NEW m \in Tensors, p[m] = b PROVE FALSE
        OBVIOUS
      <4>1. PICK n \in N : ptr[c][n] = b
        BY <2>1
      <4>2. m \notin N /\ ptr[c][m] = b
        BY <1>0, <2>0
      <4>3. m # n /\ n \in Tensors
        BY <1>0, <4>2
      <4> QED
        BY <2>0, <4>1, <4>2, <4>3 DEF TypeOK
    <3>3. ~ \A n \in Tensors : ptr[c][n] # b
      BY <1>0, <2>1
    <3> QED
      BY <3>1, <3>2, <3>3
  <2>2. CASE \A n \in N : ptr[c][n] # b
    <3>1. h[b] = heap[b]
      BY <1>0, <2>2
    <3>2. (\E n \in Tensors : p[n] = b) <=> \E n \in Tensors : ptr[c][n] = b
      BY <1>0, <2>0, <2>2
    <3> QED
      BY <3>1, <3>2 DEF TypeOK
  <2> QED
    BY <2>1, <2>2
<1>4. \A n \in Tensors : p[n] # NoBlock => p[n] = ptr[c][n]
  BY <1>0
<1>5. Takes(c, p, h)
  BY <1>2, <1>3, <1>4 DEF Takes
<1> QED
  BY <1>0, <1>5 DEF Types, Moves

IsKernel(k, p, c, n, src) ==
  /\ k \in Kernels /\ k.call = c /\ k.to = p[n] /\ k.writes = n
  /\ \A r \in k.reads : r[1] \in src /\ r[2] = p[r[1]]
  /\ \A b \in Uses(k) : b = p[n] \/ \E m \in src : b = p[m]

LEMMA KernelIs ==
  ASSUME NEW c \in Calls, NEW n \in Tensors, NEW src, src \subseteq Tensors,
         NEW p, p[n] \in Blocks, \A m \in src : p[m] \in Blocks
  PROVE  IsKernel(Kernel(p, c, n, src), p, c, n, src)
<1> DEFINE k == Kernel(p, c, n, src)
<1>1. /\ k.call = c /\ k.to = p[n] /\ k.writes = n /\ k.reads = {<<m, p[m]>> : m \in src}
      /\ k = [call |-> c, writes |-> n, to |-> p[n], reads |-> {<<m, p[m]>> : m \in src}]
  BY DEF Kernel
<1> HIDE DEF k
<1>2. {<<m, p[m]>> : m \in src} \in SUBSET (Tensors \X Blocks)
  OBVIOUS
<1>3. k \in Kernels
  BY <1>1, <1>2 DEF Kernels
<1>4. \A r \in k.reads : r[1] \in src /\ r[2] = p[r[1]]
  BY <1>1
<1>5. \A b \in Uses(k) : b = p[n] \/ \E m \in src : b = p[m]
  BY <1>1, <1>4 DEF Uses
<1> QED
  BY <1>1, <1>3, <1>4, <1>5 DEF k, IsKernel

(* The queue's Append is the concatenation of Step.                        *)
LEMMA Appends ==
  ASSUME Shape, NEW c \in Calls, NEW k \in Kernels
  PROVE  Append(queue[stream[c]], k) = queue[stream[c]] \o <<k>>
<1>1. queue[stream[c]] \in Seq(Kernels)
  BY DEF Shape
<1> QED
  BY <1>1, AppendIsConcat

(* A step that takes a block for tensor n, enqueues the kernel that        *)
(* computes it from the tensors src, and drops the tensors N.              *)
Computes(c, n, src, N, x) ==
  /\ x \in Points \ {"return"}
  /\ n \in Tensors \ N /\ N \subseteq Tensors /\ ptr[c][n] = NoBlock
  /\ src \subseteq Tensors
  /\ \A m \in src : m # n /\ ptr[c][m] # NoBlock /\ Launched(pc[c], m)
  /\ \A m \in Tensors : m # n /\ Launched(x, m) => Launched(pc[c], m)
  /\ Holds(c, x, (Owns(ptr[c]) \ N) \cup {n})

LEMMA ComputeStep ==
  ASSUME Inductive, NEW c \in Calls, NEW n, NEW src, NEW N, NEW x,
         Computes(c, n, src, N, x), Compute(c, stream[c], n, src, N, x)
  PROVE  Inductive'
<1>0. /\ x \in Points /\ x # "return"
      /\ n \in Tensors \ N /\ N \subseteq Tensors /\ ptr[c][n] = NoBlock
      /\ src \subseteq Tensors
      /\ \A m \in src : m # n /\ ptr[c][m] # NoBlock /\ Launched(pc[c], m)
      /\ \A m \in Tensors : m # n /\ Launched(x, m) => Launched(pc[c], m)
      /\ Holds(c, x, (Owns(ptr[c]) \ N) \cup {n})
  BY DEF Computes
<1>1. TypeOK /\ Shape
  BY DEF Inductive, Memory
<1>a. PICK b \in TorchBlocks(stream[c]) :
        LET p == [ptr[c] EXCEPT ![n] = b]
        IN  /\ ptr' = [ptr EXCEPT ![c] = [m \in Tensors |-> IF m \in N THEN NoBlock ELSE p[m]]]
            /\ heap' = [Release(c, N) EXCEPT ![b] = "held"]
            /\ queue' = [queue EXCEPT ![stream[c]] = Append(@, Kernel(p, c, n, src))]
            /\ pc' = [pc EXCEPT ![c] = x]
            /\ UNCHANGED <<stream, input, mem, awaited>>
  BY DEF Compute
<1>b. PICK p : p = [ptr[c] EXCEPT ![n] = b]
  OBVIOUS
<1>c. PICK q : q = [m \in Tensors |-> IF m \in N THEN NoBlock ELSE p[m]]
  OBVIOUS
<1>d. PICK h : h = [Release(c, N) EXCEPT ![b] = "held"]
  OBVIOUS
<1>e. PICK k : k = Kernel(p, c, n, src)
  OBVIOUS
<1>f. /\ ptr' = [ptr EXCEPT ![c] = q] /\ heap' = h
      /\ queue' = [queue EXCEPT ![stream[c]] = Append(@, k)]
      /\ pc' = [pc EXCEPT ![c] = x]
      /\ UNCHANGED <<stream, input, mem, awaited>>
  BY <1>a, <1>b, <1>c, <1>d, <1>e
<1>2. /\ Takeable(c, b) /\ b \in Blocks /\ b # NoBlock /\ heap[b] # "held"
      /\ \A d \in Calls, m \in Tensors : ptr[d][m] # b
  BY <1>1, Lowests, NotHeld
<1>3. /\ p \in [Tensors -> Blocks \cup {NoBlock}] /\ p[n] = b
      /\ \A m \in Tensors \ {n} : p[m] = ptr[c][m]
  BY <1>0, <1>1, <1>2, <1>b DEF TypeOK
<1>4. /\ q \in [Tensors -> Blocks \cup {NoBlock}] /\ q[n] = b
      /\ \A m \in Tensors : q[m] = IF m = n THEN b ELSE IF m \in N THEN NoBlock ELSE ptr[c][m]
  BY <1>0, <1>3, <1>c DEF NoBlock
<1>5. Taking(c, n, b, N, q, h)
  <2>1. /\ Release(c, N) \in [Blocks -> {"free", "held"} \cup Streams]
        /\ \A a \in Blocks : Release(c, N)[a] =
             IF \E m \in N : ptr[c][m] = a THEN stream[c] ELSE heap[a]
    BY <1>1, AutogradAssumption DEF Release, NoBlock, TypeOK, Shape
  <2> QED
    BY <1>0, <1>2, <1>4, <1>d, <2>1 DEF Taking
<1>6. Types(q, h) /\ Takes(c, q, h) /\ \A a \in Blocks : Moves(c, h, a)
  BY <1>1, <1>5, TakeOne
<1>7. p[n] \in Blocks /\ \A m \in src : p[m] \in Blocks
  BY <1>0, <1>1, <1>2, <1>3 DEF TypeOK
<1>8. /\ k \in Kernels /\ k.call = c /\ k.to = b /\ k.writes = n
      /\ \A r \in k.reads : r[1] \in src /\ r[2] = p[r[1]]
      /\ \A a \in Uses(k) : a = b \/ \E m \in src : a = ptr[c][m]
  <2>1. IsKernel(k, p, c, n, src)
    BY <1>0, <1>7, <1>e, KernelIs
  <2> QED
    BY <1>0, <1>3, <2>1 DEF IsKernel
<1>9. PICK ks : ks = <<k>>
  OBVIOUS
<1>10. ks \in Seq(Kernels) /\ Len(ks) = 1 /\ ks[1] = k
  BY <1>8, <1>9
<1>11. Step(c, x, q, h, ks)
  <2>1. Append(queue[stream[c]], k) = queue[stream[c]] \o ks
    BY <1>1, <1>8, <1>9, Appends
  <2> QED
    BY <1>f, <2>1 DEF Step
<1>12. Kept(c, q, h, ks)
  <2>1. ASSUME NEW a \in Uses(k) PROVE Mine(c, q, h, a)
    <3>1. CASE a = b
      BY <1>0, <1>4, <3>1 DEF Mine
    <3>2. CASE a # b
      <4>1. PICK m \in src : a = ptr[c][m]
        BY <1>8, <2>1, <3>2
      <4>2. a \in Blocks /\ m \in Tensors /\ m # n
        BY <1>0, <1>1, <4>1 DEF TypeOK
      <4>3. CASE m \in N
        BY <1>5, <3>2, <4>1, <4>2, <4>3 DEF Taking, Mine
      <4>4. CASE m \notin N
        BY <1>4, <4>1, <4>2, <4>4 DEF Mine
      <4> QED
        BY <4>3, <4>4
    <3> QED
      BY <3>1, <3>2
  <2>2. \A i \in 1 .. Len(ks) : ks[i] = k
    BY <1>10
  <2> QED
    BY <1>6, <2>1, <2>2 DEF Kept
<1>13. Supplied(c, x, q, ks)
  <2>1. ASSUME NEW r \in k.reads PROVE Supplies(c, ks, 1, r[1], r[2])
    <3>1. r[1] \in src /\ r[2] = ptr[c][r[1]]
      BY <1>0, <1>3, <1>8, <2>1
    <3> QED
      BY <1>0, <3>1 DEF Supplies
  <2>2. ASSUME NEW m \in Tensors, q[m] # NoBlock, Launched(x, m)
        PROVE  Supplies(c, ks, 2, m, q[m])
    <3>1. CASE m = n
      BY <1>4, <1>8, <1>10, <3>1 DEF Supplies
    <3>2. CASE m # n
      <4>1. q[m] = ptr[c][m] /\ Launched(pc[c], m) /\ q[m] # b
        BY <1>0, <1>2, <1>4, <2>2, <3>2
      <4>2. \A l \in 1 .. 2 - 1 : ks[l].to # q[m]
        BY <1>8, <1>10, <4>1
      <4> QED
        BY <2>2, <4>1, <4>2 DEF Supplies
    <3> QED
      BY <3>1, <3>2
  <2>3. \E m \in Tensors : k.to = q[m] \/ heap[k.to] # "held"
    BY <1>0, <1>4, <1>8
  <2>4. \A i \in 1 .. Len(ks) : i = 1
    BY <1>10
  <2>5. Len(ks) + 1 = 2
    BY <1>10
  <2> QED
    BY <1>8, <1>10, <2>1, <2>2, <2>3, <2>4, <2>5 DEF Supplied
<1>14. Owns(q) = (Owns(ptr[c]) \ N) \cup {n}
  BY <1>0, <1>2, <1>4 DEF Owns
<1>15. Holds(c, x, Owns(q))
  BY <1>0, <1>14
<1> QED
  BY <1>0, <1>6, <1>10, <1>11, <1>12, <1>13, <1>15, Stepped
-----------------------------------------------------------------------------
(* The actions.                                                            *)
LEMMA OwnsNow ==
  ASSUME Inductive, NEW c \in Calls, ~Ended(pc[c])
  PROVE  /\ Holds(c, pc[c], Owns(ptr[c]))
         /\ TypeOK /\ Shape
BY DEF Inductive, Memory, Owned

LEMMA InputStep ==
  ASSUME Inductive, NEW c \in Calls, Input(c)
  PROVE  Inductive'
<1>1. /\ Compute(c, stream[c], "qkv", {}, {}, IF Strided(c) THEN "copy" ELSE "forward")
      /\ pc[c] = "input" /\ ~OffDevice(c)
  BY DEF Input, OffDevice
<1>2. Holds(c, "input", Owns(ptr[c]))
  BY <1>1, OwnsNow DEF Ended
<1>3. Owns(ptr[c]) = {}
  BY <1>2 DEF Holds, Has, Owns, Backwards
<1>4. PICK x : x = IF Strided(c) THEN "copy" ELSE "forward"
  OBVIOUS
<1>5. Holds(c, x, {"qkv"})
  BY <1>1, <1>4 DEF Holds, Has, Copied
<1>6. Computes(c, "qkv", {}, {}, x)
  BY <1>3, <1>4, <1>5 DEF Computes, Owns, Points, Tensors, Launched
<1> QED
  BY <1>1, <1>4, <1>6, ComputeStep

(* The copies of strided tensors; their kernels read what the call has.    *)
LEMMA ContiguousStep ==
  ASSUME Inductive, NEW c \in Calls, Contiguous(c)
  PROVE  Inductive'
<1>1. CASE pc[c] = "copy" /\ Compute(c, stream[c], "copy", {"qkv"}, {}, "forward")
  <2>1. Holds(c, "copy", Owns(ptr[c]))
    BY <1>1, OwnsNow DEF Ended
  <2>2. Owns(ptr[c]) = {"qkv"} /\ Strided(c)
    BY <2>1 DEF Holds, Has, Owns, Backwards, Tensors
  <2>3. Holds(c, "forward", {"qkv", "copy"})
    BY <2>2 DEF Holds, Has, Copied, Strided, OffDevice
  <2>4. (Owns(ptr[c]) \ {}) \cup {"copy"} = {"qkv", "copy"}
    BY <2>2
  <2>5. Computes(c, "copy", {"qkv"}, {}, "forward")
    BY <1>1, <2>2, <2>3, <2>4 DEF Computes, Owns, Points, Tensors, Launched
  <2> QED
    BY <1>1, <2>5, ComputeStep
<1>2. CASE pc[c] = "gradient" /\ Compute(c, stream[c], "dO", {"grad_out"}, {}, Retrace(c))
  <2>1. Holds(c, "gradient", Owns(ptr[c]))
    BY <1>2, OwnsNow DEF Ended
  <2>2. Owns(ptr[c]) = {"qkv", "o", "grad_out"} /\ input[c] # "cpu"
    BY <2>1 DEF Holds, Has, Owns, Tensors
  <2>3. Holds(c, Retrace(c), {"qkv", "o", "grad_out", "dO"})
    BY <2>2 DEF Holds, Has, Copied, Retrace, Backwards, Saved
  <2>4. (Owns(ptr[c]) \ {}) \cup {"dO"} = {"qkv", "o", "grad_out", "dO"}
    BY <2>2
  <2>5. Computes(c, "dO", {"grad_out"}, {}, Retrace(c))
    BY <1>2, <2>2, <2>3, <2>4 DEF Computes, Owns, Points, Tensors, Launched, Retrace
  <2> QED
    BY <1>2, <2>5, ComputeStep
<1>3. CASE pc[c] = "recopy" /\ Compute(c, stream[c], "copy", {"qkv"}, {}, "backward")
  <2>1. Holds(c, "recopy", Owns(ptr[c]))
    BY <1>3, OwnsNow DEF Ended
  <2>2. Owns(ptr[c]) \ {"grad_out"} = {"qkv", "o", "dO"} /\ Strided(c)
    BY <2>1 DEF Holds, Has, Owns, Saved, Tensors
  <2>3. Holds(c, "backward", Owns(ptr[c]) \cup {"copy"})
    BY <2>1, <2>2 DEF Holds, Has, Copied, Strided, Saved, Backwards
  <2>4. (Owns(ptr[c]) \ {}) \cup {"copy"} = Owns(ptr[c]) \cup {"copy"}
    OBVIOUS
  <2>5. Computes(c, "copy", {"qkv"}, {}, "backward")
    <3>1. "copy" \notin Owns(ptr[c]) /\ "qkv" \in Owns(ptr[c])
      BY <2>2
    <3> QED
      BY <1>3, <2>3, <2>4, <3>1 DEF Computes, Owns, Points, Tensors, Launched
  <2> QED
    BY <1>3, <2>5, ComputeStep
<1> QED
  BY <1>1, <1>2, <1>3 DEF Contiguous

(* The binding's forward reads the copy if there is one, and drops it.     *)
LEMMA ForwardStep ==
  ASSUME Inductive, NEW c \in Calls, Forward(c)
  PROVE  Inductive'
<1>1. /\ Compute(c, stream[c], "o", {Source(c)}, {"copy"}, "loss")
      /\ pc[c] = "forward" /\ input[c] \in {"dense", "strided"}
  BY DEF Forward, KernelStream
<1>2. Holds(c, "forward", Owns(ptr[c]))
  BY <1>1, OwnsNow DEF Ended
<1>3. Owns(ptr[c]) = {"qkv", Source(c)}
  BY <1>1, <1>2 DEF Holds, Has, Owns, Copied, Source, Strided, OffDevice, Backwards, Tensors
<1>4. (Owns(ptr[c]) \ {"copy"}) \cup {"o"} = {"qkv", "o"}
  BY <1>3 DEF Source
<1>5. Holds(c, "loss", {"qkv", "o"})
  BY <1>1 DEF Holds, Has
<1>6. Computes(c, "o", {Source(c)}, {"copy"}, "loss")
  <2>1. "o" \notin Owns(ptr[c]) /\ Source(c) \in Owns(ptr[c]) /\ Source(c) \in {"qkv", "copy"}
    BY <1>3 DEF Source
  <2> QED
    BY <1>1, <1>4, <1>5, <2>1 DEF Computes, Owns, Points, Tensors, Launched
<1> QED
  BY <1>1, <1>6, ComputeStep

LEMMA LossStep ==
  ASSUME Inductive, NEW c \in Calls, Loss(c)
  PROVE  Inductive'
<1>1. PICK n, x : /\ (n = "dO" /\ x = Retrace(c)) \/ (n = "grad_out" /\ x = "gradient")
                  /\ Compute(c, stream[c], n, {"o"}, {}, x)
  BY DEF Loss
<1>2. pc[c] = "loss" /\ Holds(c, "loss", Owns(ptr[c]))
  BY OwnsNow DEF Loss, Ended
<1>3. Owns(ptr[c]) = {"qkv", "o"} /\ input[c] # "cpu"
  BY <1>2 DEF Holds, Has, Owns, Backwards, Tensors
<1>4. Holds(c, x, {"qkv", "o", n})
  <2>1. CASE n = "dO" /\ x = Retrace(c)
    BY <1>3, <2>1 DEF Holds, Has, Copied, Retrace, Saved
  <2>2. CASE n = "grad_out" /\ x = "gradient"
    BY <1>3, <2>2 DEF Holds, Has, Backwards
  <2> QED
    BY <1>1, <2>1, <2>2
<1>5. (Owns(ptr[c]) \ {}) \cup {n} = {"qkv", "o", n}
  BY <1>3
<1>6. Computes(c, n, {"o"}, {}, x)
  <2>1. /\ n \notin Owns(ptr[c]) /\ "o" \in Owns(ptr[c]) /\ n # "o"
        /\ n \in Tensors /\ x \in Points \ {"return"} /\ x \notin {"free", "use"}
    BY <1>1, <1>3 DEF Tensors, Points, Retrace
  <2> QED
    BY <1>2, <1>4, <1>5, <2>1 DEF Computes, Owns, Launched, Tensors
<1> QED
  BY <1>1, <1>6, ComputeStep

(* The binding's backward takes memory for the gradients.                  *)
LEMMA BackwardStep ==
  ASSUME Inductive, NEW c \in Calls, Backward(c)
  PROVE  Inductive'
<1>1. /\ TypeOK /\ Shape /\ pc[c] = "backward" /\ input[c] # "cpu"
      /\ Holds(c, "backward", Owns(ptr[c]))
  BY OwnsNow DEF Backward, Ended
<1>2. PICK b \in TorchBlocks(stream[c]) :
        ptr' = [ptr EXCEPT ![c]["grads"] = b] /\ heap' = Hold(b)
  BY DEF Backward
<1>3. PICK p : p = [ptr[c] EXCEPT !["grads"] = b]
  OBVIOUS
<1>4. PICK h : h = Hold(b)
  OBVIOUS
<1>5. Takeable(c, b) /\ b \in Blocks /\ b # NoBlock
  BY <1>1, Lowests, NotHeld
<1>6. /\ p \in [Tensors -> Blocks \cup {NoBlock}]
      /\ \A n \in Tensors : p[n] = IF n = "grads" THEN b ELSE ptr[c][n]
  BY <1>1, <1>3, <1>5 DEF TypeOK
<1>7. "grads" \in Tensors /\ ptr[c]["grads"] = NoBlock
  BY <1>1 DEF Tensors, Holds, Has, Owns, Saved, Copied
<1>8. Types(p, h) /\ Takes(c, p, h) /\ \A a \in Blocks : Moves(c, h, a)
  <2>1. h \in [Blocks -> {"free", "held"} \cup Streams]
        /\ \A a \in Blocks : h[a] = IF a = b THEN "held" ELSE heap[a]
    BY <1>1, <1>4, <1>5 DEF Hold, TypeOK
  <2>2. Taking(c, "grads", b, {}, p, h)
    BY <1>5, <1>6, <1>7, <2>1 DEF Taking
  <2> QED
    BY <1>1, <2>2, TakeOne
<1>9. PICK ks : ks = <<>>
  OBVIOUS
<1>10. ks \in Seq(Kernels) /\ Len(ks) = 0
  BY <1>9
<1>11. Step(c, "launch", p, h, ks)
  <2>1. queue[stream[c]] \o ks = queue[stream[c]]
    BY <1>1, <1>9, ConcatEmptySeq DEF Shape
  <2>2. queue = [queue EXCEPT ![stream[c]] = queue[stream[c]]]
    BY <1>1 DEF Shape
  <2> QED
    BY <1>2, <1>3, <1>4, <2>1, <2>2 DEF Step, Backward
<1>12. Kept(c, p, h, ks)
  BY <1>8, <1>10 DEF Kept
<1>13. Supplied(c, "launch", p, ks)
  <2>1. ASSUME NEW n \in Tensors, p[n] # NoBlock, Launched("launch", n)
        PROVE  Supplies(c, ks, 1, n, p[n])
    BY <1>6, <2>1 DEF Supplies, Launched
  <2> QED
    BY <1>10, <2>1 DEF Supplied
<1>14. Owns(p) = Owns(ptr[c]) \cup {"grads"}
  BY <1>5, <1>6, <1>7 DEF Owns
<1>15. Holds(c, "launch", Owns(p))
  BY <1>1, <1>14 DEF Holds, Has, Backwards, Saved, Copied
<1> QED
  BY <1>8, <1>10, <1>11, <1>12, <1>13, <1>15, Stepped DEF Points

(* A step that only drops the tensors N.                                   *)
DropStep(c, x, p, h) ==
  /\ pc' = [pc EXCEPT ![c] = x] /\ ptr' = [ptr EXCEPT ![c] = p] /\ heap' = h
  /\ UNCHANGED <<stream, input, mem, queue, awaited>>

LEMMA Drops ==
  ASSUME Inductive, NEW c \in Calls, NEW x \in Points \ {"return"}, NEW N, NEW p, NEW h,
         Dropping(c, N, p, h), DropStep(c, x, p, h), Holds(c, x, Owns(p)),
         \A n \in Tensors : p[n] # NoBlock /\ Launched(x, n) => Launched(pc[c], n)
  PROVE  Inductive'
<1>1. TypeOK /\ Shape
  BY DEF Inductive, Memory
<1>2. Types(p, h) /\ Takes(c, p, h) /\ \A a \in Blocks : Moves(c, h, a)
  BY <1>1, DropMany
<1> DEFINE ks == <<>>
<1>3. ks \in Seq(Kernels) /\ Len(ks) = 0
  OBVIOUS
<1>4. Step(c, x, p, h, ks)
  <2>1. queue[stream[c]] \o ks = queue[stream[c]]
    <3>1. queue[stream[c]] \in Seq(Kernels)
      BY <1>1 DEF Shape
    <3> QED
      BY <3>1, ConcatEmptySeq
  <2>2. queue = [queue EXCEPT ![stream[c]] = queue[stream[c]]]
    BY <1>1 DEF Shape
  <2> QED
    BY <2>1, <2>2 DEF Step, DropStep
<1> HIDE DEF ks
<1>5. Kept(c, p, h, ks)
  BY <1>2, <1>3 DEF Kept
<1>6. Supplied(c, x, p, ks)
  <2>1. ASSUME NEW n \in Tensors, p[n] # NoBlock, Launched(x, n)
        PROVE  Supplies(c, ks, 1, n, p[n])
    <3>1. p[n] = ptr[c][n] /\ Launched(pc[c], n)
      BY <2>1 DEF Dropping
    <3> QED
      BY <2>1, <3>1 DEF Supplies
  <2> QED
    BY <1>3, <2>1 DEF Supplied
<1> QED
  BY <1>2, <1>3, <1>4, <1>5, <1>6, Stepped

(* When all that a call had is released, it is at an end.                  *)
LEMMA Releases ==
  ASSUME Inductive, NEW c \in Calls, NEW x \in {"raised", "done"}, NEW N, NEW p,
         N \subseteq Tensors, Owns(ptr[c]) \subseteq N,
         p \in [Tensors -> Blocks \cup {NoBlock}], \A n \in Tensors : p[n] = NoBlock,
         DropStep(c, x, p, Release(c, N))
  PROVE  Inductive'
<1>1. TypeOK /\ Shape
  BY DEF Inductive, Memory
<1>2. \A n \in Tensors \ N : ptr[c][n] = NoBlock
  BY DEF Owns
<1>3. PICK h : h = Release(c, N)
  OBVIOUS
<1>4. Dropping(c, N, p, h)
  <2>1. h \in [Blocks -> {"free", "held"} \cup Streams]
    BY <1>1, <1>3 DEF Release, TypeOK, Shape
  <2>2. \A b \in Blocks : h[b] = IF \E n \in N : ptr[c][n] = b THEN stream[c] ELSE heap[b]
    BY <1>3, AutogradAssumption DEF Release, NoBlock
  <2> QED
    BY <1>2, <2>1, <2>2 DEF Dropping
<1>5. Holds(c, x, Owns(p))
  <2>1. Owns(p) = {}
    BY DEF Owns
  <2> QED
    BY <2>1 DEF Holds, Has
<1> QED
  BY <1>3, <1>4, <1>5, Drops DEF Points

LEMMA RefuseStep ==
  ASSUME Inductive, NEW c \in Calls, Refuse(c)
  PROVE  Inductive'
<1>1. /\ TypeOK /\ Shape /\ pc[c] = "forward" /\ input[c] = "unsupported"
      /\ Holds(c, "forward", Owns(ptr[c]))
  BY OwnsNow DEF Refuse, Ended
<1>2. Owns(ptr[c]) \subseteq {"qkv"}
  BY <1>1 DEF Holds, Has, Owns, Backwards, Copied, Strided
<1>3. PICK p : p = [ptr[c] EXCEPT !["qkv"] = NoBlock]
  OBVIOUS
<1>4. p \in [Tensors -> Blocks \cup {NoBlock}] /\ \A n \in Tensors : p[n] = NoBlock
  <2>1. \A n \in Tensors : n # "qkv" => ptr[c][n] = NoBlock
    BY <1>2 DEF Owns
  <2>2. ptr[c] \in [Tensors -> Blocks \cup {NoBlock}]
    BY <1>1 DEF TypeOK
  <2> QED
    BY <1>3, <2>1, <2>2
<1>5. DropStep(c, "raised", p, Release(c, {"qkv"}))
  BY <1>3 DEF Refuse, DropStep
<1> QED
  BY <1>2, <1>4, <1>5, Releases DEF Tensors

LEMMA UseStep ==
  ASSUME Inductive, NEW c \in Calls, Use(c)
  PROVE  Inductive'
<1>1. TypeOK /\ Shape /\ pc[c] = "use" /\ Holds(c, "use", Owns(ptr[c]))
  BY OwnsNow DEF Use, Ended
<1>2. Owns(ptr[c]) \subseteq {"grads"}
  BY <1>1 DEF Holds, Has, Owns, Backwards
<1>3. PICK p : p = [ptr[c] EXCEPT !["grads"] = NoBlock]
  OBVIOUS
<1>4. p \in [Tensors -> Blocks \cup {NoBlock}] /\ \A n \in Tensors : p[n] = NoBlock
  <2>1. \A n \in Tensors : n # "grads" => ptr[c][n] = NoBlock
    BY <1>2 DEF Owns
  <2>2. ptr[c] \in [Tensors -> Blocks \cup {NoBlock}]
    BY <1>1 DEF TypeOK
  <2> QED
    BY <1>3, <2>1, <2>2
<1>5. DropStep(c, "done", p, Release(c, {"grads"}))
  BY <1>3 DEF Use, DropStep
<1> QED
  BY <1>2, <1>4, <1>5, Releases DEF Tensors

(* A call that finds no memory drops what it has.                          *)
LEMMA RaiseStep ==
  ASSUME Inductive, NEW c \in Calls, Raise(c)
  PROVE  Inductive'
<1>1. PICK p : p = [n \in Tensors |-> NoBlock]
  OBVIOUS
<1>2. p \in [Tensors -> Blocks \cup {NoBlock}] /\ \A n \in Tensors : p[n] = NoBlock
  BY <1>1
<1>3. DropStep(c, "raised", p, Release(c, Tensors))
  BY <1>1 DEF Raise, DropStep
<1> QED
  BY <1>2, <1>3, Releases DEF Owns

(* When cudaFree has returned, no kernel uses D.                           *)
LEMMA NoUseOfD ==
  ASSUME Inductive, NEW c \in Calls, pc[c] = "return", \A s \in Streams : awaited[c][s] = 0
  PROVE  Unused(ptr[c]["D"])
<1> SUFFICES ASSUME NEW s \in Streams, NEW i \in DOMAIN queue[s],
                    ptr[c]["D"] \in Uses(queue[s][i])
             PROVE  FALSE
  BY DEF Unused
<1>1. Homes /\ Waited /\ Shape
  BY DEF Inductive, Memory
<1>2. stream[c] = s
  BY <1>1 DEF Homes, Home, Tensors
<1>3. i <= awaited[c][stream[c]]
  BY <1>1, <1>2 DEF Waited
<1>4. i \in 1 .. Len(queue[s]) /\ queue[s] \in Seq(Kernels)
  BY <1>1, LenProperties DEF Shape
<1>5. i >= 1
  BY <1>4
<1>6. awaited[c][s] = 0
  OBVIOUS
<1> QED
  BY <1>2, <1>3, <1>4, <1>5, <1>6

LEMMA ReturnStep ==
  ASSUME Inductive, NEW c \in Calls, Return(c)
  PROVE  Inductive'
<1> DEFINE N == Tensors \ {"D", "grads"}
           D == ptr[c]["D"]
<1>1. /\ TypeOK /\ Shape /\ pc[c] = "return"
      /\ Holds(c, "return", Owns(ptr[c]))
  BY OwnsNow DEF Return, Ended
<1>2. PICK p : p = [n \in Tensors |-> IF n = "grads" THEN ptr[c][n] ELSE NoBlock]
  OBVIOUS
<1>3. PICK h : h = [Release(c, N) EXCEPT ![D] = AfterFree]
  OBVIOUS
<1>4. ptr[c]["grads"] # NoBlock /\ D \in Blocks
  BY <1>1 DEF Holds, Has, Owns, Tensors, TypeOK
<1>5. DropStep(c, "use", p, h)
  <2>1. ptr' = [ptr EXCEPT ![c] = p]
    BY <1>2 DEF Return
  <2> QED
    BY <1>3, <2>1 DEF Return, DropStep
<1>6. Dropping(c, N \cup {"D"}, p, h)
  <2>1. p \in [Tensors -> Blocks \cup {NoBlock}]
    BY <1>1, <1>2 DEF TypeOK
  <2>2. \A n \in Tensors : p[n] = IF n \in N \cup {"D"} THEN NoBlock ELSE ptr[c][n]
    BY <1>2 DEF Tensors
  <2>3. /\ Release(c, N) \in [Blocks -> {"free", "held"} \cup Streams]
        /\ \A b \in Blocks : Release(c, N)[b] =
             IF \E n \in N : ptr[c][n] = b THEN stream[c] ELSE heap[b]
    BY <1>1, AutogradAssumption DEF Release, NoBlock, TypeOK, Shape
  <2>4. h \in [Blocks -> {"free", "held"} \cup Streams]
    BY <1>3, <1>4, <2>3 DEF AfterFree
  <2>5. \A b \in Blocks : h[b] = IF b = D THEN "free" ELSE Release(c, N)[b]
    BY <1>3, <1>4, <2>3 DEF AfterFree
  <2>6. Unused(D)
    BY <1>1, NoUseOfD DEF Return
  <2>7. ASSUME NEW b \in Blocks, \E n \in N \cup {"D"} : ptr[c][n] = b
        PROVE  h[b] = stream[c] \/ (h[b] = "free" /\ Unused(b))
    BY <2>3, <2>5, <2>6, <2>7
  <2>8. ASSUME NEW b \in Blocks, \A n \in N \cup {"D"} : ptr[c][n] # b
        PROVE  h[b] = heap[b]
    BY <2>3, <2>5, <2>8
  <2>9. N \cup {"D"} \subseteq Tensors
    BY DEF Tensors
  <2> HIDE DEF N
  <2> QED
    BY <2>1, <2>2, <2>4, <2>7, <2>8, <2>9 DEF Dropping
<1>7. Holds(c, "use", Owns(p))
  <2>1. Owns(p) = {"grads"}
    BY <1>2, <1>4 DEF Owns, Tensors
  <2> QED
    BY <2>1 DEF Holds, Has
<1>8. \A n \in Tensors : Launched(pc[c], n)
  BY <1>1 DEF Launched
<1> HIDE DEF N
<1> QED
  BY <1>5, <1>6, <1>7, <1>8, Drops DEF Points

(* The steps of the host that touch no memory.                             *)
LEMMA QuietStep ==
  ASSUME Inductive, NEW c \in Calls, InputOffDevice(c) \/ ForwardCpu(c) \/ BackwardCpu(c)
  PROVE  Inductive'
<1>1. PICK x : /\ pc' = [pc EXCEPT ![c] = x]
               /\ \/ pc[c] = "input" /\ x = "forward" /\ OffDevice(c)
                  \/ pc[c] = "forward" /\ x = "backward" /\ input[c] = "cpu"
                  \/ pc[c] = "backward" /\ x = "done" /\ input[c] = "cpu"
  BY DEF InputOffDevice, ForwardCpu, BackwardCpu, OffDevice
<1>2. UNCHANGED <<stream, input, ptr, heap, mem, queue, awaited>>
  BY DEF InputOffDevice, ForwardCpu, BackwardCpu
<1>3. TypeOK /\ Shape /\ Owns(ptr[c]) = {}
  <2>1. TypeOK /\ Shape /\ Holds(c, pc[c], Owns(ptr[c]))
    BY <1>1, OwnsNow DEF Ended
  <2> QED
    BY <1>1, <2>1 DEF Holds, Has, OffDevice, Owns, Backwards, Copied, Strided
<1>4. x \in Points \ {"return"} /\ Holds(c, x, Owns(ptr[c]))
  BY <1>1, <1>3 DEF Points, Holds, Has, OffDevice, Copied, Strided
<1>5. Dropping(c, {}, ptr[c], heap)
  BY <1>3 DEF Dropping, TypeOK
<1>6. DropStep(c, x, ptr[c], heap)
  BY <1>1, <1>2, <1>3 DEF DropStep, TypeOK
<1>7. \A n \in Tensors : ptr[c][n] = NoBlock
  BY <1>3 DEF Owns
<1> QED
  BY <1>4, <1>5, <1>6, <1>7, Drops

(* cudaFree takes note of every kernel enqueued.                           *)
LEMMA FreeScratchStep ==
  ASSUME Inductive, NEW c \in Calls, FreeScratch(c)
  PROVE  Inductive'
<1>1. /\ TypeOK /\ Shape /\ Owned /\ Homes /\ Waited
      /\ (\A s \in Streams : Fed(queue[s], mem)) /\ Filled
  BY DEF Inductive, Memory
<1>2. UNCHANGED <<stream, input, ptr, heap, mem, queue>> /\ pc[c] = "free"
      /\ awaited' = [awaited EXCEPT ![c] = Awaits]
      /\ pc' \in [Calls -> Points] /\ pc'[c] = "return"
      /\ \A d \in Calls : d # c => pc'[d] = pc[d]
  BY <1>1 DEF FreeScratch, TypeOK, Points
<1>3. TypeOK'
  BY <1>1, <1>2 DEF TypeOK
<1>4. Awaits \in [Streams -> Nat]
  <2>1. \A s \in Streams : Len(queue[s]) \in Nat
    BY <1>1, LenProperties DEF Shape
  <2> QED
    BY <2>1 DEF Awaits
<1>5. Shape'
  <2> HIDE DEF Awaits
  <2>1. awaited' \in [Calls -> [Streams -> Nat]]
    BY <1>1, <1>2, <1>4 DEF Shape
  <2> QED
    BY <1>1, <1>2, <2>1 DEF Shape
<1>6. Owned'
  <2>1. \A n : Has(c, "free", n) <=> Has(c, "return", n)
    BY DEF Has
  <2>2. SUFFICES ASSUME NEW d \in Calls, ~Ended(pc'[d]) PROVE Holds(d, pc[d], Owns(ptr[d]))'
    BY DEF Owned
  <2>3. Holds(d, pc'[d], Owns(ptr[d]))
    <3>1. CASE d = c
      <4>1. Holds(c, "free", Owns(ptr[c]))
        BY <1>1, <1>2 DEF Owned, Ended
      <4> QED
        BY <1>2, <2>1, <3>1, <4>1 DEF Holds, Backwards
    <3>2. CASE d # c
      BY <1>1, <1>2, <2>2, <3>2 DEF Owned
    <3> QED
      BY <3>1, <3>2
  <2> QED
    BY <1>2, <2>3 DEF Holds, Owns, Has, OffDevice, Copied, Strided
<1>7. Homes'
  BY <1>1, <1>2 DEF Homes, Home
<1>8. Waited'
  <2> SUFFICES ASSUME NEW d \in Calls, pc'[d] = "return",
                      NEW i \in DOMAIN queue[stream[d]],
                      ptr[d]["D"] \in Uses(queue[stream[d]][i])
               PROVE  i <= awaited'[d][stream[d]]
    BY <1>2 DEF Waited
  <2>1. CASE d = c
    <3>1. stream[c] \in Streams
      BY <1>1 DEF Shape
    <3>2. queue[stream[c]] \in Seq(Kernels)
      BY <1>1, <3>1 DEF Shape
    <3>3. i \in 1 .. Len(queue[stream[c]]) /\ Len(queue[stream[c]]) \in Nat
      BY <2>1, <3>2, LenProperties
    <3>4. awaited'[c][stream[c]] = Len(queue[stream[c]])
      BY <1>1, <1>2, <3>1 DEF Awaits, Shape
    <3> QED
      BY <2>1, <3>3, <3>4
  <2>2. CASE d # c
    <3>1. awaited'[d] = awaited[d] /\ pc[d] = "return"
      BY <1>1, <1>2, <2>2 DEF Shape
    <3> QED
      BY <1>1, <3>1 DEF Waited
  <2> QED
    BY <2>1, <2>2
<1>9. \A s \in Streams : Fed(queue'[s], mem')
  BY <1>1, <1>2
<1>10. Filled'
  <2>1. \A d \in Calls : \A n \in Tensors : Launched(pc'[d], n) => Launched(pc[d], n)
    BY <1>2 DEF Launched
  <2> QED
    BY <1>1, <1>2, <2>1 DEF Filled
<1> QED
  BY <1>3, <1>5, <1>6, <1>7, <1>8, <1>9, <1>10 DEF Inductive, Memory

(* The program ends; what was enqueued may still run.                      *)
LEMMA EndStep ==
  ASSUME Inductive, NEW c \in Calls, Exit(c) \/ FailLaunch(c)
  PROVE  Inductive'
<1>1. /\ TypeOK /\ Shape /\ Owned /\ Homes /\ Waited
      /\ (\A s \in Streams : Fed(queue[s], mem)) /\ Filled
  BY DEF Inductive, Memory
<1>2. UNCHANGED <<stream, input, ptr, heap, mem, queue, awaited>>
      /\ pc' \in [Calls -> Points] /\ \A d \in Calls : pc'[d] \in {"exited", "failed"}
  BY DEF Exit, FailLaunch, Points
<1>3. TypeOK' /\ Shape'
  BY <1>1, <1>2 DEF TypeOK, Shape
<1>4. Owned'
  BY <1>2 DEF Owned, Ended
<1>5. Homes' /\ Waited'
  BY <1>1, <1>2 DEF Homes, Home, Waited
<1>6. \A s \in Streams : Fed(queue'[s], mem')
  BY <1>1, <1>2
<1>7. Filled'
  BY <1>1, <1>2 DEF Filled, Launched
<1> QED
  BY <1>3, <1>4, <1>5, <1>6, <1>7 DEF Inductive, Memory

(* Torch's caches are given back when nothing is enqueued.                 *)
LEMMA EmptyCachesStep ==
  ASSUME Inductive, NEW c \in Calls, EmptyCaches(c)
  PROVE  Inductive'
<1>1. /\ TypeOK /\ Shape /\ Owned /\ Homes /\ Waited
      /\ (\A s \in Streams : Fed(queue[s], mem)) /\ Filled
  BY DEF Inductive, Memory
<1>2. /\ UNCHANGED <<pc, stream, input, ptr, mem, queue, awaited>>
      /\ \A s \in Streams : queue[s] = <<>>
      /\ heap' = [b \in Blocks |-> IF b \in Cached THEN "free" ELSE heap[b]]
  BY DEF EmptyCaches
<1>3. TypeOK'
  <2>1. heap' \in [Blocks -> {"free", "held"} \cup Streams]
    BY <1>1, <1>2 DEF TypeOK
  <2>2. \A b \in Blocks : heap'[b] = "held" <=> heap[b] = "held"
    BY <1>2, AutogradAssumption DEF Cached
  <2> QED
    BY <1>1, <1>2, <2>1, <2>2 DEF TypeOK
<1>4. Shape' /\ Owned' /\ Waited'
  BY <1>1, <1>2 DEF Shape, Owned, Waited, Holds, Owns, Has, OffDevice, Copied, Strided, Ended
<1>5. Homes'
  BY <1>2 DEF Homes
<1>6. (\A s \in Streams : Fed(queue'[s], mem')) /\ Filled'
  BY <1>1, <1>2 DEF Filled
<1> QED
  BY <1>3, <1>4, <1>5, <1>6 DEF Inductive, Memory

(* flash_backward's two kernels: the second reads what the first writes.   *)
LEMMA LaunchStep ==
  ASSUME Inductive, NEW c \in Calls, Launch(c)
  PROVE  Inductive'
<1>1. /\ TypeOK /\ Shape /\ pc[c] = "launch"
      /\ Holds(c, "launch", Owns(ptr[c]))
  BY OwnsNow DEF Launch, Ended
<1>2. PICK b \in FreeBlocks :
        LET q == [ptr[c] EXCEPT !["D"] = b]
        IN  /\ ptr' = [ptr EXCEPT ![c] = q]
            /\ heap' = Hold(b)
            /\ queue' = [queue EXCEPT ![KernelStream(c)] = @ \o Launches(q, c)]
  BY DEF Launch
<1>3. PICK p : p = [ptr[c] EXCEPT !["D"] = b]
  OBVIOUS
<1>4. /\ Takeable(c, b) /\ b \in Blocks /\ b # NoBlock /\ heap[b] # "held"
      /\ \A d \in Calls, m \in Tensors : ptr[d][m] # b
  BY <1>1, Lowests, NotHeld
<1>5. p \in [Tensors -> Blocks \cup {NoBlock}]
      /\ \A n \in Tensors : p[n] = IF n = "D" THEN b ELSE ptr[c][n]
  BY <1>1, <1>3, <1>4 DEF TypeOK
<1>6. PICK h : h = Hold(b)
  OBVIOUS
<1>7. Types(p, h) /\ Takes(c, p, h) /\ \A a \in Blocks : Moves(c, h, a)
  <2>1. "D" \in Tensors /\ ptr[c]["D"] = NoBlock
    BY <1>1 DEF Tensors, Holds, Has, Owns, Saved, Copied
  <2>2. h \in [Blocks -> {"free", "held"} \cup Streams]
        /\ \A a \in Blocks : h[a] = IF a = b THEN "held" ELSE heap[a]
    BY <1>1, <1>4, <1>6 DEF Hold, TypeOK
  <2>3. Taking(c, "D", b, {}, p, h)
    BY <1>4, <1>5, <2>1, <2>2 DEF Taking
  <2> QED
    BY <1>1, <2>3, TakeOne
<1> DEFINE src == {Source(c), "o", "dO", "D"}
<1>8. PICK k1 : k1 = Kernel(p, c, "D", {"o", "dO"})
  OBVIOUS
<1>9. PICK k2 : k2 = Kernel(p, c, "grads", src)
  OBVIOUS
<1>10. /\ \A n \in src \ {"D"} : n \in Tensors /\ n # "grads" /\ ptr[c][n] # NoBlock
       /\ "grads" \in Tensors /\ ptr[c]["grads"] # NoBlock
       /\ "D" \in Tensors /\ "D" \in src /\ "o" \in src \ {"D"} /\ "dO" \in src \ {"D"}
  BY <1>1 DEF Tensors, Holds, Has, Owns, Saved, Copied, Source
<1>11. \A n \in src \cup {"grads"} : n \in Tensors /\ p[n] \in Blocks
  BY <1>1, <1>4, <1>5, <1>10 DEF TypeOK
<1> HIDE DEF src
<1>12. IsKernel(k1, p, c, "D", {"o", "dO"})
  BY <1>8, <1>10, <1>11, KernelIs
<1>13. IsKernel(k2, p, c, "grads", src)
  BY <1>9, <1>10, <1>11, KernelIs
<1>14. PICK ks : ks = <<k1, k2>>
  OBVIOUS
<1>15. ks \in Seq(Kernels) /\ Len(ks) = 2 /\ ks[1] = k1 /\ ks[2] = k2
  BY <1>12, <1>13, <1>14 DEF IsKernel
<1>16. Step(c, "free", p, h, ks)
  BY <1>2, <1>3, <1>6, <1>8, <1>9, <1>14 DEF Launch, Step, KernelStream, Launches, src
<1>17. Kept(c, p, h, ks)
  <2>1. ASSUME NEW a \in Uses(k1) PROVE Mine(c, p, h, a)
    BY <1>10, <1>12, <2>1 DEF IsKernel, Mine
  <2>2. ASSUME NEW a \in Uses(k2) PROVE Mine(c, p, h, a)
    BY <1>11, <1>13, <2>2 DEF IsKernel, Mine
  <2>3. \A i \in 1 .. Len(ks) : ks[i] = k1 \/ ks[i] = k2
    BY <1>15
  <2> QED
    BY <1>7, <2>1, <2>2, <2>3 DEF Kept
<1>18. /\ k1.call = c /\ k1.to = b /\ k1.writes = "D"
       /\ k2.call = c /\ k2.to = ptr[c]["grads"] /\ k2.writes = "grads"
       /\ \A r \in k1.reads : r[1] \in {"o", "dO"} /\ r[2] = p[r[1]]
       /\ \A r \in k2.reads : r[1] \in src /\ r[2] = p[r[1]]
  BY <1>5, <1>10, <1>12, <1>13 DEF IsKernel
<1>19. ptr[c]["grads"] # b /\ \A n \in src \ {"D"} : ptr[c][n] # b /\ p[n] = ptr[c][n]
  BY <1>4, <1>5, <1>10
<1>20. ASSUME NEW r \in k1.reads PROVE Supplies(c, ks, 1, r[1], r[2])
  <2>1. r[1] \in src \ {"D"} /\ r[2] = ptr[c][r[1]] /\ r[2] # NoBlock /\ r[1] # "grads"
    BY <1>10, <1>18, <1>19
  <2> QED
    BY <2>1 DEF Supplies, Launched
<1>21. ASSUME NEW r \in k2.reads PROVE Supplies(c, ks, 2, r[1], r[2])
  <2>1. CASE r[1] = "D"
    <3>1. r[2] = b
      BY <1>5, <1>10, <1>18, <2>1
    <3>2. 1 \in 1 .. 2 - 1 /\ \A l \in 1 + 1 .. 2 - 1 : ks[l].to # b
      OBVIOUS
    <3> QED
      BY <1>15, <1>18, <2>1, <3>1, <3>2 DEF Supplies
  <2>2. CASE r[1] # "D"
    <3>1. /\ r[2] = ptr[c][r[1]] /\ r[2] # NoBlock /\ r[1] # "grads" /\ r[2] # b
      BY <1>10, <1>18, <1>19, <2>2
    <3>2. \A l \in 1 .. 2 - 1 : ks[l].to = b
      BY <1>15, <1>18
    <3> QED
      BY <3>1, <3>2 DEF Supplies, Launched
  <2> QED
    BY <2>1, <2>2
<1>22. ASSUME NEW n \in Tensors, p[n] # NoBlock PROVE Supplies(c, ks, 3, n, p[n])
  <2>1. CASE n = "D"
    <3>1. 1 \in 1 .. 3 - 1 /\ \A l \in 1 + 1 .. 3 - 1 : ks[l].to # b
      BY <1>15, <1>18, <1>19
    <3> QED
      BY <1>5, <1>15, <1>18, <2>1, <3>1 DEF Supplies
  <2>2. CASE n = "grads"
    <3>1. 2 \in 1 .. 3 - 1 /\ \A l \in 2 + 1 .. 3 - 1 : ks[l].to # p[n]
      OBVIOUS
    <3>2. p[n] = ptr[c]["grads"]
      BY <1>5, <2>2
    <3> QED
      BY <1>15, <1>18, <2>2, <3>1, <3>2 DEF Supplies
  <2>3. CASE n \notin {"D", "grads"}
    <3>1. p[n] = ptr[c][n] /\ p[n] # b
      BY <1>4, <1>5, <2>3
    <3>2. p[n] # ptr[c]["grads"]
      BY <1>1, <1>10, <1>22, <2>3, <3>1 DEF TypeOK
    <3>3. \A l \in 1 .. 3 - 1 : ks[l].to # p[n]
      BY <1>15, <1>18, <3>1, <3>2
    <3> QED
      BY <1>22, <2>3, <3>1, <3>3 DEF Supplies, Launched
  <2> QED
    BY <2>1, <2>2, <2>3
<1>23. Supplied(c, "free", p, ks)
  <2>1. \A i \in 1 .. Len(ks) : (i = 1 /\ ks[i] = k1) \/ (i = 2 /\ ks[i] = k2)
    BY <1>15
  <2>2. Len(ks) + 1 = 3
    BY <1>15
  <2>3. k1.to = p["D"] /\ k2.to = p["grads"]
    BY <1>5, <1>10, <1>18
  <2> QED
    BY <1>10, <1>18, <1>20, <1>21, <1>22, <2>1, <2>2, <2>3 DEF Supplied
<1>24. Holds(c, "free", Owns(p))
  <2>1. Owns(p) = Owns(ptr[c]) \cup {"D"}
    BY <1>4, <1>5, <1>10 DEF Owns
  <2> QED
    BY <1>1, <2>1 DEF Holds, Has, Backwards, Saved, Copied
<1> QED
  BY <1>7, <1>15, <1>16, <1>17, <1>23, <1>24, Stepped DEF Points

(* A kernel runs: it finds what it was launched for, so that the others    *)
(* of its stream find what they would have, and no other stream uses the   *)
(* block it writes.                                                        *)
LEMMA RunStep ==
  ASSUME Inductive, NEW s \in Streams, Run(s)
  PROVE  Inductive'
<1> DEFINE q == queue[s]
           k == Head(q)
<1>1. /\ TypeOK /\ Shape /\ Owned /\ Homes /\ Waited
      /\ (\A t \in Streams : Fed(queue[t], mem)) /\ Filled
  BY DEF Inductive, Memory
<1>2. /\ q \in Seq(Kernels) /\ q # <<>>
      /\ UNCHANGED <<pc, stream, input, ptr, heap>>
      /\ queue' = [queue EXCEPT ![s] = Tail(q)]
      /\ awaited' = [c \in Calls |->
                       [awaited[c] EXCEPT ![s] = IF @ > 0 THEN @ - 1 ELSE 0]]
  BY <1>1 DEF Run, Shape
<1>3. PICK T : T = Tail(q)
  OBVIOUS
<1>4. /\ k \in Kernels /\ T \in Seq(Kernels) /\ Len(q) \in Nat /\ Len(q) > 0
      /\ Len(T) = Len(q) - 1 /\ k = q[1]
      /\ DOMAIN q = 1 .. Len(q) /\ DOMAIN T = 1 .. Len(q) - 1
      /\ \A i \in 1 .. Len(q) - 1 : T[i] = q[i + 1]
  <2>1. /\ k \in Kernels /\ T \in Seq(Kernels) /\ Len(T) = Len(q) - 1
        /\ \A i \in 1 .. Len(T) : T[i] = q[i + 1]
    BY <1>2, <1>3, HeadTailProperties
  <2>2. Len(q) \in Nat \ {0} /\ DOMAIN q = 1 .. Len(q) /\ DOMAIN T = 1 .. Len(T)
    BY <1>2, <2>1, LenProperties, EmptySeq
  <2> QED
    BY <1>2, <2>1, <2>2
<1>5. /\ queue' \in [Streams -> Seq(Kernels)] /\ queue'[s] = T
      /\ \A t \in Streams : t # s => queue'[t] = queue[t]
  BY <1>1, <1>2, <1>3, <1>4 DEF Shape
<1>6. /\ k.to \in Blocks /\ k.to \in Uses(k) /\ Uses(k) \subseteq Blocks
      /\ \A r \in k.reads : r[2] \in Uses(k)
  BY <1>4, UsesBlocks DEF Kernels, Uses
<1>7. \A r \in k.reads : mem[r[2]] = Value(k.call, r[1])
  <2> SUFFICES ASSUME NEW r \in k.reads PROVE mem[r[2]] = Value(k.call, r[1])
    OBVIOUS
  <2>1. 1 \in DOMAIN q /\ r \in q[1].reads /\ Fed(q, mem)
    BY <1>1, <1>4
  <2>2. Finds(q, mem, r[2], 1, Value(q[1].call, r[1]))
    BY <2>1 DEF Fed
  <2> QED
    BY <1>4, <2>2, FindsNow
<1>8. mem' = [mem EXCEPT ![k.to] = Value(k.call, k.writes)]
  BY <1>7 DEF Run
<1>9. mem' = [b \in Blocks |-> mem'[b]] /\ \A b \in Blocks : b # k.to => mem'[b] = mem[b]
  <2>1. mem = [b \in Blocks |-> mem[b]]
    BY <1>1 DEF Shape
  <2> HIDE DEF k
  <2> QED
    BY <1>6, <1>8, <2>1
<1>10. /\ awaited' \in [Calls -> [Streams -> Nat]]
       /\ \A c \in Calls : /\ awaited[c][s] \in Nat
                           /\ awaited'[c][s] = IF awaited[c][s] > 0 THEN awaited[c][s] - 1 ELSE 0
                           /\ \A t \in Streams : t # s => awaited'[c][t] = awaited[c][t]
  <2> HIDE DEF q
  <2>1. awaited \in [Calls -> [Streams -> Nat]]
    BY <1>1 DEF Shape
  <2>2. \A c \in Calls : awaited'[c] =
          [awaited[c] EXCEPT ![s] = IF awaited[c][s] > 0 THEN awaited[c][s] - 1 ELSE 0]
    BY <1>2
  <2>3. ASSUME NEW c \in Calls PROVE awaited'[c] \in [Streams -> Nat]
    <3>1. PICK m : m = IF awaited[c][s] > 0 THEN awaited[c][s] - 1 ELSE 0
      OBVIOUS
    <3>2. awaited[c] \in [Streams -> Nat] /\ m \in Nat
      BY <2>1, <3>1
    <3> QED
      BY <2>2, <3>1, <3>2
  <2>4. awaited' \in [Calls -> [Streams -> Nat]]
    BY <1>2, <2>3
  <2> QED
    BY <2>1, <2>2, <2>4
<1> HIDE DEF k, q
<1>11. TypeOK' /\ Owned'
  BY <1>1, <1>2 DEF TypeOK, Owned, Holds, Owns, Has, OffDevice, Copied, Strided, Ended
<1>12. Shape'
  BY <1>1, <1>2, <1>5, <1>9, <1>10 DEF Shape
<1>13. Homes'
  <2> SUFFICES ASSUME NEW t \in Streams, NEW i \in DOMAIN queue'[t], NEW b \in Uses(queue'[t][i])
               PROVE  Home(ptr, heap, t, b)'
    BY DEF Homes
  <2>0. Home(ptr, heap, t, b) => Home(ptr, heap, t, b)'
    BY <1>2 DEF Home
  <2>1. CASE t # s
    BY <1>1, <1>5, <2>0, <2>1 DEF Homes
  <2>2. CASE t = s
    <3>1. i + 1 \in DOMAIN q /\ queue'[t][i] = q[i + 1]
      BY <1>4, <1>5, <2>2
    <3> QED
      BY <1>1, <2>0, <2>2, <3>1 DEF Homes, q
  <2> QED
    BY <2>1, <2>2
<1>14. Waited'
  <2> SUFFICES ASSUME NEW c \in Calls, pc[c] = "return",
                      NEW i \in DOMAIN queue'[stream[c]],
                      ptr[c]["D"] \in Uses(queue'[stream[c]][i])
               PROVE  i <= awaited'[c][stream[c]]
    BY <1>2 DEF Waited
  <2>1. CASE stream[c] # s
    <3>1. stream[c] \in Streams
      BY <1>1 DEF Shape
    <3> QED
      BY <1>1, <1>5, <1>10, <2>1, <3>1 DEF Waited
  <2>2. CASE stream[c] = s
    <3>1. i + 1 \in DOMAIN q /\ queue'[s][i] = q[i + 1] /\ i \in Nat
      BY <1>4, <1>5, <2>2
    <3>2. i + 1 <= awaited[c][s]
      BY <1>1, <2>2, <3>1 DEF Waited, q
    <3> QED
      BY <1>10, <2>2, <3>1, <3>2
  <2> QED
    BY <2>1, <2>2
<1>15. ASSUME NEW b \in Blocks, NEW i \in Nat, i > 1, i <= Len(q) + 1, NEW v,
              Finds(q, mem, b, i, v)
       PROVE  Finds(T, mem', b, i - 1, v)
  <2>1. mem = [a \in Blocks |-> mem[a]]
    BY <1>1 DEF Shape
  <2>2. Finds(Tail(q), [mem EXCEPT ![Head(q).to] = Value(Head(q).call, Head(q).writes)], b, i - 1, v)
    BY <1>2, <1>15, <2>1, FindsTail
  <2> QED
    BY <1>3, <1>8, <2>2 DEF k
<1>16. ASSUME NEW t \in Streams, t # s, NEW b \in Blocks, Home(ptr, heap, t, b)
       PROVE  mem'[b] = mem[b]
  <2> SUFFICES ASSUME b = k.to PROVE FALSE
    BY <1>9
  <2>1. Home(ptr, heap, s, b)
    <3>1. 1 \in DOMAIN q /\ b \in Uses(q[1])
      BY <1>4, <1>6
    <3> QED
      BY <1>1, <3>1 DEF Homes, q
  <2>2. heap[b] = "held"
    BY <1>16, <2>1 DEF Home
  <2>3. PICK c \in Calls, n \in Tensors : ptr[c][n] = b
    BY <1>1, <2>2 DEF TypeOK
  <2> QED
    BY <1>16, <2>1, <2>3 DEF Home
<1>17. ASSUME NEW t \in Streams PROVE Fed(queue'[t], mem')
  <2> SUFFICES ASSUME NEW i \in DOMAIN queue'[t], NEW r \in queue'[t][i].reads
               PROVE  Finds(queue'[t], mem', r[2], i, Value(queue'[t][i].call, r[1]))
    BY DEF Fed
  <2>0. queue'[t][i] \in Kernels
    BY <1>5, LenProperties, ElementOfSeq
  <2>1. r[2] \in Blocks /\ r[2] \in Uses(queue'[t][i])
    BY <2>0 DEF Kernels, Uses
  <2>2. CASE t # s
    <3>1. queue'[t] = queue[t]
      BY <1>5, <2>2
    <3>2. Finds(queue[t], mem, r[2], i, Value(queue[t][i].call, r[1]))
      BY <1>1, <3>1 DEF Fed
    <3>3. mem'[r[2]] = mem[r[2]]
      BY <1>1, <1>16, <2>1, <2>2, <3>1 DEF Homes
    <3> QED
      BY <3>1, <3>2, <3>3, FindsElsewhere
  <2>3. CASE t = s
    <3>1. i + 1 \in DOMAIN q /\ queue'[t][i] = q[i + 1] /\ i \in Nat
          /\ i + 1 \in Nat /\ i + 1 > 1 /\ i + 1 <= Len(q) + 1 /\ (i + 1) - 1 = i
      BY <1>4, <1>5, <2>3
    <3>2. Finds(q, mem, r[2], i + 1, Value(q[i + 1].call, r[1]))
      BY <1>1, <2>3, <3>1 DEF Fed, q
    <3>3. Finds(T, mem', r[2], (i + 1) - 1, Value(q[i + 1].call, r[1]))
      BY <1>15, <2>1, <3>1, <3>2
    <3> QED
      BY <1>5, <2>3, <3>1, <3>3
  <2> QED
    BY <2>2, <2>3
<1>18. Filled'
  <2> SUFFICES ASSUME NEW c \in Calls, NEW n \in Tensors, ptr[c][n] # NoBlock, Launched(pc[c], n)
               PROVE  Finds(queue'[stream[c]], mem', ptr[c][n], Len(queue'[stream[c]]) + 1,
                            Value(c, n))
    BY <1>2 DEF Filled
  <2>1. /\ Finds(queue[stream[c]], mem, ptr[c][n], Len(queue[stream[c]]) + 1, Value(c, n))
        /\ stream[c] \in Streams /\ ptr[c][n] \in Blocks
    BY <1>1 DEF Filled, Shape, TypeOK
  <2>2. CASE stream[c] # s
    <3>1. mem'[ptr[c][n]] = mem[ptr[c][n]]
      <4> SUFFICES ASSUME ptr[c][n] = k.to PROVE FALSE
        BY <1>9, <2>1
      <4>1. Home(ptr, heap, s, ptr[c][n])
        <5>1. 1 \in DOMAIN q /\ ptr[c][n] \in Uses(q[1])
          BY <1>4, <1>6
        <5> QED
          BY <1>1, <5>1 DEF Homes, q
      <4> QED
        BY <2>2, <4>1 DEF Home
    <3> QED
      BY <1>5, <2>1, <2>2, <3>1, FindsElsewhere
  <2>3. CASE stream[c] = s
    <3>1. Len(q) + 1 \in Nat /\ Len(q) + 1 > 1 /\ Len(q) + 1 <= Len(q) + 1
          /\ (Len(q) + 1) - 1 = Len(T) + 1
      BY <1>4
    <3>2. Finds(q, mem, ptr[c][n], Len(q) + 1, Value(c, n))
      BY <2>1, <2>3 DEF q
    <3>3. Finds(T, mem', ptr[c][n], (Len(q) + 1) - 1, Value(c, n))
      BY <1>15, <2>1, <3>1, <3>2
    <3> QED
      BY <1>5, <2>3, <3>1, <3>3
  <2> QED
    BY <2>2, <2>3
<1> QED
  BY <1>11, <1>12, <1>13, <1>14, <1>17, <1>18 DEF Inductive, Memory
-----------------------------------------------------------------------------
LEMMA InitInductive ==
  ASSUME Init
  PROVE  Inductive
<1>1. TypeOK
  BY AutogradAssumption DEF Init, TypeOK, Points, NoBlock
<1>2. \A s \in Streams : queue[s] = <<>> /\ DOMAIN queue[s] = {}
  <2>1. DOMAIN <<>> = {}
    OBVIOUS
  <2> QED
    BY <2>1 DEF Init
<1>3. Shape
  <2>1. queue \in [Streams -> Seq(Kernels)]
    BY DEF Init
  <2> QED
    BY <2>1 DEF Init, Shape
<1>4. Owned
  BY DEF Init, Owned, Holds, Owns, Has
<1>5. Homes /\ Waited
  BY <1>2 DEF Homes, Waited, Init
<1>6. \A s \in Streams : Fed(queue[s], mem)
  BY <1>2 DEF Fed
<1>7. Filled
  BY DEF Init, Filled
<1> QED
  BY <1>1, <1>3, <1>4, <1>5, <1>6, <1>7 DEF Inductive, Memory

LEMMA NextInductive ==
  ASSUME Inductive, [Next]_vars
  PROVE  Inductive'
<1>1. CASE UNCHANGED vars
  BY <1>1 DEF vars, Inductive, Memory, TypeOK, Shape, Owned, Homes, Home, Waited, Filled,
              Holds, Owns, Has, OffDevice, Copied, Strided
<1>2. ASSUME NEW c \in Calls, Host(c) PROVE Inductive'
  <2>1. CASE Input(c)
    BY <2>1, InputStep
  <2>2. CASE InputOffDevice(c) \/ ForwardCpu(c) \/ BackwardCpu(c)
    BY <2>2, QuietStep
  <2>3. CASE Refuse(c)
    BY <2>3, RefuseStep
  <2>4. CASE Exit(c) \/ FailLaunch(c)
    BY <2>4, EndStep
  <2>5. CASE Forward(c)
    BY <2>5, ForwardStep
  <2>6. CASE Loss(c)
    BY <2>6, LossStep
  <2>7. CASE Backward(c)
    BY <2>7, BackwardStep
  <2>8. CASE Launch(c)
    BY <2>8, LaunchStep
  <2>9. CASE FreeScratch(c)
    BY <2>9, FreeScratchStep
  <2>10. CASE Return(c)
    BY <2>10, ReturnStep
  <2>11. CASE Use(c)
    BY <2>11, UseStep
  <2>12. CASE EmptyCaches(c)
    BY <2>12, EmptyCachesStep
  <2>13. CASE Contiguous(c)
    BY <2>13, ContiguousStep
  <2>14. CASE Raise(c)
    BY <2>14, RaiseStep
  <2> QED
    BY <1>2, <2>1, <2>2, <2>3, <2>4, <2>5, <2>6, <2>7, <2>8, <2>9, <2>10, <2>11, <2>12,
       <2>13, <2>14 DEF Host
<1>3. ASSUME NEW s \in Streams, Run(s) PROVE Inductive'
  BY <1>3, RunStep
<1> QED
  BY <1>1, <1>2, <1>3 DEF Next, Finished

(* Every step of a call and of a stream keeps the inductive invariant.     *)
THEOREM Invariance == Spec => []Inductive
<1>1. Init => Inductive
  BY InitInductive
<1>2. Inductive /\ [Next]_vars => Inductive'
  BY NextInductive
<1> QED
  BY <1>1, <1>2, PTL DEF Spec

(* No two tensors share a block, and none is lost: what is held is some    *)
(* call's, D included, whatever the calls, the streams and the memory.     *)
THEOREM TypeCorrect == Spec => []TypeOK
<1>1. Inductive => TypeOK
  BY DEF Inductive, Memory
<1> QED
  BY <1>1, Invariance, PTL

(* No block leaves the stream of a kernel that has yet to use it: torch's  *)
(* caches belong to a stream, and flash_backward frees D only after its    *)
(* kernels have run.                                                       *)
THEOREM MemoryKeptHolds == Spec => []MemoryKept
<1>1. Inductive => MemoryKept
  BY DEF Inductive, Memory, Homes, Home, Uses, MemoryKept
<1> QED
  BY <1>1, Invariance, PTL

(* The gradients a call returns are of its own inputs, however its kernels *)
(* and those of other calls interleave and whatever memory they reuse.     *)
THEOREM GradsCorrectHolds == Spec => []GradsCorrect
<1>1. ASSUME Inductive PROVE GradsCorrect
  <2> SUFFICES ASSUME NEW c \in Calls, pc[c] = "use",
                      \A s \in Streams : \A i \in DOMAIN queue[s] :
                        queue[s][i].to # ptr[c]["grads"]
               PROVE  mem[ptr[c]["grads"]] = Value(c, "grads")
    BY DEF GradsCorrect
  <2> DEFINE b == ptr[c]["grads"]
             q == queue[stream[c]]
  <2>1. "grads" \in Tensors /\ b # NoBlock /\ Launched(pc[c], "grads")
    BY <1>1 DEF Tensors, Inductive, Memory, Owned, Ended, Holds, Owns, Has, Launched
  <2>2. stream[c] \in Streams /\ q \in Seq(Kernels)
    BY <1>1 DEF Inductive, Memory, Shape
  <2>3. DOMAIN q = 1 .. Len(q) /\ Len(q) \in Nat
    BY <2>2, LenProperties
  <2>4. Finds(q, mem, b, Len(q) + 1, Value(c, "grads"))
    BY <1>1, <2>1 DEF Inductive, Filled
  <2>5. \A i \in 1 .. Len(q) : q[i].to # b
    BY <2>2, <2>3
  <2> HIDE DEF b, q
  <2>6. PICK j \in 0 .. (Len(q) + 1) - 1 :
          /\ Value(c, "grads") = IF j = 0 THEN mem[b] ELSE Value(q[j].call, q[j].writes)
          /\ j # 0 => q[j].to = b
    BY <2>4 DEF Finds
  <2>7. j = 0
    BY <2>3, <2>5, <2>6
  <2> QED
    BY <2>6, <2>7 DEF b
<1>2. Inductive => GradsCorrect
  BY <1>1
<1> QED
  BY <1>2, Invariance, PTL
=============================================================================
