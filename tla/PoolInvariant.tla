---------------------------- MODULE PoolInvariant ----------------------------
(***************************************************************************)
(* The inductive invariant of Pool, from which PoolProofs derives its      *)
(* safety properties: one definition per idea, conjoined in Inductive.     *)
(***************************************************************************)
EXTENDS Pool

(* The caller has published a job that it has not collected yet.           *)
OutPC == {"notify", "join", "jtest", "jblock", "waits"} \cup Draining

(* The caller has written the job and is still inside run().               *)
PublishedPC == OutPC \cup {"reset", "bump"}

(* fn has not been applied to anything yet.                                *)
FreshPC == {"enter", "spawn", "inline", "post", "write", "reset", "bump"}

(* The mutex is held exactly by the thread inside a critical section.      *)
Mutex == \A t \in Threads : pc[t] \in Holding <=> mtx = t

(* A worker is serving a job only if it has taken the latest one, and no   *)
(* worker is behind unless a job is out.                                   *)
Serving(w) == pc[w] \in Draining \cup {"report", "dec"}
Handshake ==
  /\ \A w \in Workers : Serving(w) => seen[w] = epoch
  /\ pc[Caller] \notin OutPC => Pending = {}
  /\ pc[Caller] # "bump" => active = Cardinality(Pending)
  /\ pc[Caller] = "bump" => active = Cardinality(Workers) /\ next = 0

(* The job drain reads is the current call's.                              *)
Published ==
  pc[Caller] \in PublishedPC =>
    job = [fn |-> call.id, n |-> call.n, k |-> count, len |-> len]

(* run() is entered only for a call worth splitting, and a split call is   *)
(* nonempty.                                                               *)
Split ==
  /\ pc[Caller] \in {"spawn", "inline", "leave"} \cup RunPC => call.n > 0
  /\ pc[Caller] \in RunPC => ~RunsInline(call.n, call.min, nthreads)

(* No two threads hold the same chunk index, and a held index was pulled.  *)
Holder(t) == pc[t] \in {"claim", "exec"}
Claims ==
  /\ \A t \in Threads : Holder(t) => idx[t] < next
  /\ \A s, t \in Threads : Holder(s) /\ Holder(t) /\ idx[s] = idx[t] => s = t
  /\ \A t \in Threads : pc[t] = "exec" => idx[t] < job.k

(* A chunk is done once it was pulled and nobody holds it; fn has been     *)
(* applied once to the indices of the chunks that are done, and to nothing *)
(* else.                                                                   *)
Done(c) == c < next /\ \A t \in Threads : Holder(t) => idx[t] # c
Covered ==
  pc[Caller] \in OutPC =>
    \A x \in Indices, c \in 0 .. job.k - 1 :
       x \in ChunkSet(c, job.n, job.len) => hits[x] = IF Done(c) THEN 1 ELSE 0

Applied ==
  /\ \A x \in Indices : x >= call.n => hits[x] = 0
  /\ pc[Caller] \in FreshPC => \A x \in Indices : hits[x] = 0
  /\ pc[Caller] \in {"leave", "idle"} \cup ClosedPC =>
       \A x \in Indices : x < call.n => hits[x] = 1
  /\ pc[Caller] \in {"join", "jtest", "jblock", "waits"} => next >= job.k

(* Nobody sleeps through a notification: NoLostWakeup, with the threads    *)
(* that are about to sleep.                                                *)
Awake ==
  /\ NoLostWakeup
  /\ \A w \in Workers : pc[w] = "block" => epoch = seen[w] /\ ~stop
  /\ pc[Caller] = "jblock" => active # 0
  /\ stop => pc[Caller] \in {"dwake", "djoin", "ended"}

Inductive ==
  /\ TypeOK /\ Mutex /\ Handshake /\ Published /\ Split
  /\ Claims /\ Covered /\ Applied /\ Awake
=============================================================================
