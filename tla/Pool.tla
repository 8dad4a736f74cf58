-------------------------------- MODULE Pool --------------------------------
(***************************************************************************)
(* The persistent thread pool of src/parallel.cpp: its constructor, its    *)
(* worker loop, run()/parallel_for as its one calling thread executes      *)
(* them, and its destructor. A step is one critical section entry, one     *)
(* group of accesses made under the mutex, one atomic read-modify-write,   *)
(* or one unsynchronized read, so every interleaving of those is explored. *)
(*                                                                         *)
(* pc values, with the code each one is about to execute:                  *)
(*   workers  unborn  not spawned yet       lock    unique_lock lk(mtx)    *)
(*            test    the wait predicate    block   cv_work releases mtx   *)
(*            asleep  blocked in cv_work    report  lock_guard lk(mtx)     *)
(*            dec     --active              exited  worker_loop returned   *)
(*   caller   idle    outside parallel_for  enter   n <= 0, pool()         *)
(*            spawn   the constructor       inline  fn(0, n)               *)
(*            leave   return, after inline                                 *)
(*            post    lock_guard in run     write   job fields             *)
(*            reset   next, active          bump    epoch++, unlock        *)
(*            notify  cv_work.notify_all    join    unique_lock lk(mtx)    *)
(*            jtest   active == 0           jblock  cv_done releases mtx   *)
(*            waits   blocked in cv_done    dtor    lock_guard in ~Pool    *)
(*            stop    stop = true           dwake   notify_all in ~Pool    *)
(*            djoin   t.join()              ended   ~Pool returned         *)
(*   both     pull    next.fetch_add        claim   the bounds of a chunk  *)
(*            exec    inside (star job)(b, e)                              *)
(***************************************************************************)
EXTENDS Chunking, FiniteSets

CONSTANTS Workers,      \* the threads the pool spawns (nthreads - 1 of them)
          Caller,       \* the one thread that calls parallel_for
          NoOne,        \* mtx is free
          MaxN,         \* bound on n
          MinChunks,    \* the min_chunk arguments callers pass
          MaxCalls      \* bound on the number of calls

ASSUME PoolAssumption ==
  /\ IsFiniteSet(Workers)
  /\ Caller \notin Workers
  /\ NoOne \notin Workers \cup {Caller}
  /\ MaxN \in Nat
  /\ MinChunks \subseteq Int
  /\ MaxCalls \in Nat

VARIABLES
  pc,       \* control point of each thread
  mtx,      \* the thread that holds mtx, or NoOne
  job,      \* the published job: which call's fn, n, chunk count, chunk length
  next,     \* next chunk index
  active,   \* workers still running the current job
  epoch,    \* number of jobs published
  stop,     \* the pool is being destroyed
  seen,     \* the epoch each worker last took
  idx,      \* drain's local i of each thread
  call,     \* arguments of the current parallel_for: its number, n, min_chunk
  hits      \* history: how often this call applied fn to each index

vars == <<pc, mtx, job, next, active, epoch, stop, seen, idx, call, hits>>

Threads == Workers \cup {Caller}
nthreads == Cardinality(Workers) + 1
Indices == 0 .. MaxN - 1

len == ChunkLen(call.n, call.min, nthreads)
count == ChunkCount(call.n, call.min, nthreads)

(* The range thread t is in the middle of applying fn to.                  *)
RangeOf(t) == ChunkSet(idx[t], job.n, job.len)

Goto(t, from, to) == pc[t] = from /\ pc' = [pc EXCEPT ![t] = to]

Init ==
  /\ pc = [t \in Threads |-> IF t = Caller THEN "idle" ELSE "unborn"]
  /\ mtx = NoOne
  /\ job = [fn |-> 0, n |-> 0, k |-> 0, len |-> 0]
  /\ next = 0
  /\ active = 0
  /\ epoch = 0
  /\ stop = FALSE
  /\ seen = [w \in Workers |-> 0]
  /\ idx = [t \in Threads |-> 0]
  /\ call = [id |-> 0, n |-> 0, min |-> 0]
  /\ hits = [x \in Indices |-> 0]
-----------------------------------------------------------------------------
(* Locking mtx, at each of the places that do.                             *)

AfterLock == [lock |-> "test", report |-> "dec", join |-> "jtest",
              post |-> "write", dtor |-> "stop"]

Acquire(t) ==
  /\ pc[t] \in DOMAIN AfterLock
  /\ mtx = NoOne
  /\ mtx' = t
  /\ pc' = [pc EXCEPT ![t] = AfterLock[pc[t]]]
  /\ UNCHANGED <<job, next, active, epoch, stop, seen, idx, call, hits>>

Release(t) == mtx = t /\ mtx' = NoOne
-----------------------------------------------------------------------------
(* drain(), executed by the workers and by the caller alike.               *)

Pull(t) ==
  /\ Goto(t, "pull", "claim")
  /\ idx' = [idx EXCEPT ![t] = next]
  /\ next' = next + 1
  /\ UNCHANGED <<mtx, job, active, epoch, stop, seen, call, hits>>

Exhausted(t) == idx[t] >= job.k \/ ChunkLo(idx[t], job.len) >= job.n

(* Read the job without the mutex: enter fn, or leave the loop (and i's    *)
(* scope).                                                                 *)
Enlist(t) ==
  /\ ~Exhausted(t)
  /\ Goto(t, "claim", "exec")
  /\ UNCHANGED <<mtx, job, next, active, epoch, stop, seen, idx, call, hits>>

(* Mutant: the caller reports like a worker, although active does not      *)
(* count it.                                                               *)
LeaveDrain_CallerReports(t) ==
  /\ Exhausted(t)
  /\ Goto(t, "claim", "report")
  /\ idx' = [idx EXCEPT ![t] = 0]
  /\ UNCHANGED <<mtx, job, next, active, epoch, stop, seen, call, hits>>

LeaveDrain(t) ==
  /\ Exhausted(t)
  /\ Goto(t, "claim", IF t = Caller THEN "join" ELSE "report")
  /\ idx' = [idx EXCEPT ![t] = 0]
  /\ UNCHANGED <<mtx, job, next, active, epoch, stop, seen, call, hits>>

(* fn(b, e) returns: fn has been applied to b .. e-1 once more.            *)
Execute(t) ==
  /\ Goto(t, "exec", "pull")
  /\ hits' = [x \in Indices |-> IF x \in RangeOf(t) THEN hits[x] + 1 ELSE hits[x]]
  /\ UNCHANGED <<mtx, job, next, active, epoch, stop, seen, idx, call>>
-----------------------------------------------------------------------------
(* worker_loop()                                                           *)

(* The predicate of cv_work.wait: stop || epoch != seen.                   *)
(* Mutant: the worker forgets to record the epoch it woke for.             *)
TakeJob_KeepsSeen(w) ==
  /\ ~stop /\ epoch # seen[w]
  /\ Goto(w, "test", "pull")
  /\ Release(w)
  /\ UNCHANGED <<job, next, active, epoch, stop, seen, idx, call, hits>>

TakeJob(w) ==
  /\ ~stop /\ epoch # seen[w]
  /\ Goto(w, "test", "pull")
  /\ Release(w)
  /\ seen' = [seen EXCEPT ![w] = epoch]
  /\ UNCHANGED <<job, next, active, epoch, stop, idx, call, hits>>

Exit(w) ==
  /\ stop
  /\ Goto(w, "test", "exited")
  /\ Release(w)
  /\ UNCHANGED <<job, next, active, epoch, stop, seen, idx, call, hits>>

NoJob(w) ==
  /\ ~stop /\ epoch = seen[w]
  /\ Goto(w, "test", "block")
  /\ UNCHANGED <<mtx, job, next, active, epoch, stop, seen, idx, call, hits>>

(* Unlock and block, in one step, as condition_variable::wait does.        *)
Block(w) ==
  /\ Goto(w, "block", "asleep")
  /\ Release(w)
  /\ UNCHANGED <<job, next, active, epoch, stop, seen, idx, call, hits>>

(* --active, and cv_done.notify_one by the last, still under mtx.          *)
(* Mutant: the last worker does not notify cv_done.                        *)
Report_Silent(w) ==
  /\ Goto(w, "dec", "lock")
  /\ Release(w)
  /\ active' = active - 1
  /\ UNCHANGED <<job, next, epoch, stop, seen, idx, call, hits>>

Report(w) ==
  /\ pc[w] = "dec"
  /\ Release(w)
  /\ active' = active - 1
  /\ pc' = [pc EXCEPT ![w] = "lock",
                      ![Caller] = IF active' = 0 /\ @ = "waits" THEN "join" ELSE @]
  /\ UNCHANGED <<job, next, epoch, stop, seen, idx, call, hits>>

(* A condition variable may wake a thread nobody notified.                 *)
SpuriousWake(t) ==
  /\ \/ Goto(t, "asleep", "lock")
     \/ Goto(t, "waits", "join")
  /\ UNCHANGED <<mtx, job, next, active, epoch, stop, seen, idx, call, hits>>

Worker(w) == Pull(w) \/ Enlist(w) \/ LeaveDrain(w) \/ Execute(w) \/ TakeJob(w) \/ Exit(w)
               \/ NoJob(w) \/ Block(w) \/ Report(w)
-----------------------------------------------------------------------------
(* parallel_for and run(), in the calling thread.                          *)

Call(n, min) ==
  /\ call.id < MaxCalls
  /\ Goto(Caller, "idle", "enter")
  /\ call' = [id |-> call.id + 1, n |-> n, min |-> min]
  /\ hits' = [x \in Indices |-> 0]
  /\ UNCHANGED <<mtx, job, next, active, epoch, stop, seen, idx>>

(* n <= 0 returns before pool() is evaluated; otherwise the first call     *)
(* constructs the pool.                                                    *)
Enter ==
  /\ Goto(Caller, "enter", IF call.n <= 0 THEN "idle" ELSE "spawn")
  /\ UNCHANGED <<mtx, job, next, active, epoch, stop, seen, idx, call, hits>>

(* One turn of the constructor's loop; the new worker may run at once.     *)
Spawn(w) ==
  /\ pc[Caller] = "spawn"
  /\ Goto(w, "unborn", "lock")
  /\ UNCHANGED <<mtx, job, next, active, epoch, stop, seen, idx, call, hits>>

(* The pool exists: run inline, or hand the job to run().                  *)
Dispatch ==
  /\ \A w \in Workers : pc[w] # "unborn"
  /\ Goto(Caller, "spawn",
          IF RunsInline(call.n, call.min, nthreads) THEN "inline" ELSE "post")
  /\ UNCHANGED <<mtx, job, next, active, epoch, stop, seen, idx, call, hits>>

Inline ==
  /\ Goto(Caller, "inline", "leave")
  /\ hits' = [x \in Indices |-> IF x < call.n THEN hits[x] + 1 ELSE hits[x]]
  /\ UNCHANGED <<mtx, job, next, active, epoch, stop, seen, idx, call>>

Leave ==
  /\ Goto(Caller, "leave", "idle")
  /\ UNCHANGED <<mtx, job, next, active, epoch, stop, seen, idx, call, hits>>

WriteJob ==
  /\ Goto(Caller, "write", "reset")
  /\ job' = [fn |-> call.id, n |-> call.n, k |-> count, len |-> len]
  /\ UNCHANGED <<mtx, next, active, epoch, stop, seen, idx, call, hits>>

(* Mutant: active starts one short, as if nthreads - 2 workers existed.    *)
ResetCounters_OneShort ==
  /\ Goto(Caller, "reset", "bump")
  /\ next' = 0
  /\ active' = Cardinality(Workers) - 1
  /\ UNCHANGED <<mtx, job, epoch, stop, seen, idx, call, hits>>

ResetCounters ==
  /\ Goto(Caller, "reset", "bump")
  /\ next' = 0
  /\ active' = Cardinality(Workers)
  /\ UNCHANGED <<mtx, job, epoch, stop, seen, idx, call, hits>>

BumpEpoch ==
  /\ Goto(Caller, "bump", "notify")
  /\ Release(Caller)
  /\ epoch' = epoch + 1
  /\ UNCHANGED <<job, next, active, stop, seen, idx, call, hits>>

(* notify_all wakes every worker blocked in cv_work.                       *)
WakeAll(from, to) ==
  /\ pc[Caller] = from
  /\ pc' = [t \in Threads |-> IF t = Caller THEN to
                              ELSE IF pc[t] = "asleep" THEN "lock" ELSE pc[t]]
  /\ UNCHANGED <<mtx, job, next, active, epoch, stop, seen, idx, call, hits>>

(* Mutant: notify_one instead of notify_all.                               *)
Notify_One ==
  \/ \E w \in Workers : /\ pc[Caller] = "notify" /\ pc[w] = "asleep"
                        /\ pc' = [pc EXCEPT ![Caller] = "pull", ![w] = "lock"]
                        /\ UNCHANGED <<mtx, job, next, active, epoch, stop, seen, idx, call, hits>>
  \/ /\ \A w \in Workers : pc[w] # "asleep"
     /\ Goto(Caller, "notify", "pull")
     /\ UNCHANGED <<mtx, job, next, active, epoch, stop, seen, idx, call, hits>>

Notify == WakeAll("notify", "pull")

(* cv_done.wait: return when active == 0, otherwise unlock and block.      *)
(* Mutant: the caller returns as soon as it has run out of chunks itself.  *)
Return_Early ==
  /\ Goto(Caller, "jtest", "idle")
  /\ Release(Caller)
  /\ UNCHANGED <<job, next, active, epoch, stop, seen, idx, call, hits>>

Return ==
  /\ active = 0
  /\ Goto(Caller, "jtest", "idle")
  /\ Release(Caller)
  /\ UNCHANGED <<job, next, active, epoch, stop, seen, idx, call, hits>>

NotYet ==
  /\ active # 0
  /\ Goto(Caller, "jtest", "jblock")
  /\ UNCHANGED <<mtx, job, next, active, epoch, stop, seen, idx, call, hits>>

AwaitDone ==
  /\ Goto(Caller, "jblock", "waits")
  /\ Release(Caller)
  /\ UNCHANGED <<job, next, active, epoch, stop, seen, idx, call, hits>>
-----------------------------------------------------------------------------
(* ~Pool(), when the static pool is destroyed at exit. A pool that was     *)
(* never constructed is not destroyed.                                     *)

Shutdown ==
  /\ Goto(Caller, "idle",
          IF \E w \in Workers : pc[w] = "unborn" THEN "ended" ELSE "dtor")
  /\ UNCHANGED <<mtx, job, next, active, epoch, stop, seen, idx, call, hits>>

SetStop ==
  /\ Goto(Caller, "stop", "dwake")
  /\ Release(Caller)
  /\ stop' = TRUE
  /\ UNCHANGED <<job, next, active, epoch, seen, idx, call, hits>>

(* Mutant: ~Pool sets stop and joins without notify_all.                   *)
NotifyStop_Silent ==
  /\ Goto(Caller, "dwake", "djoin")
  /\ UNCHANGED <<mtx, job, next, active, epoch, stop, seen, idx, call, hits>>

NotifyStop == WakeAll("dwake", "djoin")

JoinWorkers ==
  /\ \A w \in Workers : pc[w] = "exited"
  /\ Goto(Caller, "djoin", "ended")
  /\ UNCHANGED <<mtx, job, next, active, epoch, stop, seen, idx, call, hits>>

(* The program is over.                                                    *)
Ended == pc[Caller] = "ended" /\ UNCHANGED vars
-----------------------------------------------------------------------------
CallerStep ==
  \/ Enter \/ Dispatch \/ Inline \/ Leave \/ WriteJob \/ ResetCounters \/ BumpEpoch
  \/ Notify \/ Pull(Caller) \/ Enlist(Caller) \/ LeaveDrain(Caller) \/ Execute(Caller)
  \/ Return \/ NotYet \/ AwaitDone \/ SetStop \/ NotifyStop \/ JoinWorkers
  \/ \E w \in Workers : Spawn(w)

Next ==
  \/ \E n \in 0 .. MaxN, min \in MinChunks : Call(n, min)
  \/ Shutdown \/ CallerStep \/ Ended
  \/ \E w \in Workers : Worker(w)
  \/ \E t \in Threads : Acquire(t) \/ SpuriousWake(t)

(* A running thread keeps running, and a thread that waits for mtx gets it *)
(* if mtx is free again and again. Nobody has to call, to shut down, or to *)
(* wake spuriously.                                                        *)
Fairness ==
  /\ WF_vars(CallerStep)
  /\ \A w \in Workers : WF_vars(Worker(w))
  /\ \A t \in Threads : SF_vars(Acquire(t))

Spec == Init /\ [][Next]_vars
FairSpec == Spec /\ Fairness
-----------------------------------------------------------------------------
Locking == {"lock", "report", "join", "post", "dtor"}
Holding == {"test", "block", "dec", "jtest", "jblock", "write", "reset", "bump", "stop"}
Draining == {"pull", "claim", "exec"}
WorkerPC == {"unborn", "lock", "test", "block", "asleep", "report", "dec", "exited"}
              \cup Draining
RunPC == {"post", "write", "reset", "bump", "notify", "join", "jtest", "jblock", "waits"}
           \cup Draining
ClosedPC == {"dtor", "stop", "dwake", "djoin", "ended"}
CallerPC == {"idle", "enter", "spawn", "inline", "leave"} \cup RunPC \cup ClosedPC

ControlOK ==
  /\ pc \in [Threads -> WorkerPC \cup CallerPC]
  /\ pc[Caller] \in CallerPC
  /\ \A w \in Workers : pc[w] \in WorkerPC

(* Type correctness: every thread stays within its own code, and every     *)
(* variable and local of the pool keeps the type src/parallel.cpp declares.*)
TypeOK ==
  /\ ControlOK
  /\ mtx \in Threads \cup {NoOne}
  /\ job \in [fn : Nat, n : Nat, k : Int, len : Int]
  /\ next \in Nat
  /\ active \in Int
  /\ epoch \in Nat
  /\ stop \in BOOLEAN
  /\ seen \in [Workers -> Nat]
  /\ idx \in [Threads -> Nat]
  /\ call \in [id : Nat, n : 0 .. MaxN, min : Int]
  /\ hits \in [Indices -> Nat]

(* parallel_for returns only after fn has been applied to every index of   *)
(* [0, n), and to each exactly once, whichever threads ran the chunks and  *)
(* however late the workers woke ("returning when all ranges are done").   *)
ExactlyOnce ==
  pc[Caller] = "idle" => \A x \in Indices : hits[x] = IF x < call.n THEN 1 ELSE 0

(* "Each unit is independent, so the split is race-free": two threads are  *)
(* never inside fn on a common index, and never on one already done. This  *)
(* is what lets matvec and attention_flash_fast write without a lock.      *)
NoOverlap ==
  \A t \in Threads : pc[t] = "exec" =>
    /\ \A x \in RangeOf(t) : hits[x] = 0
    /\ \A s \in Threads \ {t} : pc[s] = "exec" => RangeOf(s) \cap RangeOf(t) = {}

(* fn is a reference to a temporary of the caller's frame, and job points  *)
(* to it: a thread is inside fn, or about to enter it, only while the call *)
(* that published this very fn is still inside run().                      *)
FnAlive ==
  \A t \in Threads : pc[t] \in Draining => job.fn = call.id /\ pc[Caller] \in RunPC

(* drain reads job, job_n, job_K, job_chunk and next without the mutex:    *)
(* no step may write job or reset next while any thread is draining, nor   *)
(* while a worker has yet to wake for the previous job.                    *)
Quiet ==
  /\ \A t \in Threads : pc[t] \notin Draining
  /\ \A w \in Workers : seen[w] = epoch
JobStable == [][job' # job \/ next' < next => Quiet]_vars

(* The handshake counter: while a job is out, active is exactly the number *)
(* of workers that have yet to wake for it or are still serving it, so     *)
(* active == 0 means that all of them are done, and it cannot go negative. *)
Pending == {w \in Workers : seen[w] # epoch \/ pc[w] \in Draining \cup {"report", "dec"}}
ActiveCount ==
  pc[Caller] \notin {"bump"} => active = Cardinality(Pending)

(* No wakeup is lost: a worker blocked in cv_work although there is a job  *)
(* it has not taken, or although it must exit, has its notify_all still to *)
(* come; and the caller blocks in cv_done only while some worker is yet to *)
(* report. (Setting the condition and testing it both happen under mtx.)   *)
NoLostWakeup ==
  /\ \A w \in Workers :
       pc[w] = "asleep" => /\ epoch # seen[w] => pc[Caller] = "notify"
                           /\ stop => pc[Caller] = "dwake"
  /\ pc[Caller] = "waits" => active # 0

(* "exact chunk count, no empties": drain's guard on an empty trailing     *)
(* chunk never fires, for any n, min_chunk and thread count.               *)
NoEmptyChunk ==
  \A t \in Threads :
    pc[t] = "claim" /\ idx[t] < job.k => ChunkLo(idx[t], job.len) < job.n

(* No wakeup is lost at exit: once ~Pool has begun, every worker leaves    *)
(* its loop and the joins return.                                          *)
ShutdownCompletes == pc[Caller] = "dtor" ~> pc[Caller] = "ended"
-----------------------------------------------------------------------------
(* The pool implements parallel_for's contract: what a caller sees is a    *)
(* call, contiguous ranges applied once each, and a return.                *)
phase == IF pc[Caller] = "idle" THEN "idle"
         ELSE IF pc[Caller] \in ClosedPC THEN "closed" ELSE "running"

PF == INSTANCE ParallelFor WITH phase <- phase, size <- call.n, hits <- hits

(* Every step of the pool is a step of ParallelFor or leaves its state.    *)
ImplementsParallelFor == PF!Spec

(* No wakeup is lost in a call: every parallel_for returns, although       *)
(* workers may wake late or spuriously.                                    *)
CallReturns == PF!Returns
=============================================================================
