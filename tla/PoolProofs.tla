----------------------------- MODULE PoolProofs -----------------------------
(***************************************************************************)
(* The safety properties of Pool, and that it implements ParallelFor, for  *)
(* every set of workers, every n and min_chunk and any number of calls.    *)
(* One lemma per conjunct of Inductive says that every step preserves it;  *)
(* Invariance puts them together; the theorems follow from Inductive.      *)
(***************************************************************************)
EXTENDS PoolInvariant, OperatorProofs, FiniteSetTheorems

(* The pool has finitely many threads, the caller among them.              *)
LEMMA Counting ==
  /\ Cardinality(Workers) \in Nat
  /\ nthreads \in Int /\ nthreads > 0
  BY PoolAssumption, FS_CardinalityType DEF nthreads

(* The split of a call that reached run().                                 *)
LEMMA CallSplit ==
  ASSUME TypeOK, Split, pc[Caller] \in RunPC
  PROVE  /\ len \in Int /\ len > 0
         /\ count \in Int /\ count > 0
         /\ (count - 1) * len < call.n
         /\ call.n <= count * len
  <1>1. call.n \in Int /\ call.min \in Int /\ call.n > 0
    BY DEF TypeOK, Split
  <1> QED BY <1>1, Counting, SplitShape DEF len, count

(* Every step keeps each thread within its own code.                       *)
LEMMA ControlStep == Inductive /\ Next => ControlOK'
  <1> SUFFICES ASSUME Inductive, Next PROVE ControlOK'
    OBVIOUS
  <1> TypeOK BY DEF Inductive
  <1> USE PoolAssumption DEF TypeOK, ControlOK, Goto, WakeAll, AfterLock,
        vars, Threads, WorkerPC, CallerPC, RunPC, ClosedPC, Draining
  <1>1. ASSUME NEW n \in 0 .. MaxN, NEW min \in MinChunks, Call(n, min)
        PROVE  ControlOK'
    BY <1>1 DEF Call
  <1>2. ASSUME Shutdown \/ Ended \/ Enter \/ Dispatch \/ Inline \/ Leave \/
           WriteJob \/ ResetCounters \/ BumpEpoch \/ Notify \/ Return \/
           NotYet \/ AwaitDone \/ SetStop \/ NotifyStop \/ JoinWorkers
        PROVE  ControlOK'
    BY <1>2 DEF Shutdown, Ended, Enter, Dispatch, Inline, Leave, WriteJob,
      ResetCounters, BumpEpoch, Notify, Return, NotYet, AwaitDone, SetStop,
      NotifyStop, JoinWorkers
  <1>3. ASSUME NEW w \in Workers, Spawn(w) \/ TakeJob(w) \/ Exit(w) \/
           NoJob(w) \/ Block(w)
        PROVE  ControlOK'
    BY <1>3 DEF Spawn, TakeJob, Exit, NoJob, Block
  <1>4. ASSUME NEW w \in Workers, Report(w)
        PROVE  ControlOK'
    BY <1>4 DEF Report
  <1>5. ASSUME NEW t \in Threads, Pull(t) \/ Enlist(t) \/ Execute(t) \/
           SpuriousWake(t)
        PROVE  ControlOK'
    BY <1>5 DEF Pull, Enlist, Execute, SpuriousWake
  <1>6. ASSUME NEW t \in Threads, LeaveDrain(t)
        PROVE  ControlOK'
    BY <1>6 DEF LeaveDrain
  <1>7. ASSUME NEW t \in Threads, Acquire(t)
        PROVE  ControlOK'
    BY <1>7 DEF Acquire
  <1> QED BY <1>1, <1>2, <1>3, <1>4, <1>5, <1>6, <1>7 DEF Next, CallerStep,
      Worker, Threads

(* Every step keeps the variables typed.                                   *)
LEMMA TypeStep == Inductive /\ Next => TypeOK'
  <1> SUFFICES ASSUME Inductive, Next PROVE TypeOK'
    OBVIOUS
  <1> TypeOK /\ Split /\ ControlOK' BY ControlStep DEF Inductive
  <1> USE PoolAssumption DEF TypeOK, Release, vars, Threads
  <1>1. ASSUME NEW n \in 0 .. MaxN, NEW min \in MinChunks, Call(n, min)
        PROVE  TypeOK'
    <2>1. hits' \in [Indices -> Nat] BY <1>1 DEF Call
    <2>2. call' \in [id : Nat, n : 0 .. MaxN, min : Int] BY <1>1 DEF Call
    <2> QED BY <1>1, <2>1, <2>2 DEF Call
  <1>2. ASSUME Shutdown \/ Ended \/ Enter \/ Dispatch \/ Leave \/ BumpEpoch
        PROVE  TypeOK'
    BY <1>2 DEF Shutdown, Ended, Enter, Dispatch, Leave, BumpEpoch
  <1>3. ASSUME Return \/ NotYet \/ AwaitDone \/ SetStop \/ JoinWorkers
        PROVE  TypeOK'
    BY <1>3 DEF Return, NotYet, AwaitDone, SetStop, JoinWorkers
  <1>4. ASSUME Inline
        PROVE  TypeOK'
    <2>1. \A x \in Indices : x \in Int BY DEF Indices
    <2>2. hits' \in [Indices -> Nat] BY <1>4, <2>1 DEF Inline
    <2> QED BY <1>4, <2>2 DEF Inline
  <1>5. ASSUME WriteJob
        PROVE  TypeOK'
    <2>1. len \in Int /\ count \in Int BY <1>5, CallSplit DEF WriteJob, RunPC,
      Goto
    <2> QED BY <1>5, <2>1 DEF WriteJob
  <1>6. ASSUME ResetCounters
        PROVE  TypeOK'
    BY <1>6, Counting DEF ResetCounters
  <1>7. ASSUME Notify
        PROVE  TypeOK'
    BY <1>7 DEF Notify, WakeAll
  <1>8. ASSUME NotifyStop
        PROVE  TypeOK'
    BY <1>8 DEF NotifyStop, WakeAll
  <1>9. ASSUME NEW w \in Workers, Spawn(w) \/ TakeJob(w) \/ Exit(w) \/
           NoJob(w) \/ Block(w) \/ Report(w)
        PROVE  TypeOK'
    BY <1>9 DEF Spawn, TakeJob, Exit, NoJob, Block, Report
  <1>10. ASSUME NEW t \in Threads, Enlist(t) \/ LeaveDrain(t) \/ Acquire(t) \/
           SpuriousWake(t)
        PROVE  TypeOK'
    BY <1>10 DEF Enlist, LeaveDrain, Acquire, SpuriousWake
  <1>11. ASSUME NEW t \in Threads, Pull(t)
        PROVE  TypeOK'
    <2>1. next' \in Nat /\ idx' \in [Threads -> Nat] BY <1>11 DEF Pull
    <2> QED BY <1>11, <2>1 DEF Pull
  <1>12. ASSUME NEW t \in Threads, Execute(t)
        PROVE  TypeOK'
    <2>1. hits' \in [Indices -> Nat] BY <1>12 DEF Execute
    <2> QED BY <1>12, <2>1 DEF Execute
  <1> QED BY <1>1, <1>2, <1>3, <1>4, <1>5, <1>6, <1>7, <1>8, <1>9, <1>10,
      <1>11, <1>12 DEF Next, CallerStep, Worker, Threads

(* Every step keeps the mutex with the thread inside a critical section.   *)
LEMMA MutexStep == Inductive /\ Next => Mutex'
  <1> SUFFICES ASSUME Inductive, Next PROVE Mutex'
    OBVIOUS
  <1> TypeOK /\ Mutex BY DEF Inductive
  <1> USE PoolAssumption DEF TypeOK, ControlOK, Mutex, Goto, Release, WakeAll,
        AfterLock, vars, Holding, Threads, WorkerPC, CallerPC, RunPC,
        ClosedPC, Draining
  <1>1. ASSUME NEW n \in 0 .. MaxN, NEW min \in MinChunks, Call(n, min)
        PROVE  Mutex'
    BY <1>1 DEF Call
  <1>2. ASSUME Shutdown \/ Ended \/ Enter \/ Dispatch \/ Inline \/ Leave \/
           WriteJob \/ ResetCounters \/ BumpEpoch \/ Notify \/ Return \/
           NotYet \/ AwaitDone \/ SetStop \/ NotifyStop \/ JoinWorkers
        PROVE  Mutex'
    BY <1>2 DEF Shutdown, Ended, Enter, Dispatch, Inline, Leave, WriteJob,
      ResetCounters, BumpEpoch, Notify, Return, NotYet, AwaitDone, SetStop,
      NotifyStop, JoinWorkers
  <1>3. ASSUME NEW w \in Workers, Spawn(w) \/ TakeJob(w) \/ Exit(w) \/
           NoJob(w) \/ Block(w)
        PROVE  Mutex'
    BY <1>3 DEF Spawn, TakeJob, Exit, NoJob, Block
  <1>4. ASSUME NEW w \in Workers, Report(w)
        PROVE  Mutex'
    BY <1>4 DEF Report
  <1>5. ASSUME NEW t \in Threads, Pull(t) \/ Enlist(t) \/ LeaveDrain(t) \/
           Execute(t) \/ SpuriousWake(t)
        PROVE  Mutex'
    BY <1>5 DEF Pull, Enlist, LeaveDrain, Execute, SpuriousWake
  <1>6. ASSUME NEW t \in Threads, Acquire(t)
        PROVE  Mutex'
    BY <1>6 DEF Acquire
  <1> QED BY <1>1, <1>2, <1>3, <1>4, <1>5, <1>6 DEF Next, CallerStep, Worker,
      Threads


(* Who is pending is a finite set, and empty exactly when its size is 0.   *)
LEMMA PendingFinite ==
  /\ IsFiniteSet(Pending)
  /\ Cardinality(Pending) \in Nat
  /\ Cardinality(Pending) = 0 <=> Pending = {}
  <1>1. Pending \subseteq Workers BY DEF Pending
  <1>2. IsFiniteSet(Pending) BY <1>1, PoolAssumption, FS_Subset
  <1> QED BY <1>2, FS_CardinalityType, FS_EmptySet

(* Every step keeps active equal to the number of workers a job is waiting *)
(* for.                                                                    *)
LEMMA HandshakeStep == Inductive /\ Next => Handshake'
  <1> SUFFICES ASSUME Inductive, Next PROVE Handshake'
    OBVIOUS
  <1> TypeOK /\ Handshake BY DEF Inductive
  <1> USE PoolAssumption DEF TypeOK, ControlOK, Handshake, Serving, OutPC,
        Goto, WakeAll, AfterLock, vars, Threads, WorkerPC, CallerPC, RunPC,
        ClosedPC, Draining
  <1>1. ASSUME NEW n \in 0 .. MaxN, NEW min \in MinChunks, Call(n, min)
        PROVE  Handshake'
    <2>1. Pending' = Pending BY <1>1 DEF Call, Pending
    <2> QED BY <1>1, <2>1 DEF Call
  <1>2. ASSUME Shutdown \/ Ended \/ Enter \/ Dispatch \/ Inline \/ Leave
        PROVE  Handshake'
    <2>1. Pending' = Pending BY <1>2 DEF Shutdown, Ended, Enter, Dispatch,
      Inline, Leave, Pending
    <2> QED BY <1>2, <2>1 DEF Shutdown, Ended, Enter, Dispatch, Inline, Leave
  <1>3. ASSUME WriteJob \/ Notify \/ NotYet \/ AwaitDone \/ SetStop \/
           NotifyStop
        PROVE  Handshake'
    <2>1. Pending' = Pending BY <1>3 DEF WriteJob, Notify, NotYet, AwaitDone,
      SetStop, NotifyStop, Pending
    <2> QED BY <1>3, <2>1 DEF WriteJob, Notify, NotYet, AwaitDone, SetStop,
      NotifyStop
  <1>4. ASSUME JoinWorkers
        PROVE  Handshake'
    <2>1. Pending' = Pending BY <1>4 DEF JoinWorkers, Pending
    <2> QED BY <1>4, <2>1 DEF JoinWorkers
  <1>5. ASSUME ResetCounters
        PROVE  Handshake'
    <2>1. Pending' = Pending BY <1>5 DEF ResetCounters, Pending
    <2> QED BY <1>5, <2>1, Counting DEF ResetCounters
  <1>6. ASSUME BumpEpoch
        PROVE  Handshake'
    <2>1. \A w \in Workers : seen[w] = epoch BY <1>6 DEF BumpEpoch, Pending
    <2>2. Pending' = Workers BY <1>6, <2>1 DEF BumpEpoch, Pending
    <2> QED BY <1>6, <2>1, <2>2 DEF BumpEpoch, Pending
  <1>7. ASSUME Return
        PROVE  Handshake'
    <2>1. Pending' = Pending BY <1>7 DEF Return, Pending
    <2> QED BY <1>7, <2>1, PendingFinite DEF Return
  <1>8. ASSUME NEW w \in Workers, Spawn(w) \/ TakeJob(w) \/ Exit(w) \/
           NoJob(w) \/ Block(w)
        PROVE  Handshake'
    <2>1. Pending' = Pending BY <1>8 DEF Spawn, TakeJob, Exit, NoJob, Block,
      Pending
    <2> QED BY <1>8, <2>1 DEF Spawn, TakeJob, Exit, NoJob, Block
  <1>9. ASSUME NEW w \in Workers, Report(w)
        PROVE  Handshake'
    <2>1. w \in Pending /\ Pending' = Pending \ {w} BY <1>9 DEF Report,
      Pending
    <2>2. Cardinality(Pending') = Cardinality(Pending) - 1
      BY <2>1, PendingFinite, FS_RemoveElement
    <2> QED BY <1>9, <2>1, <2>2 DEF Report
  <1>10. ASSUME NEW t \in Threads, Enlist(t) \/ LeaveDrain(t) \/ Execute(t) \/
           Acquire(t) \/ SpuriousWake(t)
        PROVE  Handshake'
    <2>1. Pending' = Pending BY <1>10 DEF Enlist, LeaveDrain, Execute,
      Acquire, SpuriousWake, Pending
    <2> QED BY <1>10, <2>1 DEF Enlist, LeaveDrain, Execute, Acquire,
      SpuriousWake
  <1>11. ASSUME NEW t \in Threads, Pull(t)
        PROVE  Handshake'
    <2>1. Pending' = Pending /\ pc[Caller] # "bump" BY <1>11 DEF Pull, Pending
    <2> QED BY <1>11, <2>1 DEF Pull
  <1> QED BY <1>1, <1>2, <1>3, <1>4, <1>5, <1>6, <1>7, <1>8, <1>9, <1>10,
      <1>11 DEF Next, CallerStep, Worker, Threads

(* While a job is out it is the job of the call in progress, and its       *)
(* chunks partition [0, n).                                                *)
LEMMA JobShape ==
  ASSUME Inductive, pc[Caller] \in OutPC
  PROVE  /\ job.fn = call.id /\ job.n = call.n
         /\ job.n \in Int /\ job.n > 0
         /\ job.len \in Int /\ job.len > 0
         /\ job.k \in Int /\ job.k > 0
         /\ (job.k - 1) * job.len < job.n
         /\ job.n <= job.k * job.len
  <1>1. pc[Caller] \in RunPC BY DEF OutPC, RunPC, Draining
  <1>2. job = [fn |-> call.id, n |-> call.n, k |-> count, len |-> len]
    BY DEF Inductive, Published, PublishedPC
  <1>3. call.n \in Int /\ call.n > 0 BY <1>1 DEF Inductive, TypeOK, Split
  <1> QED BY <1>1, <1>2, <1>3, CallSplit DEF Inductive

(* A thread that is draining serves a published job: the caller is still   *)
(* inside run().                                                           *)
LEMMA DrainersOut ==
  ASSUME Inductive, NEW t \in Threads, pc[t] \in Draining
  PROVE  /\ pc[Caller] \in OutPC
         /\ job.fn = call.id /\ job.n = call.n
         /\ job.n \in Int /\ job.n > 0
         /\ job.len \in Int /\ job.len > 0
         /\ job.k \in Int /\ job.k > 0
         /\ (job.k - 1) * job.len < job.n
         /\ job.n <= job.k * job.len
  <1>1. pc[Caller] \in OutPC
    <2>1. CASE t = Caller BY <2>1 DEF OutPC
    <2>2. CASE t # Caller
      <3>1. t \in Pending BY <2>2 DEF Threads, Pending
      <3> QED BY <3>1 DEF Inductive, Handshake
    <2> QED BY <2>1, <2>2
  <1> QED BY <1>1, JobShape

(* Every step keeps the published job that of the call in progress.        *)
LEMMA PublishedStep == Inductive /\ Next => Published'
  <1> SUFFICES ASSUME Inductive, Next PROVE Published'
    OBVIOUS
  <1> TypeOK /\ Published BY DEF Inductive
  <1> USE PoolAssumption DEF TypeOK, ControlOK, Published, PublishedPC, OutPC,
        Goto, WakeAll, AfterLock, vars, len, count, Threads, WorkerPC,
        CallerPC, RunPC, ClosedPC, Draining
  <1>1. ASSUME NEW n \in 0 .. MaxN, NEW min \in MinChunks, Call(n, min)
        PROVE  Published'
    BY <1>1 DEF Call
  <1>2. ASSUME Shutdown \/ Ended \/ Enter \/ Dispatch \/ Inline \/ Leave
        PROVE  Published'
    BY <1>2 DEF Shutdown, Ended, Enter, Dispatch, Inline, Leave
  <1>3. ASSUME WriteJob \/ ResetCounters \/ BumpEpoch \/ Notify \/ Return \/
           NotYet
        PROVE  Published'
    BY <1>3 DEF WriteJob, ResetCounters, BumpEpoch, Notify, Return, NotYet
  <1>4. ASSUME AwaitDone \/ SetStop \/ NotifyStop \/ JoinWorkers
        PROVE  Published'
    BY <1>4 DEF AwaitDone, SetStop, NotifyStop, JoinWorkers
  <1>5. ASSUME NEW w \in Workers, Spawn(w) \/ TakeJob(w) \/ Exit(w) \/
           NoJob(w) \/ Block(w) \/ Report(w)
        PROVE  Published'
    BY <1>5 DEF Spawn, TakeJob, Exit, NoJob, Block, Report
  <1>6. ASSUME NEW t \in Threads, Pull(t) \/ Enlist(t) \/ LeaveDrain(t) \/
           Execute(t) \/ Acquire(t) \/ SpuriousWake(t)
        PROVE  Published'
    BY <1>6 DEF Pull, Enlist, LeaveDrain, Execute, Acquire, SpuriousWake
  <1> QED BY <1>1, <1>2, <1>3, <1>4, <1>5, <1>6 DEF Next, CallerStep, Worker,
      Threads

(* Every step keeps run() to calls worth splitting.                        *)
LEMMA SplitStep == Inductive /\ Next => Split'
  <1> SUFFICES ASSUME Inductive, Next PROVE Split'
    OBVIOUS
  <1> TypeOK /\ Split BY DEF Inductive
  <1> USE PoolAssumption DEF TypeOK, ControlOK, Split, Goto, WakeAll,
        AfterLock, vars, Threads, WorkerPC, CallerPC, RunPC, ClosedPC,
        Draining
  <1>1. ASSUME NEW n \in 0 .. MaxN, NEW min \in MinChunks, Call(n, min)
        PROVE  Split'
    BY <1>1 DEF Call
  <1>2. ASSUME Shutdown \/ Ended \/ Enter \/ Dispatch \/ Inline \/ Leave
        PROVE  Split'
    BY <1>2 DEF Shutdown, Ended, Enter, Dispatch, Inline, Leave
  <1>3. ASSUME WriteJob \/ ResetCounters \/ BumpEpoch \/ Notify \/ Return \/
           NotYet
        PROVE  Split'
    BY <1>3 DEF WriteJob, ResetCounters, BumpEpoch, Notify, Return, NotYet
  <1>4. ASSUME AwaitDone \/ SetStop \/ NotifyStop \/ JoinWorkers
        PROVE  Split'
    BY <1>4 DEF AwaitDone, SetStop, NotifyStop, JoinWorkers
  <1>5. ASSUME NEW w \in Workers, Spawn(w) \/ TakeJob(w) \/ Exit(w) \/
           NoJob(w) \/ Block(w) \/ Report(w)
        PROVE  Split'
    BY <1>5 DEF Spawn, TakeJob, Exit, NoJob, Block, Report
  <1>6. ASSUME NEW t \in Threads, Pull(t) \/ Enlist(t) \/ LeaveDrain(t) \/
           Execute(t) \/ Acquire(t) \/ SpuriousWake(t)
        PROVE  Split'
    BY <1>6 DEF Pull, Enlist, LeaveDrain, Execute, Acquire, SpuriousWake
  <1> QED BY <1>1, <1>2, <1>3, <1>4, <1>5, <1>6 DEF Next, CallerStep, Worker,
      Threads

(* Every step keeps the chunks that threads hold distinct.                 *)
LEMMA ClaimsStep == Inductive /\ Next => Claims'
  <1> SUFFICES ASSUME Inductive, Next PROVE Claims'
    OBVIOUS
  <1> TypeOK /\ Claims BY DEF Inductive
  <1> USE PoolAssumption DEF TypeOK, ControlOK, Claims, Holder, Goto, WakeAll,
        AfterLock, vars, Threads, WorkerPC, CallerPC, RunPC, ClosedPC,
        Draining
  <1>1. ASSUME NEW n \in 0 .. MaxN, NEW min \in MinChunks, Call(n, min)
        PROVE  Claims'
    BY <1>1 DEF Call
  <1>2. ASSUME Shutdown \/ Ended \/ Enter \/ Dispatch \/ Inline \/ Leave
        PROVE  Claims'
    BY <1>2 DEF Shutdown, Ended, Enter, Dispatch, Inline, Leave
  <1>3. ASSUME BumpEpoch \/ Notify \/ Return \/ NotYet \/ AwaitDone \/ SetStop
        PROVE  Claims'
    BY <1>3 DEF BumpEpoch, Notify, Return, NotYet, AwaitDone, SetStop
  <1>4. ASSUME NotifyStop \/ JoinWorkers
        PROVE  Claims'
    BY <1>4 DEF NotifyStop, JoinWorkers
  <1>5. ASSUME WriteJob
        PROVE  Claims'
    <2>1. \A t \in Threads : ~Holder(t)
      BY <1>5, DrainersOut DEF WriteJob, OutPC, Draining, Holder
    <2> QED BY <1>5, <2>1 DEF WriteJob
  <1>6. ASSUME ResetCounters
        PROVE  Claims'
    <2>1. \A t \in Threads : ~Holder(t)
      BY <1>6, DrainersOut DEF ResetCounters, OutPC, Draining, Holder
    <2> QED BY <1>6, <2>1 DEF ResetCounters
  <1>7. ASSUME NEW w \in Workers, Spawn(w) \/ TakeJob(w) \/ Exit(w) \/
           NoJob(w) \/ Block(w) \/ Report(w)
        PROVE  Claims'
    BY <1>7 DEF Spawn, TakeJob, Exit, NoJob, Block, Report
  <1>8. ASSUME NEW t \in Threads, Pull(t)
        PROVE  Claims'
    BY <1>8 DEF Pull
  <1>9. ASSUME NEW t \in Threads, Enlist(t)
        PROVE  Claims'
    BY <1>9 DEF Enlist, Exhausted
  <1>10. ASSUME NEW t \in Threads, LeaveDrain(t)
        PROVE  Claims'
    BY <1>10 DEF LeaveDrain
  <1>11. ASSUME NEW t \in Threads, Execute(t)
        PROVE  Claims'
    BY <1>11 DEF Execute
  <1>12. ASSUME NEW t \in Threads, Acquire(t)
        PROVE  Claims'
    BY <1>12 DEF Acquire
  <1>13. ASSUME NEW t \in Threads, SpuriousWake(t)
        PROVE  Claims'
    BY <1>13 DEF SpuriousWake
  <1> QED BY <1>1, <1>2, <1>3, <1>4, <1>5, <1>6, <1>7, <1>8, <1>9, <1>10,
      <1>11, <1>12, <1>13 DEF Next, CallerStep, Worker, Threads

(* No step loses a wakeup.                                                 *)
LEMMA AwakeStep == Inductive /\ Next => Awake'
  <1> SUFFICES ASSUME Inductive, Next PROVE Awake'
    OBVIOUS
  <1> TypeOK /\ Mutex /\ Handshake /\ Awake BY DEF Inductive
  <1> USE PoolAssumption DEF TypeOK, ControlOK, Mutex, Holding, Awake,
        NoLostWakeup, Goto, Release, WakeAll, AfterLock, vars, Threads,
        WorkerPC, CallerPC, RunPC, ClosedPC, Draining
  <1>1. ASSUME NEW n \in 0 .. MaxN, NEW min \in MinChunks, Call(n, min)
        PROVE  Awake'
    BY <1>1 DEF Call
  <1>2. ASSUME Shutdown \/ Ended \/ Enter \/ Dispatch \/ Inline \/ Leave
        PROVE  Awake'
    BY <1>2 DEF Shutdown, Ended, Enter, Dispatch, Inline, Leave
  <1>3. ASSUME WriteJob \/ ResetCounters \/ BumpEpoch \/ Notify \/ Return \/
           NotYet
        PROVE  Awake'
    BY <1>3 DEF WriteJob, ResetCounters, BumpEpoch, Notify, Return, NotYet
  <1>4. ASSUME AwaitDone \/ SetStop \/ NotifyStop \/ JoinWorkers
        PROVE  Awake'
    BY <1>4 DEF AwaitDone, SetStop, NotifyStop, JoinWorkers
  <1>5. ASSUME NEW w \in Workers, Spawn(w) \/ TakeJob(w) \/ Exit(w) \/
           NoJob(w) \/ Block(w) \/ Report(w)
        PROVE  Awake'
    BY <1>5 DEF Spawn, TakeJob, Exit, NoJob, Block, Report
  <1>6. ASSUME NEW t \in Threads, Pull(t) \/ Enlist(t) \/ LeaveDrain(t) \/
           Execute(t) \/ Acquire(t) \/ SpuriousWake(t)
        PROVE  Awake'
    BY <1>6 DEF Pull, Enlist, LeaveDrain, Execute, Acquire, SpuriousWake
  <1> QED BY <1>1, <1>2, <1>3, <1>4, <1>5, <1>6 DEF Next, CallerStep, Worker,
      Threads

(* A thread leaves drain only when every chunk index has been pulled.      *)
LEMMA ExhaustedMeans ==
  ASSUME Inductive, NEW t \in Threads, pc[t] = "claim", Exhausted(t)
  PROVE  idx[t] >= job.k
  <1>1. idx[t] \in Nat /\ job.k \in Int /\ job.n \in Int
    BY DEF Inductive, TypeOK
  <1>2. pc[t] \in Draining BY DEF Draining
  <1>3. SUFFICES ASSUME idx[t] < job.k PROVE FALSE BY <1>1
  <1>4. ChunkLo(idx[t], job.len) < job.n
    <2>1. ChunkLo(idx[t], job.len) \in Nat
            /\ ChunkHi(idx[t], job.n, job.len) \in Int
            /\ ChunkLo(idx[t], job.len) < ChunkHi(idx[t], job.n, job.len)
            /\ ChunkHi(idx[t], job.n, job.len) <= job.n
      BY <1>1, <1>2, <1>3, DrainersOut, ChunkNonempty
    <2> QED BY <1>1, <2>1
  <1>5. ChunkLo(idx[t], job.len) \in Int BY <1>1, <1>2, DrainersOut DEF ChunkLo
  <1> QED BY <1>1, <1>3, <1>4, <1>5 DEF Exhausted

(* Every step keeps fn applied to exactly the chunks that are done.        *)
LEMMA CoveredStep == Inductive /\ Next => Covered'
  <1> SUFFICES ASSUME Inductive, Next PROVE Covered'
    OBVIOUS
  <1> TypeOK /\ ControlOK /\ Handshake /\ Claims /\ Covered /\ Applied BY DEF
        Inductive, TypeOK
  <1> USE PoolAssumption DEF ControlOK, Covered, OutPC, Goto, WakeAll,
        AfterLock, vars, Threads, WorkerPC, CallerPC, RunPC, ClosedPC,
        Draining
  <1>1. ASSUME NEW n \in 0 .. MaxN, NEW min \in MinChunks, Call(n, min)
        PROVE  Covered'
    <2>1. \A c \in Nat : Done(c)' = Done(c) BY <1>1 DEF Call, Done, Holder
    <2> QED BY <1>1, <2>1 DEF Call
  <1>2. ASSUME Shutdown \/ Ended \/ Enter \/ Dispatch \/ Inline \/ Leave
        PROVE  Covered'
    <2>1. \A c \in Nat : Done(c)' = Done(c) BY <1>2 DEF Shutdown, Ended,
      Enter, Dispatch, Inline, Leave, Done, Holder
    <2> QED BY <1>2, <2>1 DEF Shutdown, Ended, Enter, Dispatch, Inline, Leave
  <1>3. ASSUME Notify \/ Return \/ NotYet \/ AwaitDone \/ SetStop \/
           NotifyStop
        PROVE  Covered'
    <2>1. \A c \in Nat : Done(c)' = Done(c) BY <1>3 DEF Notify, Return,
      NotYet, AwaitDone, SetStop, NotifyStop, Done, Holder
    <2> QED BY <1>3, <2>1 DEF Notify, Return, NotYet, AwaitDone, SetStop,
      NotifyStop
  <1>4. ASSUME JoinWorkers
        PROVE  Covered'
    <2>1. \A c \in Nat : Done(c)' = Done(c) BY <1>4 DEF JoinWorkers, Done,
      Holder
    <2> QED BY <1>4, <2>1 DEF JoinWorkers
  <1>5. ASSUME WriteJob
        PROVE  Covered'
    BY <1>5 DEF WriteJob
  <1>6. ASSUME ResetCounters
        PROVE  Covered'
    BY <1>6 DEF ResetCounters
  <1>7. ASSUME BumpEpoch
        PROVE  Covered'
    <2>1. next' = 0 /\ hits' = hits /\ job' = job /\ (\A x \in Indices :
      hits[x] = 0)
      BY <1>7 DEF BumpEpoch, Handshake, Applied, FreshPC
    <2>2. \A c \in Nat : ~Done(c)' BY <2>1 DEF Done
    <2> QED BY <2>1, <2>2
  <1>8. ASSUME NEW w \in Workers, Spawn(w) \/ TakeJob(w) \/ Exit(w) \/
           NoJob(w) \/ Block(w) \/ Report(w)
        PROVE  Covered'
    <2>1. \A c \in Nat : Done(c)' = Done(c) BY <1>8 DEF Spawn, TakeJob, Exit,
      NoJob, Block, Report, Done, Holder
    <2> QED BY <1>8, <2>1 DEF Spawn, TakeJob, Exit, NoJob, Block, Report
  <1>9. ASSUME NEW t \in Threads, Enlist(t) \/ Acquire(t) \/ SpuriousWake(t)
        PROVE  Covered'
    <2>1. \A c \in Nat : Done(c)' = Done(c) BY <1>9 DEF Enlist, Acquire,
      SpuriousWake, Done, Holder
    <2> QED BY <1>9, <2>1 DEF Enlist, Acquire, SpuriousWake
  <1>10. ASSUME NEW t \in Threads, Pull(t)
        PROVE  Covered'
    <2>1. next \in Nat /\ idx \in [Threads -> Nat] BY DEF TypeOK
    <2>2. \A c \in Nat : Done(c)' = Done(c) BY <1>10, <2>1 DEF Pull, Done,
      Holder
    <2> QED BY <1>10, <2>2 DEF Pull
  <1>11. ASSUME NEW t \in Threads, LeaveDrain(t)
        PROVE  Covered'
    <2>1. idx[t] >= job.k /\ idx[t] \in Int /\ job.k \in Int BY <1>11,
      ExhaustedMeans DEF LeaveDrain, TypeOK
    <2>2. \A c \in 0 .. job.k - 1 : Done(c)' = Done(c) BY <1>11, <2>1 DEF
      LeaveDrain, Done, Holder
    <2> QED BY <1>11, <2>2 DEF LeaveDrain
  <1>12. ASSUME NEW t \in Threads, Execute(t)
        PROVE  Covered'
    <2>1. /\ job' = job /\ next' = next /\ idx' = idx
          /\ idx[t] \in Nat /\ idx[t] < next /\ idx[t] < job.k
          /\ pc[Caller] \in OutPC
          /\ job.n \in Int /\ job.len \in Int /\ job.len > 0
      BY <1>12, DrainersOut DEF Execute, Claims, TypeOK, Holder
    <2>2. ASSUME NEW x \in Indices, NEW c \in 0 .. job.k - 1,
                 x \in ChunkSet(c, job.n, job.len)
          PROVE  hits'[x] = IF Done(c)' THEN 1 ELSE 0
      <3>1. CASE c = idx[t]
        <4>1. ~Done(c) BY <1>12, <3>1 DEF Execute, Done, Holder
        <4>2. Done(c)' BY <1>12, <2>1, <3>1 DEF Execute, Claims, Done, Holder
        <4>3. hits[x] = 0 BY <2>1, <2>2, <4>1 DEF Covered
        <4>4. x \in RangeOf(t) BY <2>2, <3>1 DEF RangeOf
        <4> QED BY <1>12, <2>2, <4>2, <4>3, <4>4 DEF Execute
      <3>2. CASE c # idx[t]
        <4>1. Done(c)' = Done(c) BY <1>12, <2>1, <3>2 DEF Execute, Done,
          Holder
        <4>2. x \notin RangeOf(t)
          BY <2>1, <2>2, <3>2, ChunksDisjoint DEF RangeOf
        <4>3. hits'[x] = hits[x] BY <1>12, <2>2, <4>2 DEF Execute
        <4> QED BY <2>1, <2>2, <4>1, <4>3 DEF Covered
      <3> QED BY <3>1, <3>2
    <2> QED BY <2>1, <2>2
  <1> QED BY <1>1, <1>2, <1>3, <1>4, <1>5, <1>6, <1>7, <1>8, <1>9, <1>10,
      <1>11, <1>12 DEF Next, CallerStep, Worker, Threads

(* Indices are natural numbers.                                            *)
LEMMA IndexTypes == \A x \in Indices : x \in Nat
  BY PoolAssumption DEF Indices

(* Every step keeps fn unapplied before the job is out, and applied to all *)
(* of [0, n) after run() has returned.                                     *)
LEMMA AppliedStep == Inductive /\ Next => Applied'
  <1> SUFFICES ASSUME Inductive, Next PROVE Applied'
    OBVIOUS
  <1> TypeOK /\ ControlOK /\ Handshake /\ Claims /\ Covered /\ Applied BY DEF
        Inductive, TypeOK
  <1> USE PoolAssumption DEF ControlOK, Applied, FreshPC, Goto, WakeAll,
        AfterLock, vars, Threads, WorkerPC, CallerPC, RunPC, ClosedPC,
        Draining
  <1>1. ASSUME NEW n \in 0 .. MaxN, NEW min \in MinChunks, Call(n, min)
        PROVE  Applied'
    BY <1>1, IndexTypes DEF Call
  <1>2. ASSUME Shutdown \/ Ended \/ Dispatch \/ Leave \/ ResetCounters \/
           BumpEpoch
        PROVE  Applied'
    BY <1>2 DEF Shutdown, Ended, Dispatch, Leave, ResetCounters, BumpEpoch
  <1>3. ASSUME Notify \/ NotYet \/ AwaitDone \/ SetStop \/ NotifyStop \/
           JoinWorkers
        PROVE  Applied'
    BY <1>3 DEF Notify, NotYet, AwaitDone, SetStop, NotifyStop, JoinWorkers
  <1>4. ASSUME Enter
        PROVE  Applied'
    <2>1. call.n \in Int BY DEF TypeOK
    <2> QED BY <1>4, <2>1, IndexTypes DEF Enter
  <1>5. ASSUME Inline
        PROVE  Applied'
    <2>1. call.n \in Int BY DEF TypeOK
    <2>2. \A x \in Indices : hits[x] = 0 BY <1>5 DEF Inline
    <2>3. \A x \in Indices : hits'[x] = IF x < call.n THEN 1 ELSE 0
      BY <1>5, <2>2 DEF Inline
    <2> QED BY <1>5, <2>1, <2>3, IndexTypes DEF Inline
  <1>6. ASSUME WriteJob
        PROVE  Applied'
    BY <1>6 DEF WriteJob
  <1>7. ASSUME Return
        PROVE  Applied'
    <2>1. Pending = {} BY <1>7, PendingFinite DEF Return, Handshake
    <2>2. \A t \in Threads : ~Holder(t)
      BY <1>7, <2>1 DEF Return, Pending, Holder
    <2>3. next \in Nat /\ next >= job.k /\ job.k \in Int BY <1>7 DEF Return,
      TypeOK
    <2>4. \A c \in 0 .. job.k - 1 : Done(c) BY <2>2, <2>3 DEF Done
    <2>5. job.n = call.n /\ job.n \in Int /\ job.len \in Int /\ job.len > 0 /\
      job.n <= job.k * job.len
      BY <1>7, JobShape DEF Return, OutPC
    <2>6. ASSUME NEW x \in Indices, x < call.n PROVE hits[x] = 1
      <3>1. PICK c \in 0 .. job.k - 1 : x \in ChunkSet(c, job.n, job.len)
        BY <2>3, <2>5, <2>6, IndexTypes, ChunksCover
      <3> QED BY <1>7, <2>4, <3>1 DEF Return, Covered, OutPC
    <2> QED BY <1>7, <2>6 DEF Return
  <1>8. ASSUME NEW w \in Workers, Spawn(w) \/ TakeJob(w) \/ Exit(w) \/
           NoJob(w) \/ Block(w) \/ Report(w)
        PROVE  Applied'
    BY <1>8 DEF Spawn, TakeJob, Exit, NoJob, Block, Report
  <1>9. ASSUME NEW t \in Threads, Enlist(t) \/ Acquire(t) \/ SpuriousWake(t)
        PROVE  Applied'
    BY <1>9 DEF Enlist, Acquire, SpuriousWake
  <1>10. ASSUME NEW t \in Threads, Pull(t)
        PROVE  Applied'
    BY <1>10 DEF Pull, TypeOK
  <1>11. ASSUME NEW t \in Threads, LeaveDrain(t)
        PROVE  Applied'
    <2>1. idx[t] >= job.k /\ idx[t] < next /\ idx[t] \in Int /\ job.k \in Int
      /\ next \in Int
      BY <1>11, ExhaustedMeans DEF LeaveDrain, Claims, Holder, TypeOK
    <2> QED BY <1>11, <2>1 DEF LeaveDrain
  <1>12. ASSUME NEW t \in Threads, Execute(t)
        PROVE  Applied'
    <2>1. pc[Caller] \in OutPC /\ pc'[Caller] \in OutPC
      BY <1>12, DrainersOut DEF Execute, OutPC
    <2>2. ASSUME NEW x \in Indices, x >= call.n PROVE hits'[x] = 0
      <3>1. job.n = call.n /\ job.n \in Int /\ job.len \in Int /\ job.len > 0
        /\ idx[t] \in Nat
        BY <1>12, DrainersOut DEF Execute, TypeOK
      <3>2. x \notin RangeOf(t) BY <2>2, <3>1, ChunkWithin DEF RangeOf
      <3> QED BY <1>12, <2>2, <3>2 DEF Execute
    <2>3. call' = call /\ job' = job /\ next' = next BY <1>12 DEF Execute
    <2>4. pc[Caller] \in {"join", "jtest", "jblock", "waits"} <=> pc'[Caller]
      \in {"join", "jtest", "jblock", "waits"}
      BY <1>12 DEF Execute
    <2> QED BY <2>1, <2>2, <2>3, <2>4 DEF OutPC
  <1> QED BY <1>1, <1>2, <1>3, <1>4, <1>5, <1>6, <1>7, <1>8, <1>9, <1>10,
      <1>11, <1>12 DEF Next, CallerStep, Worker, Threads

(* The initial state satisfies the inductive invariant.                    *)
LEMMA InitInductive == Init => Inductive
  <1> SUFFICES ASSUME Init PROVE Inductive
    OBVIOUS
  <1> USE PoolAssumption
  <1>1. pc \in [Threads -> {"idle", "unborn"}] /\ pc[Caller] = "idle"
          /\ (\A w \in Workers : pc[w] = "unborn")
    BY DEF Init, Threads
  <1>2. TypeOK
    <2>1. ControlOK
      BY <1>1 DEF ControlOK, CallerPC, WorkerPC, Threads
    <2>2. hits \in [Indices -> Nat] BY DEF Init
    <2>3. call \in [id : Nat, n : 0 .. MaxN, min : Int] BY DEF Init
    <2>4. job \in [fn : Nat, n : Nat, k : Int, len : Int] BY DEF Init
    <2>5. seen \in [Workers -> Nat] /\ idx \in [Threads -> Nat] BY DEF Init
    <2> QED BY <2>1, <2>2, <2>3, <2>4, <2>5 DEF Init, TypeOK
  <1>3. Pending = {} BY <1>1 DEF Init, Pending, Draining
  <1>4. Mutex BY <1>1 DEF Init, Mutex, Holding, Threads
  <1>5. Handshake
    BY <1>1, <1>3, FS_EmptySet DEF Init, Handshake, Serving, OutPC, Draining
  <1>6. Published /\ Split /\ Claims /\ Covered
    BY <1>1 DEF Init, Published, PublishedPC, Split, RunPC, OutPC, Draining,
                Claims, Holder, Covered
  <1>7. Applied
    BY <1>1, IndexTypes DEF Init, Applied, FreshPC, ClosedPC
  <1>8. Awake
    BY <1>1 DEF Init, Awake, NoLostWakeup
  <1> QED BY <1>2, <1>4, <1>5, <1>6, <1>7, <1>8 DEF Inductive

(* A step that changes nothing keeps the invariant.                        *)
LEMMA StutterInductive == Inductive /\ UNCHANGED vars => Inductive'
  <1> SUFFICES ASSUME Inductive, UNCHANGED vars PROVE Inductive'
    OBVIOUS
  <1>1. TypeOK' /\ Mutex' BY DEF Inductive, TypeOK, ControlOK, Mutex, vars
  <1>2. Handshake' /\ Awake'
    BY DEF Inductive, Handshake, Pending, Serving, Awake, NoLostWakeup, vars
  <1>3. Published' /\ Split' /\ Claims'
    BY DEF Inductive, Published, Split, Claims, Holder, len, count, vars
  <1>4. Covered' /\ Applied'
    BY DEF Inductive, Covered, Done, Holder, Applied, vars
  <1> QED BY <1>1, <1>2, <1>3, <1>4 DEF Inductive

(* Every reachable state of the pool satisfies Inductive.                  *)
THEOREM Invariance == Spec => []Inductive
  <1>1. Inductive /\ [Next]_vars => Inductive'
    <2>1. CASE Next
      BY <2>1, TypeStep, MutexStep, HandshakeStep, PublishedStep, SplitStep,
         ClaimsStep, CoveredStep, AppliedStep, AwakeStep DEF Inductive
    <2>2. CASE UNCHANGED vars BY <2>2, StutterInductive
    <2> QED BY <2>1, <2>2
  <1> QED BY InitInductive, <1>1, PTL DEF Spec

(* Every variable keeps its type.                                          *)
THEOREM TypeCorrect == Spec => []TypeOK
  <1>1. Inductive => TypeOK BY DEF Inductive
  <1> QED BY <1>1, Invariance, PTL

(* When parallel_for has returned, fn has been applied to every index of   *)
(* [0, n) exactly once, for every n, min_chunk and number of workers.      *)
THEOREM ExactlyOnceHolds == Spec => []ExactlyOnce
  <1>1. Inductive => ExactlyOnce
    <2> SUFFICES ASSUME Inductive, pc[Caller] = "idle", NEW x \in Indices
                 PROVE  hits[x] = IF x < call.n THEN 1 ELSE 0
      BY DEF ExactlyOnce
    <2>1. call.n \in Int /\ x \in Int BY IndexTypes DEF Inductive, TypeOK
    <2> QED BY <2>1 DEF Inductive, Applied
  <1> QED BY <1>1, Invariance, PTL

(* Threads that are inside fn are on disjoint ranges that nobody has been  *)
(* applied to before: the caller's writes need no lock.                    *)
THEOREM NoOverlapHolds == Spec => []NoOverlap
  <1>1. Inductive => NoOverlap
    <2> SUFFICES ASSUME Inductive, NEW t \in Threads, pc[t] = "exec"
                 PROVE  /\ \A x \in RangeOf(t) : hits[x] = 0
                        /\ \A s \in Threads \ {t} :
                             pc[s] = "exec" => RangeOf(s) \cap RangeOf(t) = {}
      BY DEF NoOverlap
    <2>1. /\ pc[Caller] \in OutPC
          /\ job.n \in Int /\ job.len \in Int /\ job.len > 0 /\ job.k \in Int
          /\ job.n = call.n
      BY DrainersOut DEF Draining
    <2>2. \A s \in Threads : idx[s] \in Nat BY DEF Inductive, TypeOK
    <2>3. ASSUME NEW x \in RangeOf(t) PROVE hits[x] = 0
      <3>1. x \in Nat /\ x < job.n BY <2>1, <2>2, <2>3, ChunkWithin DEF RangeOf
      <3>2. x \in Indices
        <4>1. call.n \in 0 .. MaxN BY DEF Inductive, TypeOK
        <4> QED BY <2>1, <3>1, <4>1, PoolAssumption DEF Indices
      <3>3. idx[t] \in 0 .. job.k - 1 /\ ~Done(idx[t])
        BY <2>1, <2>2 DEF Inductive, Claims, Done, Holder
      <3> QED BY <2>1, <2>3, <3>2, <3>3 DEF Inductive, Covered, RangeOf
    <2>4. ASSUME NEW s \in Threads \ {t}, pc[s] = "exec"
          PROVE  RangeOf(s) \cap RangeOf(t) = {}
      <3>1. idx[s] # idx[t] BY <2>4 DEF Inductive, Claims, Holder
      <3> QED BY <2>1, <2>2, <3>1, ChunksDisjoint DEF RangeOf
    <2> QED BY <2>3, <2>4
  <1> QED BY <1>1, Invariance, PTL

(* Whoever is draining holds the fn of the call that is still on the       *)
(* caller's stack.                                                         *)
THEOREM FnAliveHolds == Spec => []FnAlive
  <1>1. Inductive => FnAlive
    BY DrainersOut DEF FnAlive, OutPC, RunPC, Draining
  <1> QED BY <1>1, Invariance, PTL

(* active counts exactly the workers the current job is waiting for.       *)
THEOREM ActiveCountHolds == Spec => []ActiveCount
  <1>1. Inductive => ActiveCount BY DEF Inductive, Handshake, ActiveCount
  <1> QED BY <1>1, Invariance, PTL

(* No thread sleeps through the notification it is waiting for.            *)
THEOREM NoLostWakeupHolds == Spec => []NoLostWakeup
  <1>1. Inductive => NoLostWakeup BY DEF Inductive, Awake
  <1> QED BY <1>1, Invariance, PTL

(* A chunk index below K always stands for a nonempty range.               *)
THEOREM NoEmptyChunkHolds == Spec => []NoEmptyChunk
  <1>1. Inductive => NoEmptyChunk
    <2> SUFFICES ASSUME Inductive, NEW t \in Threads, pc[t] = "claim",
                        idx[t] < job.k
                 PROVE  ChunkLo(idx[t], job.len) < job.n
      BY DEF NoEmptyChunk
    <2>1. idx[t] \in Nat BY DEF Inductive, TypeOK
    <2>2. /\ job.n \in Int /\ job.len \in Int /\ job.len > 0 /\ job.k \in Int
          /\ (job.k - 1) * job.len < job.n
      BY DrainersOut DEF Draining
    <2>3. /\ ChunkLo(idx[t], job.len) \in Nat
          /\ ChunkHi(idx[t], job.n, job.len) \in Int
          /\ ChunkLo(idx[t], job.len) < ChunkHi(idx[t], job.n, job.len)
          /\ ChunkHi(idx[t], job.n, job.len) <= job.n
      BY <2>1, <2>2, ChunkNonempty
    <2> QED BY <2>2, <2>3
  <1> QED BY <1>1, Invariance, PTL

(* The fields drain reads without the mutex change only when no thread is  *)
(* draining and every worker has taken the previous job.                   *)
THEOREM JobStableHolds == Spec => JobStable
  <1>1. Inductive /\ [Next]_vars => [job' # job \/ next' < next => Quiet]_vars
    <2> SUFFICES ASSUME Inductive, Next, job' # job \/ next' < next
                 PROVE  Quiet
      BY DEF vars
    <2>1. next \in Nat BY DEF Inductive, TypeOK
    <2>2. CASE pc[Caller] \notin OutPC
      <3>1. \A t \in Threads : pc[t] \notin Draining BY <2>2, DrainersOut
      <3>2. Pending = {} BY <2>2 DEF Inductive, Handshake
      <3> QED BY <3>1, <3>2 DEF Quiet, Pending
    <2>3. CASE pc[Caller] \in OutPC
      <3>1. UNCHANGED job /\ ~(next' < next)
        BY <2>1, <2>3
        DEF Next, CallerStep, Worker, Call, Shutdown, Ended, Enter, Dispatch,
            Inline, Leave, WriteJob, ResetCounters, BumpEpoch, Notify,
            WakeAll, Return, NotYet, AwaitDone, SetStop, NotifyStop,
            JoinWorkers, Spawn, TakeJob, Exit, NoJob, Block, Report, Pull,
            Enlist, LeaveDrain, Execute, Acquire, SpuriousWake, Goto, OutPC,
            Draining, vars
      <3> QED BY <3>1
    <2> QED BY <2>2, <2>3
  <1> QED BY <1>1, Invariance, PTL DEF Spec, JobStable

(* The phase a caller sees follows its control point.                      *)
LEMMA Phases ==
  ASSUME ControlOK
  PROVE  /\ phase = "idle" <=> pc[Caller] = "idle"
         /\ phase = "closed" <=> pc[Caller] \in ClosedPC
         /\ phase = "running" <=> pc[Caller] \notin {"idle"} \cup ClosedPC
  BY DEF phase, ControlOK, ClosedPC

(* A step that calls or leaves fn, in a worker or in the caller, applies   *)
(* fn to a range of indices that were all unapplied.                       *)
LEMMA ExecuteApplies ==
  ASSUME Inductive, ControlOK', NEW t \in Threads, Execute(t)
  PROVE  PF!ApplySome
  <1> DEFINE b == ChunkLo(idx[t], job.len)
             e == ChunkHi(idx[t], job.n, job.len)
  <1>1. ControlOK BY DEF Inductive, TypeOK
  <1>2. /\ pc[Caller] \in OutPC
        /\ job.n = call.n /\ job.n \in Int
        /\ job.len \in Int /\ job.len > 0
        /\ job.k \in Int /\ (job.k - 1) * job.len < job.n
    BY DrainersOut DEF Execute, Goto, Draining
  <1>3. idx[t] \in Nat /\ idx[t] < job.k /\ call.n \in 0 .. MaxN
    BY DEF Inductive, TypeOK, Claims, Execute, Goto
  <1>4. b \in Nat /\ e \in Int /\ b < e /\ e <= call.n
    BY <1>2, <1>3, ChunkNonempty
  <1>5. b \in 0 .. MaxN /\ e \in 0 .. MaxN
    BY <1>3, <1>4, PoolAssumption
  <1>6. RangeOf(t) = b .. e - 1 BY DEF RangeOf, ChunkSet
  <1>7. \A x \in b .. e - 1 : hits[x] = 0
    <2> SUFFICES ASSUME NEW x \in b .. e - 1 PROVE hits[x] = 0
      OBVIOUS
    <2>1. x \in Indices BY <1>3, <1>4, PoolAssumption DEF Indices
    <2>2. idx[t] \in 0 .. job.k - 1 BY <1>2, <1>3
    <2>3. ~Done(idx[t]) BY DEF Execute, Goto, Done, Holder
    <2> QED BY <1>2, <1>6, <2>1, <2>2, <2>3 DEF Inductive, Covered, RangeOf
  <1>8. hits' = [x \in Indices |-> IF x \in b .. e - 1 THEN 1 ELSE hits[x]]
    <2>1. \A x \in RangeOf(t) : hits[x] + 1 = 1 BY <1>6, <1>7
    <2>2. \A x \in Indices :
            (IF x \in RangeOf(t) THEN hits[x] + 1 ELSE hits[x])
              = (IF x \in b .. e - 1 THEN 1 ELSE hits[x])
      BY <1>6, <2>1
    <2> QED BY <2>2 DEF Execute
  <1>9. phase = "running" /\ phase' = "running" /\ call' = call
    BY <1>1, <1>2, Phases DEF Execute, Goto, OutPC, Draining, ClosedPC, phase
  <1>10. PF!Apply(b, e)
    BY <1>4, <1>7, <1>8, <1>9 DEF PF!Apply, PF!Indices, Indices
  <1> QED BY <1>5, <1>10 DEF PF!ApplySome

LEMMA InlineApplies ==
  ASSUME Inductive, ControlOK', Inline
  PROVE  PF!ApplySome
  <1>1. /\ call.n \in 0 .. MaxN /\ 0 < call.n
        /\ \A x \in Indices : hits[x] = 0
    BY DEF Inductive, TypeOK, Split, Applied, FreshPC, Inline, Goto
  <1>2. call.n \in Int BY <1>1
  <1>3. \A x \in 0 .. call.n - 1 : hits[x] = 0
    BY <1>1, PoolAssumption DEF Indices
  <1>4. hits' = [x \in Indices |-> IF x \in 0 .. call.n - 1 THEN 1 ELSE hits[x]]
    <2>1. \A x \in Indices :
            (IF x < call.n THEN hits[x] + 1 ELSE hits[x])
              = (IF x \in 0 .. call.n - 1 THEN 1 ELSE hits[x])
      BY <1>1, <1>2, IndexTypes
    <2> QED BY <2>1 DEF Inline
  <1>5. phase = "running" /\ phase' = "running" /\ call' = call
    BY DEF Inline, Goto, phase, ClosedPC, Inductive, TypeOK, ControlOK
  <1>6. PF!Apply(0, call.n)
    BY <1>1, <1>3, <1>4, <1>5 DEF PF!Apply, PF!Indices, Indices
  <1>7. 0 \in 0 .. MaxN BY PoolAssumption
  <1> QED BY <1>1, <1>6, <1>7 DEF PF!ApplySome

(* Every step of the pool is a step of ParallelFor under the refinement    *)
(* mapping, or leaves its variables unchanged.                             *)
LEMMA StepRefines == Inductive /\ Next => (PF!Next \/ UNCHANGED PF!vars)
  <1> SUFFICES ASSUME Inductive, Next PROVE (PF!Next \/ UNCHANGED PF!vars)
    OBVIOUS
  <1> ControlOK BY DEF Inductive, TypeOK
  <1> ControlOK' /\ Applied' BY ControlStep, AppliedStep
  <1> USE PoolAssumption DEF Goto, PF!vars, phase
  <1>1. ASSUME NEW n \in 0 .. MaxN, NEW min \in MinChunks, Call(n, min)
        PROVE  (PF!Next \/ UNCHANGED PF!vars)
    <2>1. phase = "idle" /\ phase' = "running" BY <1>1 DEF Call, ControlOK,
      ClosedPC, Threads
    <2>2. PF!Call(n) BY <1>1, <2>1 DEF Call, PF!Call, PF!None, PF!Indices,
      Indices
    <2> QED BY <2>2 DEF PF!Next
  <1>2. ASSUME Ended \/ Dispatch \/ WriteJob \/ ResetCounters \/ BumpEpoch \/
           Notify
        PROVE  (PF!Next \/ UNCHANGED PF!vars)
    BY <1>2 DEF Ended, Dispatch, WriteJob, ResetCounters, BumpEpoch, Notify,
      WakeAll, vars, AfterLock, ControlOK, WorkerPC, CallerPC, RunPC,
      ClosedPC, Draining, Threads
  <1>3. ASSUME NotYet \/ AwaitDone \/ SetStop \/ NotifyStop \/ JoinWorkers
        PROVE  (PF!Next \/ UNCHANGED PF!vars)
    BY <1>3 DEF NotYet, AwaitDone, SetStop, NotifyStop, JoinWorkers, WakeAll,
      vars, AfterLock, ControlOK, WorkerPC, CallerPC, RunPC, ClosedPC,
      Draining, Threads
  <1>4. ASSUME Enter
        PROVE  (PF!Next \/ UNCHANGED PF!vars)
    <2>1. CASE call.n <= 0
      <3>1. call.n = 0 BY <2>1 DEF Inductive, TypeOK
      <3>2. PF!Return BY <1>4, <2>1, <3>1 DEF Enter, PF!Return, ControlOK,
        ClosedPC, Threads
      <3> QED BY <3>2 DEF PF!Next
    <2>2. CASE ~(call.n <= 0)
      BY <1>4, <2>2 DEF Enter, ControlOK, ClosedPC, Threads
    <2> QED BY <2>1, <2>2
  <1>5. ASSUME Leave \/ Return
        PROVE  (PF!Next \/ UNCHANGED PF!vars)
    <2>1. \A x \in 0 .. call.n - 1 : x \in Indices /\ x < call.n
      <3>1. call.n \in 0 .. MaxN BY DEF Inductive, TypeOK
      <3> QED BY <3>1, PoolAssumption DEF Indices
    <2>3. \A x \in 0 .. call.n - 1 : hits[x] = 1 BY <1>5, <2>1 DEF Leave,
      Return, Applied, ControlOK, Threads
    <2>4. PF!Return BY <1>5, <2>3 DEF Leave, Return, PF!Return, ControlOK,
      ClosedPC, Threads
    <2> QED BY <2>4 DEF PF!Next
  <1>6. ASSUME Shutdown
        PROVE  (PF!Next \/ UNCHANGED PF!vars)
    <2>1. PF!Close BY <1>6 DEF Shutdown, PF!Close, ControlOK, ClosedPC,
      Threads
    <2> QED BY <2>1 DEF PF!Next
  <1>7. ASSUME Inline
        PROVE  (PF!Next \/ UNCHANGED PF!vars)
    BY <1>7, InlineApplies DEF PF!Next
  <1>8. ASSUME NEW w \in Workers, Spawn(w) \/ TakeJob(w) \/ Exit(w) \/
           NoJob(w) \/ Block(w) \/ Report(w)
        PROVE  (PF!Next \/ UNCHANGED PF!vars)
    BY <1>8 DEF Spawn, TakeJob, Exit, NoJob, Block, Report, WakeAll, vars,
      AfterLock, ControlOK, WorkerPC, CallerPC, RunPC, ClosedPC, Draining,
      Threads
  <1>9. ASSUME NEW t \in Threads, Pull(t) \/ Enlist(t) \/ LeaveDrain(t) \/
           Acquire(t) \/ SpuriousWake(t)
        PROVE  (PF!Next \/ UNCHANGED PF!vars)
    BY <1>9 DEF Pull, Enlist, LeaveDrain, Acquire, SpuriousWake, WakeAll,
      vars, AfterLock, ControlOK, WorkerPC, CallerPC, RunPC, ClosedPC,
      Draining, Threads
  <1>10. ASSUME NEW t \in Threads, Execute(t)
        PROVE  (PF!Next \/ UNCHANGED PF!vars)
    <2>1. PF!ApplySome BY <1>10, ExecuteApplies
    <2> QED BY <2>1 DEF PF!Next
  <1> QED BY <1>1, <1>2, <1>3, <1>4, <1>5, <1>6, <1>7, <1>8, <1>9, <1>10 DEF
      Next, CallerStep, Worker, Threads

(* The pool implements the contract of parallel_for: each of its           *)
(* behaviours is a behaviour of ParallelFor, with the phase read off the   *)
(* caller's control point, n from its arguments, and the applications as   *)
(* they are.                                                               *)
THEOREM Refinement == Spec => ImplementsParallelFor
  <1>1. Init => PF!Init
    BY DEF Init, PF!Init, PF!None, PF!Indices, Indices, phase, Threads
  <1>2. Inductive /\ [Next]_vars => [PF!Next]_(PF!vars)
    <2>1. CASE UNCHANGED vars BY <2>1 DEF vars, PF!vars, phase
    <2>2. CASE Next /\ Inductive BY <2>2, StepRefines
    <2> QED BY <2>1, <2>2
  <1> QED
    BY <1>1, <1>2, Invariance, PTL DEF Spec, ImplementsParallelFor, PF!Spec
=============================================================================
