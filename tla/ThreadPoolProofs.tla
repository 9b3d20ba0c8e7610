--------------------------- MODULE ThreadPoolProofs ---------------------------
(***************************************************************************)
(* Proofs about ThreadPool, for every pool size, every set of callers and  *)
(* every range and chunk size.                                             *)
(***************************************************************************)
EXTENDS ThreadPool, FiniteSetTheorems, TLAPS

USE CallersAssumption, PoolSizesAssumption, RangesAssumption, MaxCallsAssumption

\* n_tasks is a natural number, and positive when there are workers: a
\* non-empty range always gets at least one task.
LEMMA TaskCountNat ==
    ASSUME n_ \in Nat, NEW total \in Nat, NEW chunk \in Nat, total > 0, chunk > 0
    PROVE  /\ TaskCount(total, chunk) \in Nat
           /\ n_ > 0 => TaskCount(total, chunk) > 0
  <1>1. (total + chunk - 1) \div chunk \in Nat /\ (total + chunk - 1) \div chunk > 0
    BY SMT
  <1> QED BY <1>1 DEF TaskCount, SmallerOf

\* The number of workers never changes.
LEMMA PoolSizeFixed ==
    ASSUME [Next]_vars
    PROVE  n_' = n_ /\ Workers' = Workers
  <1>1. n_' = n_
    BY DEF Next, OwnerNext, CallerNext, WorkerNext, SpawnWorker, CtorDone, SpawnFails,
           Destroy, NotifyStop, JoinWorkers, Ended, Call, RunInline, ReturnInline,
           Dispatch, NotifyWork, CheckDone, Return, SpuriousCallerWake, WorkerExit,
           WorkerSleep, WorkerPop, TestException, Claim, RunFn, CatchException,
           LockDone, CountDone, UnlockDone, SpuriousWorkerWake, poolVars, vars
  <1> QED BY <1>1 DEF Workers

\* The four parts of the type invariant depend only on their own variables.
LEMMA TypeFrame ==
    ASSUME TypeOK, n_' = n_, Workers' = Workers
    PROVE  /\ UNCHANGED poolVars => PoolType'
           /\ UNCHANGED workerVars => WorkerType'
           /\ UNCHANGED callerVars => CallerType'
           /\ UNCHANGED history => HistoryType'
  <1>1. UNCHANGED poolVars => PoolType'
    BY DEF TypeOK, PoolType, poolVars
  <1>2. UNCHANGED workerVars => WorkerType'
    BY DEF TypeOK, WorkerType, workerVars
  <1>3. UNCHANGED callerVars => CallerType'
    BY DEF TypeOK, CallerType, callerVars, frame
  <1>4. UNCHANGED history => HistoryType'
    BY DEF TypeOK, HistoryType, history
  <1> QED BY <1>1, <1>2, <1>3, <1>4

\* Each caller's step keeps the types.
LEMMA CallerTyping ==
    ASSUME TypeOK, [Next]_vars, NEW c \in Callers,
           Call(c) \/ CallerNext(c) \/ SpuriousCallerWake(c)
    PROVE  TypeOK'
  <1> USE PoolSizeFixed, TypeFrame DEF TypeOK
  <1> USE DEF poolVars, workerVars, callerVars, frame, history
  <1>1. CASE Call(c)
    <2>1. CallerType'
      <3>1. PICK r \in Ranges :
              /\ arg' = [arg EXCEPT ![c] = r]
              /\ cpc' = [cpc EXCEPT ![c] = IF r.end <= r.begin THEN "idle"
                                           ELSE IF n_ = 0 THEN "inline" ELSE "dispatch"]
              /\ cursor' = [cursor EXCEPT ![c] = r.begin]
              /\ n_tasks' = [n_tasks EXCEPT ![c] =
                   IF r.end <= r.begin THEN 0
                   ELSE TaskCount(r.end - r.begin, IF r.chunk = 0 THEN 1 ELSE r.chunk)]
        BY <1>1 DEF Call
      <3>2. n_ \in Nat
        BY DEF PoolType
      <3>3. r.begin \in Nat /\ r.end \in Nat /\ r.chunk \in Nat
        OBVIOUS
      <3>4. ~(r.end <= r.begin) =>
              TaskCount(r.end - r.begin, IF r.chunk = 0 THEN 1 ELSE r.chunk) \in Nat
        BY <3>2, <3>3, TaskCountNat
      <3>5. cursor' \in [Callers -> Nat] /\ n_tasks' \in [Callers -> Nat]
        BY <3>1, <3>3, <3>4 DEF CallerType
      <3>6. /\ calls' \in [Callers -> 0..MaxCalls]
            /\ done_count' \in [Callers -> Nat]
            /\ done_mu' \in [Callers -> {0} \cup Workers]
            /\ first_exception' \in [Callers -> SUBSET Nat]
        BY <1>1 DEF CallerType, Call
      <3>7. arg' \in [Callers -> Ranges] /\ cpc' \in [Callers -> CallerPlaces]
        BY <3>1 DEF CallerType, CallerPlaces
      <3> QED BY <3>5, <3>6, <3>7 DEF CallerType
    <2>2. HistoryType'
      <3>1. /\ ran' \in [Callers -> SUBSET Nat]
            /\ thrown' \in [Callers -> SUBSET Nat]
            /\ finished' \in [Callers -> SUBSET Nat]
        BY <1>1 DEF HistoryType, Call
      <3>2. PICK k \in {"ok", "none"} :
              outcome' = [outcome EXCEPT ![c] = [kind |-> k, at |-> {}]]
        BY <1>1 DEF Call
      <3>3. outcome' \in [Callers -> [kind : {"none", "ok", "threw"}, at : SUBSET Nat]]
        BY <3>2 DEF HistoryType
      <3> QED BY <3>1, <3>3 DEF HistoryType
    <2> QED BY <1>1, <2>1, <2>2 DEF Call
  <1>2. CASE RunInline(c)
    <2>1. CallerType'
      BY <1>2 DEF RunInline, CallerType, CallerPlaces
    <2>2. HistoryType'
      <3>1. cursor[c] \in Nat
        BY DEF CallerType
      <3>2. ran' = [ran EXCEPT ![c] = @ \cup {cursor[c]}] /\ finished' = finished
        BY <1>2 DEF RunInline
      <3>3. \/ thrown' = thrown /\ outcome' = outcome
            \/ /\ thrown' = [thrown EXCEPT ![c] = @ \cup {cursor[c]}]
               /\ outcome' = [outcome EXCEPT ![c] =
                    [kind |-> "threw", at |-> {cursor[c]}]]
        BY <1>2 DEF RunInline
      <3> QED BY <3>1, <3>2, <3>3 DEF HistoryType
    <2> QED BY <1>2, <2>1, <2>2 DEF RunInline
  <1>3. CASE ReturnInline(c)
    BY <1>3 DEF ReturnInline, CallerType, CallerPlaces, HistoryType
  <1>4. CASE Dispatch(c)
    <2>1. [k \in 1..n_tasks[c] |-> <<c, k>>] \in Seq(Callers \X Nat)
      BY DEF CallerType
    <2>2. PoolType'
      BY <1>4, <2>1 DEF Dispatch, PoolType
    <2>3. CallerType'
      BY <1>4 DEF Dispatch, CallerType, CallerPlaces
    <2> QED BY <1>4, <2>2, <2>3 DEF Dispatch
  <1>5. CASE NotifyWork(c)
    <2>1. WorkerType'
      BY <1>5 DEF NotifyWork, WakeWorkers, WorkerType, WorkerPlaces, InTask
    <2>2. CallerType'
      BY <1>5 DEF NotifyWork, CallerType, CallerPlaces
    <2> QED BY <1>5, <2>1, <2>2 DEF NotifyWork
  <1>6. CASE CheckDone(c) \/ SpuriousCallerWake(c)
    BY <1>6 DEF CheckDone, SpuriousCallerWake, CallerType, CallerPlaces
  <1>7. CASE Return(c)
    <2>1. first_exception[c] \in SUBSET Nat
      BY DEF CallerType
    <2>2. HistoryType'
      BY <1>7, <2>1 DEF Return, HistoryType
    <2>3. CallerType'
      BY <1>7 DEF Return, CallerType, CallerPlaces
    <2> QED BY <1>7, <2>2, <2>3 DEF Return
  <1> QED
    BY <1>1, <1>2, <1>3, <1>4, <1>5, <1>6, <1>7 DEF CallerNext

\* Each worker's step keeps the types.
LEMMA WorkerTyping ==
    ASSUME TypeOK, [Next]_vars, NEW w \in Workers,
           WorkerNext(w) \/ SpuriousWorkerWake(w)
    PROVE  TypeOK'
  <1> USE PoolSizeFixed, TypeFrame DEF TypeOK
  <1> USE DEF poolVars, workerVars, callerVars, frame, history, InTask, WorkerPlaces
  <1>1. CASE WorkerExit(w) \/ WorkerSleep(w) \/ SpuriousWorkerWake(w)
    <2>1. CASE WorkerExit(w)
      BY <2>1 DEF WorkerExit, WorkerType
    <2>2. CASE WorkerSleep(w)
      BY <2>2 DEF WorkerSleep, WorkerType
    <2>3. CASE SpuriousWorkerWake(w)
      BY <2>3 DEF SpuriousWorkerWake, WorkerType
    <2> QED BY <1>1, <2>1, <2>2, <2>3
  <1>2. CASE WorkerPop(w)
    <2>1. Head(tasks_) \in Callers \X Nat /\ Tail(tasks_) \in Seq(Callers \X Nat)
      BY <1>2 DEF WorkerPop, PoolType
    <2>2. PoolType'
      BY <1>2, <2>1 DEF WorkerPop, PoolType
    <2>3. WorkerType'
      BY <1>2, <2>1 DEF WorkerPop, WorkerType
    <2> QED BY <1>2, <2>2, <2>3 DEF WorkerPop
  <1>3. CASE TestException(w)
    BY <1>3 DEF TestException, WorkerType
  <1>c. ASSUME wpc[w] \in InTask PROVE call[w] \in Callers
    BY <1>c DEF WorkerType
  <1>4. CASE Claim(w)
    <2>1. call[w] \in Callers
      BY <1>4, <1>c DEF Claim
    <2>2. arg[call[w]] \in Ranges /\ cursor[call[w]] \in Nat
      BY <2>1 DEF CallerType
    <2>3. Chunk(call[w]) \in Nat /\ arg[call[w]].end \in Nat
      BY <2>2 DEF Chunk
    <2>4. SmallerOf(cursor[call[w]] + Chunk(call[w]), arg[call[w]].end) \in Nat
      BY <2>2, <2>3 DEF SmallerOf
    <2>5. WorkerType'
      BY <1>4, <2>1, <2>2, <2>4 DEF Claim, WorkerType
    <2>6. CallerType'
      BY <1>4, <2>1, <2>2, <2>3 DEF Claim, CallerType
    <2> QED BY <1>4, <2>5, <2>6 DEF Claim
  <1>5. CASE RunFn(w)
    <2>1. call[w] \in Callers /\ idx[w] \in Nat
      BY <1>5, <1>c DEF RunFn, WorkerType
    <2>2. WorkerType'
      BY <1>5, <2>1 DEF RunFn, WorkerType
    <2>3. HistoryType'
      BY <1>5, <2>1 DEF RunFn, HistoryType
    <2> QED BY <1>5, <2>2, <2>3 DEF RunFn
  <1>6. CASE CatchException(w)
    <2>1. call[w] \in Callers /\ idx[w] \in Nat
      BY <1>6, <1>c DEF CatchException, WorkerType
    <2>2. WorkerType'
      BY <1>6, <2>1 DEF CatchException, WorkerType
    <2>3. CallerType'
      BY <1>6, <2>1 DEF CatchException, CallerType
    <2> QED BY <1>6, <2>2, <2>3 DEF CatchException
  <1>7. CASE LockDone(w)
    <2>1. call[w] \in Callers
      BY <1>7, <1>c DEF LockDone
    <2>2. WorkerType'
      BY <1>7 DEF LockDone, WorkerType
    <2>3. CallerType'
      BY <1>7, <2>1 DEF LockDone, CallerType
    <2> QED BY <1>7, <2>2, <2>3 DEF LockDone
  <1>8. CASE CountDone(w)
    <2>1. call[w] \in Callers /\ num[w] \in Nat
      BY <1>8, <1>c DEF CountDone, WorkerType
    <2>2. WorkerType'
      BY <1>8 DEF CountDone, WorkerType
    <2>3. CallerType'
      BY <1>8, <2>1 DEF CountDone, CallerType, CallerPlaces
    <2>4. HistoryType'
      BY <1>8, <2>1 DEF CountDone, HistoryType
    <2> QED BY <1>8, <2>2, <2>3, <2>4 DEF CountDone
  <1>9. CASE UnlockDone(w)
    <2>1. call[w] \in Callers
      BY <1>9, <1>c DEF UnlockDone
    <2>2. WorkerType'
      BY <1>9 DEF UnlockDone, WorkerType
    <2>3. CallerType'
      BY <1>9, <2>1 DEF UnlockDone, CallerType
    <2> QED BY <1>9, <2>2, <2>3 DEF UnlockDone
  <1> QED
    BY <1>1, <1>2, <1>3, <1>4, <1>5, <1>6, <1>7, <1>8, <1>9 DEF WorkerNext

\* Every reachable state is well typed, and a worker inside a task always
\* refers to a caller.
THEOREM Typing == Spec => []TypeOK
  <1>1. Init => TypeOK
    <2> SUFFICES ASSUME Init PROVE TypeOK
      OBVIOUS
    <2>1. (CHOOSE r \in Ranges : TRUE) \in Ranges
      OBVIOUS
    <2>2. PoolType
      <3>1. tasks_ \in Seq(Callers \X Nat)
        BY DEF Init
      <3> QED BY <3>1 DEF Init, PoolType, OwnerPlaces
    <2>5. WorkerType
      BY DEF Init, WorkerType, WorkerPlaces, InTask
    <2>3. CallerType
      BY <2>1 DEF Init, CallerType, CallerPlaces
    <2>4. HistoryType
      BY DEF Init, HistoryType
    <2> QED BY <2>2, <2>3, <2>4, <2>5 DEF TypeOK
  <1>2. TypeOK /\ [Next]_vars => TypeOK'
    <2> SUFFICES ASSUME TypeOK, [Next]_vars PROVE TypeOK'
      OBVIOUS
    <2> USE PoolSizeFixed, TypeFrame DEF TypeOK
    <2> USE DEF poolVars, workerVars, callerVars, frame, history, vars
    <2>1. CASE SpawnWorker
      BY <2>1 DEF SpawnWorker, WorkerType, WorkerPlaces, InTask
    <2>2. CASE CtorDone \/ SpawnFails \/ Destroy \/ JoinWorkers
      BY <2>2 DEF CtorDone, SpawnFails, Destroy, JoinWorkers, PoolType, OwnerPlaces
    <2>3. CASE NotifyStop
      BY <2>3 DEF NotifyStop, WakeWorkers, PoolType, OwnerPlaces, WorkerType,
                  WorkerPlaces, InTask
    <2>4. CASE Ended \/ UNCHANGED vars
      BY <2>4 DEF Ended
    <2>5. CASE \E c \in Callers : Call(c) \/ CallerNext(c) \/ SpuriousCallerWake(c)
      BY <2>5, CallerTyping
    <2>6. CASE \E w \in Workers : WorkerNext(w) \/ SpuriousWorkerWake(w)
      BY <2>6, WorkerTyping
    <2> QED
      BY <2>1, <2>2, <2>3, <2>4, <2>5, <2>6 DEF Next, OwnerNext
  <1> QED
    BY <1>1, <1>2, PTL DEF Spec
-------------------------------------------------------------------------------
(***************************************************************************)
(* The lifetime of a caller's frame.  The argument: done_count counts the  *)
(* finished tasks (CallAccounting), so when the caller leaves its wait     *)
(* every task number is finished; a queued task, and a worker that has not *)
(* counted its task, carry an unfinished number, so there is none; and a   *)
(* worker between count and unlock holds done_mu, which the caller needs.  *)
(***************************************************************************)

\* Steps that leave the queue, the calls and the task-level places alone.
LEMMA SamePhase ==
    ASSUME TaskAccounting, Workers' = Workers,
           UNCHANGED <<tasks_, call, num, cpc, n_tasks, finished, done_count, done_mu>>,
           \A v \in Workers : wpc'[v] \in Uncounted <=> wpc[v] \in Uncounted,
           \A v \in Workers : wpc'[v] \in {"count", "unlock"} <=> wpc[v] \in {"count", "unlock"}
    PROVE  TaskAccounting'
  <1>1. QueueAccounting'
    BY DEF TaskAccounting, QueueAccounting
  <1>2. WorkerAccounting'
    BY DEF TaskAccounting, WorkerAccounting, Uncounted, InTask
  <1>3. CallAccounting'
    BY DEF TaskAccounting, CallAccounting
  <1> QED BY <1>1, <1>2, <1>3 DEF TaskAccounting

\* A caller outside Dispatched owns no queued task and no busy worker.
LEMMA QuietCaller ==
    ASSUME TypeOK, TaskAccounting, NEW c \in Callers, cpc[c] \notin Dispatched
    PROVE  /\ \A j \in DOMAIN tasks_ : tasks_[j][1] # c
           /\ \A w \in Workers : wpc[w] \in InTask => call[w] # c
  BY DEF TaskAccounting, QueueAccounting, WorkerAccounting

\* A queued task is a pair of a caller and a number.
LEMMA QueuedTask ==
    ASSUME TypeOK
    PROVE  \A j \in DOMAIN tasks_ :
             /\ j \in 1..Len(tasks_) /\ tasks_[j][1] \in Callers /\ tasks_[j][2] \in Nat
             /\ tasks_[j] = <<tasks_[j][1], tasks_[j][2]>>
  <1>1. tasks_ \in Seq(Callers \X Nat)
    BY DEF TypeOK, PoolType
  <1>2. \A j \in DOMAIN tasks_ : j \in 1..Len(tasks_) /\ tasks_[j] \in Callers \X Nat
    BY <1>1
  <1> QED BY <1>2

\* A new call starts with no task of its own anywhere, and disturbs nobody
\* else's tasks.
LEMMA CallTasks ==
    ASSUME TypeOK, TaskAccounting, [Next]_vars, NEW c \in Callers, Call(c)
    PROVE  TaskAccounting'
  <1>1. PICK r \in Ranges :
          /\ arg' = [arg EXCEPT ![c] = r]
          /\ cpc' = [cpc EXCEPT ![c] = IF r.end <= r.begin THEN "idle"
                                       ELSE IF n_ = 0 THEN "inline" ELSE "dispatch"]
          /\ n_tasks' = [n_tasks EXCEPT ![c] =
               IF r.end <= r.begin THEN 0
               ELSE TaskCount(r.end - r.begin, IF r.chunk = 0 THEN 1 ELSE r.chunk)]
    BY DEF Call
  <1>2. /\ cpc[c] = "idle"
        /\ finished' = [finished EXCEPT ![c] = {}]
        /\ done_count' = [done_count EXCEPT ![c] = 0]
        /\ done_mu' = [done_mu EXCEPT ![c] = 0]
        /\ UNCHANGED <<tasks_, wpc, call, num>>
    BY DEF Call, poolVars, workerVars
  <1>3. /\ \A j \in DOMAIN tasks_ : tasks_[j][1] # c
        /\ \A w \in Workers : wpc[w] \in InTask => call[w] # c
    BY <1>2, QuietCaller DEF Dispatched
  <1>4. Workers' = Workers
    BY PoolSizeFixed
  <1>5. /\ cpc \in [Callers -> CallerPlaces] /\ n_tasks \in [Callers -> Nat]
        /\ finished \in [Callers -> SUBSET Nat] /\ done_count \in [Callers -> Nat]
        /\ done_mu \in [Callers -> {0} \cup Workers]
        /\ tasks_ \in Seq(Callers \X Nat)
        /\ \A w \in Workers : wpc[w] \in InTask => call[w] \in Callers
    BY DEF TypeOK, PoolType, WorkerType, CallerType, HistoryType
  <1>6. \A d \in Callers : d # c => /\ cpc'[d] = cpc[d] /\ n_tasks'[d] = n_tasks[d]
                                   /\ finished'[d] = finished[d]
                                   /\ done_count'[d] = done_count[d]
                                   /\ done_mu'[d] = done_mu[d]
    BY <1>1, <1>2, <1>5
  <1>7. QueueAccounting'
    BY <1>2, <1>3, <1>6, QueuedTask DEF TaskAccounting, QueueAccounting
  <1>8. WorkerAccounting'
    BY <1>2, <1>3, <1>4, <1>5, <1>6 DEF TaskAccounting, WorkerAccounting, Uncounted
  <1>9. CallAccounting'
    <2>1. n_ \in Nat /\ r.begin \in Nat /\ r.end \in Nat /\ r.chunk \in Nat
      BY DEF TypeOK, PoolType
    <2>2. cpc'[c] = "dispatch" => n_tasks'[c] > 0
      <3> SUFFICES ASSUME cpc'[c] = "dispatch" PROVE n_tasks'[c] > 0
        OBVIOUS
      <3>1. ~(r.end <= r.begin) /\ n_ > 0
        BY <1>1, <1>5, <2>1
      <3> DEFINE total == r.end - r.begin
      <3> DEFINE chunk == IF r.chunk = 0 THEN 1 ELSE r.chunk
      <3>2. total \in Nat /\ total > 0 /\ chunk \in Nat /\ chunk > 0
        BY <2>1, <3>1
      <3>3. TaskCount(total, chunk) > 0
        <4> HIDE DEF total, chunk
        <4> QED BY <2>1, <3>1, <3>2, TaskCountNat
      <3> QED BY <1>1, <1>5, <3>1, <3>3
    <2>3. finished'[c] = {} /\ done_count'[c] = 0
      BY <1>2, <1>5
    <2>4. cpc'[c] \in {"idle", "inline", "dispatch"}
      BY <1>1, <1>5
    <2>5. Cardinality({}) = 0
      BY FS_EmptySet
    <2>6. n_tasks'[c] \in Nat
      BY CallerTyping DEF TypeOK, CallerType
    <2> SUFFICES ASSUME NEW d \in Callers
                 PROVE  /\ finished'[d] \subseteq 1..n_tasks'[d]
                        /\ done_count'[d] = Cardinality(finished'[d])
                        /\ cpc'[d] = "dispatch" => finished'[d] = {}
                        /\ cpc'[d] = "rethrow" => finished'[d] = 1..n_tasks'[d]
                        /\ cpc'[d] \in Dispatched \cup {"dispatch", "rethrow"} => n_tasks'[d] > 0
      BY DEF CallAccounting
    <2>7. CASE d = c
      BY <2>2, <2>3, <2>4, <2>5, <2>7 DEF Dispatched
    <2>8. CASE d # c
      BY <1>6, <2>8 DEF TaskAccounting, CallAccounting
    <2> QED BY <2>7, <2>8
  <1> QED BY <1>7, <1>8, <1>9 DEF TaskAccounting

\* Pushing n_tasks copies of the task gives each of them a number that is
\* neither queued, nor held by a worker, nor counted.
LEMMA DispatchTasks ==
    ASSUME TypeOK, TaskAccounting, [Next]_vars, NEW c \in Callers, Dispatch(c)
    PROVE  TaskAccounting'
  <1> DEFINE new == [k \in 1..n_tasks[c] |-> <<c, k>>]
  <1>1. /\ cpc[c] = "dispatch"
        /\ cpc' = [cpc EXCEPT ![c] = "notify"]
        /\ tasks_' = tasks_ \o new
        /\ UNCHANGED <<wpc, call, num, n_tasks, finished, done_count, done_mu>>
    BY DEF Dispatch, workerVars, frame, history
  <1>2. /\ \A j \in DOMAIN tasks_ : tasks_[j][1] # c
        /\ \A w \in Workers : wpc[w] \in InTask => call[w] # c
    BY <1>1, QuietCaller DEF Dispatched
  <1>3. Workers' = Workers
    BY PoolSizeFixed
  <1>4. /\ cpc \in [Callers -> CallerPlaces] /\ n_tasks[c] \in Nat
        /\ tasks_ \in Seq(Callers \X Nat)
        /\ \A w \in Workers : wpc[w] \in InTask => call[w] \in Callers
    BY DEF TypeOK, PoolType, WorkerType, CallerType
  <1>5. \A d \in Callers : d # c => cpc'[d] = cpc[d]
    BY <1>1, <1>4
  <1>6. cpc'[c] = "notify" /\ finished[c] = {} /\ n_tasks[c] > 0
    BY <1>1, <1>4 DEF TaskAccounting, CallAccounting
  <1>7. /\ new \in Seq(Callers \X Nat) /\ Len(new) = n_tasks[c]
    <2>1. \A k \in 1..n_tasks[c] : <<c, k>> \in Callers \X Nat
      BY <1>4
    <2>2. new \in [1..n_tasks[c] -> Callers \X Nat]
      BY <2>1
    <2>3. DOMAIN new = 1..n_tasks[c] /\ n_tasks[c] \in Nat
      BY <1>4
    <2> HIDE DEF new
    <2> QED BY <2>2, <2>3
  <1>8. /\ DOMAIN tasks_' = 1..(Len(tasks_) + n_tasks[c])
        /\ \A j \in 1..Len(tasks_) : tasks_'[j] = tasks_[j]
        /\ \A j \in (Len(tasks_) + 1)..(Len(tasks_) + n_tasks[c]) :
             tasks_'[j] = <<c, j - Len(tasks_)>>
    BY <1>1, <1>4, <1>7
  <1>9. QueueAccounting'
    <2> SUFFICES ASSUME NEW j \in DOMAIN tasks_'
                 PROVE  /\ cpc'[tasks_'[j][1]] \in Dispatched
                        /\ tasks_'[j][2] \in (1..n_tasks[tasks_'[j][1]]) \ finished[tasks_'[j][1]]
                        /\ \A i \in DOMAIN tasks_' : i # j => tasks_'[i] # tasks_'[j]
      BY <1>1 DEF QueueAccounting
    <2>1. CASE j \in 1..Len(tasks_)
      <3>1. j \in DOMAIN tasks_ /\ tasks_'[j] = tasks_[j] /\ tasks_[j] \in Callers \X Nat
        BY <1>4, <1>8, <2>1
      <3>2. tasks_[j][1] # c /\ tasks_[j][1] \in Callers
        BY <1>2, <3>1
      <3>3. \A i \in DOMAIN tasks_' : i # j => tasks_'[i] # tasks_'[j]
        <4> SUFFICES ASSUME NEW i \in DOMAIN tasks_', i # j PROVE tasks_'[i] # tasks_'[j]
          OBVIOUS
        <4>1. CASE i \in 1..Len(tasks_)
          <5>1. i \in DOMAIN tasks_ /\ tasks_'[i] = tasks_[i]
            BY <1>4, <1>8, <4>1
          <5>2. tasks_[i] # tasks_[j]
            BY <3>1, <5>1 DEF TaskAccounting, QueueAccounting
          <5> QED BY <3>1, <5>1, <5>2
        <4>2. CASE i \in (Len(tasks_) + 1)..(Len(tasks_) + n_tasks[c])
          BY <1>8, <3>1, <3>2, <4>2
        <4> QED BY <1>4, <1>8, <4>1, <4>2
      <3> QED BY <1>5, <3>1, <3>2, <3>3 DEF TaskAccounting, QueueAccounting
    <2>2. CASE j \in (Len(tasks_) + 1)..(Len(tasks_) + n_tasks[c])
      <3>1. tasks_'[j] = <<c, j - Len(tasks_)>> /\ j - Len(tasks_) \in 1..n_tasks[c]
        BY <1>4, <1>8, <2>2
      <3>2. \A i \in DOMAIN tasks_' : i # j => tasks_'[i] # tasks_'[j]
        <4> SUFFICES ASSUME NEW i \in DOMAIN tasks_', i # j PROVE tasks_'[i] # tasks_'[j]
          OBVIOUS
        <4>1. CASE i \in 1..Len(tasks_)
          <5>1. i \in DOMAIN tasks_ /\ tasks_'[i] = tasks_[i]
            BY <1>4, <1>8, <4>1
          <5>2. tasks_[i][1] # c
            BY <1>2, <5>1
          <5> QED BY <3>1, <5>1, <5>2
        <4>2. CASE i \in (Len(tasks_) + 1)..(Len(tasks_) + n_tasks[c])
          <5>1. tasks_'[i] = <<c, i - Len(tasks_)>>
            BY <1>8, <4>2
          <5>2. i - Len(tasks_) # j - Len(tasks_)
            BY <1>4, <2>2, <4>2
          <5> QED BY <3>1, <5>1, <5>2
        <4> QED BY <1>4, <1>8, <4>1, <4>2
      <3> QED BY <1>6, <3>1, <3>2 DEF Dispatched
    <2> QED BY <1>4, <1>8, <2>1, <2>2
  <1>10. WorkerAccounting'
    <2> SUFFICES ASSUME NEW w \in Workers, wpc[w] \in InTask
                 PROVE  /\ cpc'[call[w]] \in Dispatched
                        /\ wpc[w] \in {"count", "unlock"} => done_mu[call[w]] = w
                        /\ wpc[w] \in Uncounted =>
                             /\ num[w] \in (1..n_tasks[call[w]]) \ finished[call[w]]
                             /\ \A j \in DOMAIN tasks_' : tasks_'[j] # <<call[w], num[w]>>
                             /\ \A v \in Workers :
                                  v # w /\ wpc[v] \in Uncounted /\ call[v] = call[w]
                                    => num[v] # num[w]
      BY <1>1, <1>3 DEF WorkerAccounting
    <2>1. call[w] # c /\ call[w] \in Callers
      BY <1>2, <1>4
    <2>2. ASSUME NEW j \in DOMAIN tasks_', wpc[w] \in Uncounted
          PROVE  tasks_'[j] # <<call[w], num[w]>>
      <3>1. CASE j \in 1..Len(tasks_)
        <4>1. j \in DOMAIN tasks_ /\ tasks_'[j] = tasks_[j]
          BY <1>4, <1>8, <3>1
        <4> QED BY <2>2, <4>1 DEF TaskAccounting, WorkerAccounting
      <3>2. CASE j \in (Len(tasks_) + 1)..(Len(tasks_) + n_tasks[c])
        BY <1>8, <2>1, <3>2
      <3> QED BY <1>4, <1>8, <3>1, <3>2
    <2> QED BY <1>5, <2>1, <2>2 DEF TaskAccounting, WorkerAccounting
  <1>11. CallAccounting'
    BY <1>1, <1>5, <1>6 DEF TaskAccounting, CallAccounting, Dispatched
  <1> QED BY <1>9, <1>10, <1>11 DEF TaskAccounting

\* A step that moves a caller between places that own the same tasks.
LEMMA CallerMoves ==
    ASSUME TypeOK, TaskAccounting, Workers' = Workers, NEW c \in Callers, NEW p,
           cpc' = [cpc EXCEPT ![c] = p],
           UNCHANGED <<tasks_, wpc, call, num, n_tasks, finished, done_count, done_mu>>,
           \/ cpc[c] \in Dispatched /\ p \in Dispatched
           \/ cpc[c] \notin Dispatched /\ p \in {"idle", "inline"}
           \/ /\ cpc[c] \in Dispatched /\ p = "rethrow"
              /\ done_mu[c] = 0 /\ finished[c] = 1..n_tasks[c]
    PROVE  TaskAccounting'
  <1>1. /\ cpc \in [Callers -> CallerPlaces] /\ n_tasks \in [Callers -> Nat]
        /\ \A w \in Workers : wpc[w] \in InTask => call[w] \in Callers
    BY DEF TypeOK, WorkerType, CallerType
  <1>2. cpc'[c] = p /\ \A d \in Callers : d # c => cpc'[d] = cpc[d]
    BY <1>1
  <1>3. /\ \A j \in DOMAIN tasks_ : cpc'[tasks_[j][1]] \in Dispatched
        /\ \A w \in Workers : wpc[w] \in InTask => cpc'[call[w]] \in Dispatched
    <2>1. CASE cpc[c] \in Dispatched /\ p \in Dispatched
      BY <1>1, <1>2, <2>1, QueuedTask DEF TaskAccounting, QueueAccounting, WorkerAccounting
    <2>2. CASE cpc[c] \notin Dispatched
      BY <1>1, <1>2, <2>2, QueuedTask, QuietCaller
         DEF TaskAccounting, QueueAccounting, WorkerAccounting
    <2>3. CASE /\ cpc[c] \in Dispatched /\ p = "rethrow"
               /\ done_mu[c] = 0 /\ finished[c] = 1..n_tasks[c]
      <3>1. \A j \in DOMAIN tasks_ : tasks_[j][1] # c
        BY <2>3 DEF TaskAccounting, QueueAccounting
      <3>2. \A w \in Workers : wpc[w] \in InTask => call[w] # c
        <4> SUFFICES ASSUME NEW w \in Workers, wpc[w] \in InTask, call[w] = c PROVE FALSE
          OBVIOUS
        <4>1. w # 0
          BY DEF Workers
        <4>2. wpc[w] \notin Uncounted
          BY <2>3 DEF TaskAccounting, WorkerAccounting
        <4>3. wpc[w] = "unlock"
          BY <4>2 DEF Uncounted
        <4> QED BY <2>3, <4>1, <4>3 DEF TaskAccounting, WorkerAccounting
      <3> QED
        BY <1>1, <1>2, <3>1, <3>2, QueuedTask DEF TaskAccounting, QueueAccounting, WorkerAccounting
    <2> QED BY <2>1, <2>2, <2>3
  <1>4. QueueAccounting'
    BY <1>3 DEF TaskAccounting, QueueAccounting
  <1>5. WorkerAccounting'
    BY <1>3 DEF TaskAccounting, WorkerAccounting
  <1>6. CallAccounting'
    BY <1>2 DEF TaskAccounting, CallAccounting, Dispatched
  <1> QED BY <1>4, <1>5, <1>6 DEF TaskAccounting

\* There are n task numbers.
LEMMA TaskNumbers ==
    ASSUME NEW n \in Nat
    PROVE  IsFiniteSet(1..n) /\ Cardinality(1..n) = n
  <1>1. 1 \in Int /\ n \in Int
    OBVIOUS
  <1>2. IsFiniteSet(1..n) /\ Cardinality(1..n) = IF 1 > n THEN 0 ELSE n - 1 + 1
    BY <1>1, FS_Interval, Zenon
  <1> QED BY <1>2

\* The caller leaves its wait only when every task number has been counted.
LEMMA CheckDoneTasks ==
    ASSUME TypeOK, TaskAccounting, [Next]_vars, NEW c \in Callers, CheckDone(c)
    PROVE  TaskAccounting'
  <1> USE DEF CheckDone, poolVars, workerVars, frame, history
  <1>1. Workers' = Workers
    BY PoolSizeFixed
  <1>2. CASE done_count[c] # n_tasks[c]
    <2>1. cpc' = [cpc EXCEPT ![c] = "asleep"]
      BY <1>2
    <2> QED BY <1>1, <2>1, CallerMoves DEF Dispatched
  <1>3. CASE done_count[c] = n_tasks[c]
    <2>1. cpc' = [cpc EXCEPT ![c] = "rethrow"]
      BY <1>3
    <2>2. n_tasks[c] \in Nat
      BY DEF TypeOK, CallerType
    <2>3. finished[c] \subseteq 1..n_tasks[c] /\ Cardinality(finished[c]) = n_tasks[c]
      BY <1>3 DEF TaskAccounting, CallAccounting
    <2>4. IsFiniteSet(1..n_tasks[c]) /\ Cardinality(1..n_tasks[c]) = n_tasks[c]
      BY <2>2, TaskNumbers
    <2>5. finished[c] = 1..n_tasks[c]
      BY <2>3, <2>4, FS_Subset
    <2> QED BY <1>1, <2>1, <2>5, CallerMoves DEF Dispatched
  <1> QED BY <1>2, <1>3

\* A popped task moves from the queue to one worker and is held by no other.
LEMMA PopTasks ==
    ASSUME TypeOK, TaskAccounting, [Next]_vars, NEW w \in Workers, WorkerPop(w)
    PROVE  TaskAccounting'
  <1>1. /\ wpc[w] = "check" /\ tasks_ # <<>>
        /\ call' = [call EXCEPT ![w] = Head(tasks_)[1]]
        /\ num' = [num EXCEPT ![w] = Head(tasks_)[2]]
        /\ tasks_' = Tail(tasks_)
        /\ wpc' = [wpc EXCEPT ![w] = "test"]
        /\ UNCHANGED <<cpc, n_tasks, finished, done_count, done_mu>>
    BY DEF WorkerPop, callerVars, frame, history
  <1>2. Workers' = Workers
    BY PoolSizeFixed
  <1>3. /\ wpc \in [Workers -> WorkerPlaces] /\ num \in [Workers -> Nat]
        /\ call \in [Workers -> Callers \cup {NoCall}]
        /\ tasks_ \in Seq(Callers \X Nat)
    BY DEF TypeOK, PoolType, WorkerType
  <1>4. /\ Head(tasks_) = tasks_[1] /\ 1 \in DOMAIN tasks_
        /\ DOMAIN tasks_' = 1..(Len(tasks_) - 1)
        /\ \A j \in DOMAIN tasks_' : tasks_'[j] = tasks_[j + 1] /\ j + 1 \in DOMAIN tasks_ /\ j + 1 # 1
    BY <1>1, <1>3
  <1>5. /\ call'[w] = tasks_[1][1] /\ num'[w] = tasks_[1][2] /\ wpc'[w] = "test"
        /\ \A v \in Workers : v # w => call'[v] = call[v] /\ num'[v] = num[v] /\ wpc'[v] = wpc[v]
    BY <1>1, <1>3, <1>4
  <1>6. QueueAccounting'
    BY <1>1, <1>4 DEF TaskAccounting, QueueAccounting
  <1>7. WorkerAccounting'
    <2> SUFFICES ASSUME NEW u \in Workers, wpc'[u] \in InTask
                 PROVE  /\ cpc[call'[u]] \in Dispatched
                        /\ wpc'[u] \in {"count", "unlock"} => done_mu[call'[u]] = u
                        /\ wpc'[u] \in Uncounted =>
                             /\ num'[u] \in (1..n_tasks[call'[u]]) \ finished[call'[u]]
                             /\ \A j \in DOMAIN tasks_' : tasks_'[j] # <<call'[u], num'[u]>>
                             /\ \A v \in Workers :
                                  v # u /\ wpc'[v] \in Uncounted /\ call'[v] = call'[u]
                                    => num'[v] # num'[u]
      BY <1>1, <1>2 DEF WorkerAccounting
    <2>1. tasks_[1] = <<tasks_[1][1], tasks_[1][2]>>
      BY <1>4, QueuedTask
    <2>2. CASE u = w
      <3>1. /\ cpc[call'[u]] \in Dispatched
            /\ num'[u] \in (1..n_tasks[call'[u]]) \ finished[call'[u]]
        BY <1>4, <1>5, <2>2 DEF TaskAccounting, QueueAccounting
      <3>2. \A j \in DOMAIN tasks_' : tasks_'[j] # <<call'[u], num'[u]>>
        BY <1>4, <1>5, <2>1, <2>2 DEF TaskAccounting, QueueAccounting
      <3>3. ASSUME NEW v \in Workers, v # u, wpc'[v] \in Uncounted, call'[v] = call'[u]
            PROVE  num'[v] # num'[u]
        <4>1. wpc[v] \in Uncounted /\ wpc[v] \in InTask /\ call[v] = tasks_[1][1] /\ num'[v] = num[v]
          BY <1>5, <2>2, <3>3 DEF Uncounted
        <4>2. tasks_[1] # <<call[v], num[v]>>
          BY <1>4, <4>1 DEF TaskAccounting, WorkerAccounting
        <4> QED BY <1>5, <2>1, <2>2, <4>1, <4>2
      <3> QED BY <1>5, <2>2, <3>1, <3>2, <3>3
    <2>3. CASE u # w
      <3>1. call'[u] = call[u] /\ num'[u] = num[u] /\ wpc'[u] = wpc[u]
        BY <1>5, <2>3
      <3>2. wpc[u] \in Uncounted => \A j \in DOMAIN tasks_' : tasks_'[j] # <<call[u], num[u]>>
        <4> SUFFICES ASSUME wpc[u] \in Uncounted, NEW j \in DOMAIN tasks_'
                     PROVE  tasks_'[j] # <<call[u], num[u]>>
          OBVIOUS
        <4>1. \A i \in DOMAIN tasks_ : tasks_[i] # <<call[u], num[u]>>
          BY <3>1 DEF TaskAccounting, WorkerAccounting
        <4> QED BY <1>4, <4>1
      <3>3. ASSUME wpc[u] \in Uncounted, NEW v \in Workers, v # u, wpc'[v] \in Uncounted,
                   call'[v] = call[u]
            PROVE  num'[v] # num[u]
        <4>1. CASE v = w
          <5>1. tasks_[1] # <<call[u], num[u]>>
            BY <1>4, <3>1, <3>3 DEF TaskAccounting, WorkerAccounting
          <5> QED BY <1>5, <2>1, <3>3, <4>1, <5>1
        <4>2. CASE v # w
          BY <1>5, <3>1, <3>3, <4>2 DEF TaskAccounting, WorkerAccounting
        <4> QED BY <4>1, <4>2
      <3> QED BY <3>1, <3>2, <3>3 DEF TaskAccounting, WorkerAccounting
    <2> QED BY <2>2, <2>3
  <1>8. CallAccounting'
    BY <1>1 DEF TaskAccounting, CallAccounting
  <1> QED BY <1>6, <1>7, <1>8 DEF TaskAccounting

\* call[w] of a busy worker is a caller inside Dispatched.
LEMMA BusyWorker ==
    ASSUME TypeOK, TaskAccounting, NEW w \in Workers, wpc[w] \in InTask
    PROVE  call[w] \in Callers /\ cpc[call[w]] \in Dispatched
  BY DEF TypeOK, WorkerType, TaskAccounting, WorkerAccounting

\* Taking done_mu makes the worker its only holder.
LEMMA LockTasks ==
    ASSUME TypeOK, TaskAccounting, [Next]_vars, NEW w \in Workers, LockDone(w)
    PROVE  TaskAccounting'
  <1>1. /\ wpc[w] = "lock" /\ done_mu[call[w]] = 0
        /\ done_mu' = [done_mu EXCEPT ![call[w]] = w]
        /\ wpc' = [wpc EXCEPT ![w] = "count"]
        /\ UNCHANGED <<tasks_, call, num, cpc, n_tasks, finished, done_count>>
    BY DEF LockDone, poolVars, history
  <1>2. Workers' = Workers
    BY PoolSizeFixed
  <1>3. call[w] \in Callers
    BY <1>1, BusyWorker DEF InTask
  <1>4. wpc \in [Workers -> WorkerPlaces] /\ done_mu \in [Callers -> {0} \cup Workers]
    BY DEF TypeOK, WorkerType, CallerType
  <1>5. wpc'[w] = "count" /\ \A v \in Workers : v # w => wpc'[v] = wpc[v]
    BY <1>1, <1>4
  <1>6. QueueAccounting' /\ CallAccounting'
    BY <1>1 DEF TaskAccounting, QueueAccounting, CallAccounting
  <1>7. \A v \in Workers : wpc'[v] \in InTask <=> wpc[v] \in InTask
    BY <1>1, <1>5 DEF InTask
  <1>8. \A v \in Workers : wpc'[v] \in Uncounted <=> wpc[v] \in Uncounted
    BY <1>1, <1>5 DEF InTask, Uncounted
  <1>9. ASSUME NEW v \in Workers, wpc'[v] \in {"count", "unlock"}
        PROVE  done_mu'[call[v]] = v
    <2>1. CASE v = w
      BY <1>1, <1>3, <1>4, <2>1
    <2>2. CASE v # w
      <3>1. wpc[v] \in InTask /\ wpc[v] \in {"count", "unlock"}
        BY <1>5, <1>9, <2>2 DEF InTask
      <3>2. done_mu[call[v]] = v /\ v # 0
        BY <3>1 DEF TaskAccounting, WorkerAccounting, Workers
      <3>3. call[v] # call[w]
        BY <1>1, <3>2
      <3>4. call[v] \in Callers
        BY <3>1, BusyWorker
      <3> QED BY <1>1, <1>4, <3>2, <3>3, <3>4
    <2> QED BY <2>1, <2>2
  <1>10. WorkerAccounting'
    <2> SUFFICES ASSUME NEW u \in Workers, wpc'[u] \in InTask
                 PROVE  /\ cpc[call[u]] \in Dispatched
                        /\ wpc'[u] \in {"count", "unlock"} => done_mu'[call[u]] = u
                        /\ wpc'[u] \in Uncounted =>
                             /\ num[u] \in (1..n_tasks[call[u]]) \ finished[call[u]]
                             /\ \A j \in DOMAIN tasks_ : tasks_[j] # <<call[u], num[u]>>
                             /\ \A v \in Workers :
                                  v # u /\ wpc'[v] \in Uncounted /\ call[v] = call[u]
                                    => num[v] # num[u]
      BY <1>1, <1>2 DEF WorkerAccounting
    <2> QED BY <1>7, <1>8, <1>9 DEF TaskAccounting, WorkerAccounting
  <1> QED BY <1>6, <1>10 DEF TaskAccounting

\* Counting a task adds its number to the counted ones exactly once, so
\* done_count stays their number.
LEMMA CountTasks ==
    ASSUME TypeOK, TaskAccounting, [Next]_vars, NEW w \in Workers, CountDone(w)
    PROVE  TaskAccounting'
  <1> DEFINE c == call[w]
  <1>1. /\ wpc[w] = "count"
        /\ done_count' = [done_count EXCEPT ![c] = done_count[c] + 1]
        /\ finished' = [finished EXCEPT ![c] = @ \cup {num[w]}]
        /\ cpc' = [cpc EXCEPT ![c] = IF done_count[c] + 1 = n_tasks[c] /\ @ = "asleep"
                                     THEN "check" ELSE @]
        /\ wpc' = [wpc EXCEPT ![w] = "unlock"]
        /\ UNCHANGED <<tasks_, call, num, n_tasks, done_mu>>
    BY DEF CountDone, poolVars
  <1>2. Workers' = Workers
    BY PoolSizeFixed
  <1>3. c \in Callers /\ cpc[c] \in Dispatched
    BY <1>1, BusyWorker DEF InTask
  <1>4. /\ wpc \in [Workers -> WorkerPlaces] /\ finished \in [Callers -> SUBSET Nat]
        /\ done_count \in [Callers -> Nat] /\ cpc \in [Callers -> CallerPlaces]
        /\ n_tasks \in [Callers -> Nat]
    BY DEF TypeOK, WorkerType, CallerType, HistoryType
  <1>5. wpc'[w] = "unlock" /\ \A v \in Workers : v # w => wpc'[v] = wpc[v]
    BY <1>1, <1>4
  <1>6. /\ finished'[c] = finished[c] \cup {num[w]}
        /\ done_count'[c] = done_count[c] + 1
        /\ cpc'[c] \in Dispatched
        /\ \A d \in Callers : d # c => /\ finished'[d] = finished[d]
                                       /\ done_count'[d] = done_count[d]
                                       /\ cpc'[d] = cpc[d]
    BY <1>1, <1>3, <1>4 DEF Dispatched
  <1>7. /\ num[w] \in (1..n_tasks[c]) \ finished[c]
        /\ \A j \in DOMAIN tasks_ : tasks_[j] # <<c, num[w]>>
        /\ \A v \in Workers : v # w /\ wpc[v] \in Uncounted /\ call[v] = c => num[v] # num[w]
    BY <1>1 DEF TaskAccounting, WorkerAccounting, InTask, Uncounted
  <1> HIDE DEF c
  <1>8. QueueAccounting'
    <2> SUFFICES ASSUME NEW j \in DOMAIN tasks_
                 PROVE  /\ cpc'[tasks_[j][1]] \in Dispatched
                        /\ tasks_[j][2] \in (1..n_tasks[tasks_[j][1]]) \ finished'[tasks_[j][1]]
                        /\ \A i \in DOMAIN tasks_ : i # j => tasks_[i] # tasks_[j]
      BY <1>1 DEF QueueAccounting
    <2>1. /\ cpc[tasks_[j][1]] \in Dispatched
          /\ tasks_[j][2] \in (1..n_tasks[tasks_[j][1]]) \ finished[tasks_[j][1]]
          /\ \A i \in DOMAIN tasks_ : i # j => tasks_[i] # tasks_[j]
      BY DEF TaskAccounting, QueueAccounting
    <2>2. tasks_[j][1] \in Callers /\ tasks_[j] = <<tasks_[j][1], tasks_[j][2]>>
      BY QueuedTask
    <2>3. CASE tasks_[j][1] = c
      <3>1. tasks_[j][2] # num[w]
        BY <1>7, <2>2, <2>3
      <3> QED BY <1>6, <2>1, <2>3, <3>1
    <2>4. CASE tasks_[j][1] # c
      BY <1>6, <2>1, <2>2, <2>4
    <2> QED BY <2>3, <2>4
  <1>9. WorkerAccounting'
    <2> SUFFICES ASSUME NEW u \in Workers, wpc'[u] \in InTask
                 PROVE  /\ cpc'[call[u]] \in Dispatched
                        /\ wpc'[u] \in {"count", "unlock"} => done_mu[call[u]] = u
                        /\ wpc'[u] \in Uncounted =>
                             /\ num[u] \in (1..n_tasks[call[u]]) \ finished'[call[u]]
                             /\ \A j \in DOMAIN tasks_ : tasks_[j] # <<call[u], num[u]>>
                             /\ \A v \in Workers :
                                  v # u /\ wpc'[v] \in Uncounted /\ call[v] = call[u]
                                    => num[v] # num[u]
      BY <1>1, <1>2 DEF WorkerAccounting
    <2>1. CASE u = w
      <3>1. done_mu[call[w]] = w
        BY <1>1 DEF TaskAccounting, WorkerAccounting, InTask
      <3>2. wpc'[u] \notin Uncounted
        BY <1>5, <2>1 DEF Uncounted
      <3> QED BY <1>6, <2>1, <3>1, <3>2 DEF c
    <2>2. CASE u # w
      <3>1. wpc'[u] = wpc[u]
        BY <1>5, <2>2
      <3>2. call[u] \in Callers /\ cpc[call[u]] \in Dispatched
        BY <3>1, BusyWorker
      <3>3. cpc'[call[u]] \in Dispatched
        BY <1>6, <3>2
      <3>4. wpc[u] \in Uncounted => num[u] \in (1..n_tasks[call[u]]) \ finished'[call[u]]
        <4>1. wpc[u] \in Uncounted => num[u] \in (1..n_tasks[call[u]]) \ finished[call[u]]
          BY <3>1 DEF TaskAccounting, WorkerAccounting
        <4>2. CASE call[u] = c
          BY <1>6, <1>7, <2>2, <4>1, <4>2
        <4>3. CASE call[u] # c
          BY <1>6, <3>2, <4>1, <4>3
        <4> QED BY <4>2, <4>3
      <3>5. \A v \in Workers : wpc'[v] \in Uncounted => wpc[v] \in Uncounted
        BY <1>5 DEF Uncounted
      <3> QED BY <3>1, <3>3, <3>4, <3>5 DEF TaskAccounting, WorkerAccounting
    <2> QED BY <2>1, <2>2
  <1>10. CallAccounting'
    <2>1. /\ finished[c] \subseteq 1..n_tasks[c] /\ n_tasks[c] > 0
          /\ done_count[c] = Cardinality(finished[c])
      BY <1>3 DEF TaskAccounting, CallAccounting
    <2>2. IsFiniteSet(finished[c])
      BY <1>3, <1>4, <2>1, TaskNumbers, FS_Subset
    <2>3. Cardinality(finished'[c]) = done_count'[c]
      BY <1>6, <1>7, <2>1, <2>2, FS_AddElement
    <2>4. finished'[c] \subseteq 1..n_tasks[c]
      BY <1>6, <1>7, <2>1
    <2> SUFFICES ASSUME NEW d \in Callers
                 PROVE  /\ finished'[d] \subseteq 1..n_tasks[d]
                        /\ done_count'[d] = Cardinality(finished'[d])
                        /\ cpc'[d] = "dispatch" => finished'[d] = {}
                        /\ cpc'[d] = "rethrow" => finished'[d] = 1..n_tasks[d]
                        /\ cpc'[d] \in Dispatched \cup {"dispatch", "rethrow"} => n_tasks[d] > 0
      BY <1>1 DEF CallAccounting
    <2>5. CASE d = c
      BY <1>6, <2>1, <2>3, <2>4, <2>5 DEF Dispatched
    <2>6. CASE d # c
      BY <1>6, <2>6 DEF TaskAccounting, CallAccounting
    <2> QED BY <2>5, <2>6
  <1> QED BY <1>8, <1>9, <1>10 DEF TaskAccounting

\* Releasing done_mu is the worker's last access to the frame: the caller is
\* still waiting for the lock at that point.
LEMMA UnlockTasks ==
    ASSUME TypeOK, TaskAccounting, [Next]_vars, NEW w \in Workers, UnlockDone(w)
    PROVE  TaskAccounting'
  <1>1. /\ wpc[w] = "unlock"
        /\ done_mu' = [done_mu EXCEPT ![call[w]] = 0]
        /\ call' = [call EXCEPT ![w] = NoCall]
        /\ wpc' = [wpc EXCEPT ![w] = "check"]
        /\ UNCHANGED <<tasks_, num, cpc, n_tasks, finished, done_count>>
    BY DEF UnlockDone, poolVars, history
  <1>2. Workers' = Workers
    BY PoolSizeFixed
  <1>3. /\ wpc \in [Workers -> WorkerPlaces] /\ done_mu \in [Callers -> {0} \cup Workers]
        /\ call \in [Workers -> Callers \cup {NoCall}]
    BY DEF TypeOK, WorkerType, CallerType
  <1>4. /\ wpc'[w] = "check"
        /\ \A v \in Workers : v # w => wpc'[v] = wpc[v] /\ call'[v] = call[v]
    BY <1>1, <1>3
  <1>5. QueueAccounting' /\ CallAccounting'
    BY <1>1 DEF TaskAccounting, QueueAccounting, CallAccounting
  <1>6. done_mu[call[w]] = w
    BY <1>1 DEF TaskAccounting, WorkerAccounting, InTask
  <1>7. WorkerAccounting'
    <2> SUFFICES ASSUME NEW u \in Workers, wpc'[u] \in InTask
                 PROVE  /\ cpc[call'[u]] \in Dispatched
                        /\ wpc'[u] \in {"count", "unlock"} => done_mu'[call'[u]] = u
                        /\ wpc'[u] \in Uncounted =>
                             /\ num[u] \in (1..n_tasks[call'[u]]) \ finished[call'[u]]
                             /\ \A j \in DOMAIN tasks_ : tasks_[j] # <<call'[u], num[u]>>
                             /\ \A v \in Workers :
                                  v # u /\ wpc'[v] \in Uncounted /\ call'[v] = call'[u]
                                    => num[v] # num[u]
      BY <1>1, <1>2 DEF WorkerAccounting
    <2>1. u # w
      BY <1>4 DEF InTask
    <2>2. wpc'[u] = wpc[u] /\ call'[u] = call[u] /\ call[u] \in Callers
      BY <1>4, <2>1, BusyWorker
    <2>3. wpc[u] \in {"count", "unlock"} => done_mu'[call[u]] = u
      <3>1. wpc[u] \in {"count", "unlock"} => done_mu[call[u]] = u
        BY <2>2 DEF TaskAccounting, WorkerAccounting
      <3> QED BY <1>1, <1>3, <1>6, <2>1, <2>2, <3>1
    <2>4. \A v \in Workers : wpc'[v] \in Uncounted => wpc[v] \in Uncounted /\ call'[v] = call[v]
      BY <1>4 DEF Uncounted, InTask
    <2> QED BY <2>2, <2>3, <2>4 DEF TaskAccounting, WorkerAccounting
  <1> QED BY <1>5, <1>7 DEF TaskAccounting

\* TaskAccounting is inductive, given the types.
LEMMA TaskAccountingStep ==
    ASSUME TypeOK, TaskAccounting, [Next]_vars
    PROVE  TaskAccounting'
  <1> USE DEF poolVars, workerVars, callerVars, frame, history
  <1>t. /\ Workers' = Workers
        /\ wpc \in [Workers -> WorkerPlaces]
    BY PoolSizeFixed DEF TypeOK, WorkerType
  <1>1. CASE SpawnWorker
    <2>1. PICK w \in Workers : wpc[w] = "unborn" /\ wpc' = [wpc EXCEPT ![w] = "check"]
      BY <1>1 DEF SpawnWorker
    <2>2. UNCHANGED <<tasks_, call, num, cpc, n_tasks, finished, done_count, done_mu>>
      BY <1>1 DEF SpawnWorker
    <2> QED BY <1>t, <2>1, <2>2, SamePhase DEF Uncounted, InTask
  <1>2. CASE CtorDone \/ SpawnFails \/ Destroy \/ JoinWorkers \/ Ended \/ UNCHANGED vars
    <2>1. UNCHANGED <<tasks_, wpc, call, num, cpc, n_tasks, finished, done_count, done_mu>>
      BY <1>2 DEF CtorDone, SpawnFails, Destroy, JoinWorkers, Ended, vars
    <2> QED BY <1>t, <2>1, SamePhase
  <1>3. CASE NotifyStop
    <2>1. UNCHANGED <<tasks_, call, num, cpc, n_tasks, finished, done_count, done_mu>>
      BY <1>3 DEF NotifyStop
    <2> QED BY <1>t, <1>3, <2>1, SamePhase DEF NotifyStop, WakeWorkers, Uncounted, InTask
  <1>4. ASSUME NEW c \in Callers, Call(c) \/ CallerNext(c) \/ SpuriousCallerWake(c)
        PROVE  TaskAccounting'
    <2>1. CASE Call(c)
      BY <2>1, CallTasks
    <2>2. CASE Dispatch(c)
      BY <2>2, DispatchTasks
    <2>3. CASE CheckDone(c)
      BY <2>3, CheckDoneTasks
    <2>4. CASE RunInline(c) \/ ReturnInline(c) \/ Return(c)
      <3>1. UNCHANGED <<tasks_, wpc, call, num, n_tasks, finished, done_count, done_mu>>
        BY <2>4 DEF RunInline, ReturnInline, Return
      <3>2. cpc[c] \notin Dispatched
        BY <2>4 DEF RunInline, ReturnInline, Return, Dispatched
      <3>3. cpc \in [Callers -> CallerPlaces]
        BY DEF TypeOK, CallerType
      <3>4. CASE cpc' = [cpc EXCEPT ![c] = "idle"]
        BY <1>t, <3>1, <3>2, <3>4, CallerMoves
      <3>5. CASE cpc' = cpc
        BY <1>t, <3>1, <3>5, SamePhase
      <3> QED BY <2>4, <3>4, <3>5 DEF RunInline, ReturnInline, Return
    <2>5. CASE SpuriousCallerWake(c)
      <3>1. /\ cpc[c] \in Dispatched /\ cpc' = [cpc EXCEPT ![c] = "check"]
            /\ UNCHANGED <<tasks_, wpc, call, num, n_tasks, finished, done_count, done_mu>>
        BY <2>5 DEF SpuriousCallerWake, Dispatched
      <3> QED BY <1>t, <3>1, CallerMoves DEF Dispatched
    <2>6. CASE NotifyWork(c)
      <3>1. /\ cpc[c] = "notify" /\ cpc' = [cpc EXCEPT ![c] = "check"]
            /\ wpc' = [w \in Workers |-> IF wpc[w] = "asleep" THEN "check" ELSE wpc[w]]
            /\ UNCHANGED <<tasks_, call, num, n_tasks, finished, done_count, done_mu>>
        BY <2>6 DEF NotifyWork, WakeWorkers
      <3>2. \A v \in Workers : /\ wpc'[v] \in InTask <=> wpc[v] \in InTask
                               /\ wpc[v] \in InTask => wpc'[v] = wpc[v]
        BY <1>t, <3>1 DEF InTask
      <3>3. /\ cpc \in [Callers -> CallerPlaces]
            /\ \A w \in Workers : wpc[w] \in InTask => call[w] \in Callers
        BY DEF TypeOK, CallerType, WorkerType
      <3>4. \A d \in Callers : cpc'[d] \in Dispatched <=> cpc[d] \in Dispatched
        BY <3>1, <3>3 DEF Dispatched
      <3>5. QueueAccounting'
        BY <3>1, <3>4, QueuedTask DEF TaskAccounting, QueueAccounting
      <3>6. WorkerAccounting'
        BY <1>t, <3>1, <3>2, <3>3, <3>4 DEF TaskAccounting, WorkerAccounting, Uncounted
      <3>7. CallAccounting'
        BY <3>1, <3>3 DEF TaskAccounting, CallAccounting, Dispatched
      <3> QED BY <3>5, <3>6, <3>7 DEF TaskAccounting
    <2> QED BY <1>4, <2>1, <2>2, <2>3, <2>4, <2>5, <2>6 DEF CallerNext
  <1>5. ASSUME NEW w \in Workers, WorkerNext(w) \/ SpuriousWorkerWake(w)
        PROVE  TaskAccounting'
    <2>1. CASE WorkerPop(w)
      BY <2>1, PopTasks
    <2>2. CASE LockDone(w)
      BY <2>2, LockTasks
    <2>3. CASE CountDone(w)
      BY <2>3, CountTasks
    <2>4. CASE UnlockDone(w)
      BY <2>4, UnlockTasks
    <2>5. CASE WorkerExit(w) \/ WorkerSleep(w) \/ SpuriousWorkerWake(w)
      <3>1. PICK p \in {"exited", "asleep", "check"} : wpc' = [wpc EXCEPT ![w] = p]
        BY <2>5 DEF WorkerExit, WorkerSleep, SpuriousWorkerWake
      <3>2. /\ wpc[w] \in {"check", "asleep"}
            /\ UNCHANGED <<tasks_, call, num, cpc, n_tasks, finished, done_count, done_mu>>
        BY <2>5 DEF WorkerExit, WorkerSleep, SpuriousWorkerWake
      <3> QED BY <1>t, <3>1, <3>2, SamePhase DEF Uncounted, InTask
    <2>6. CASE TestException(w) \/ Claim(w) \/ RunFn(w) \/ CatchException(w)
      <3>1. PICK p \in {"test", "claim", "run", "catch", "lock"} : wpc' = [wpc EXCEPT ![w] = p]
        BY <2>6 DEF TestException, Claim, RunFn, CatchException
      <3>2. /\ wpc[w] \in {"test", "claim", "run", "catch"}
            /\ UNCHANGED <<tasks_, call, num, cpc, n_tasks, finished, done_count, done_mu>>
        BY <2>6 DEF TestException, Claim, RunFn, CatchException
      <3> QED BY <1>t, <3>1, <3>2, SamePhase DEF Uncounted, InTask
    <2> QED BY <1>5, <2>1, <2>2, <2>3, <2>4, <2>5, <2>6 DEF WorkerNext
  <1> QED
    BY <1>1, <1>2, <1>3, <1>4, <1>5 DEF Next, OwnerNext

\* The tasks of every call are queued, run and counted exactly once each.
THEOREM TasksAccounted == Spec => []TaskAccounting
  <1>1. Init => TaskAccounting
    <2> SUFFICES ASSUME Init PROVE TaskAccounting
      OBVIOUS
    <2>1. QueueAccounting
      BY DEF Init, QueueAccounting
    <2>2. WorkerAccounting
      BY DEF Init, WorkerAccounting, InTask
    <2>3. CallAccounting
      BY FS_EmptySet DEF Init, CallAccounting, Dispatched
    <2> QED BY <2>1, <2>2, <2>3 DEF TaskAccounting
  <1>2. TypeOK /\ TaskAccounting /\ [Next]_vars => TaskAccounting'
    BY TaskAccountingStep
  <1> QED
    BY <1>1, <1>2, Typing, PTL DEF Spec

\* parallel_for never returns while one of its tasks is queued or still
\* touches the caller's stack frame: the count, the notification and the
\* unlock of done_mu all happen before the frame dies.
THEOREM FrameOutlivesTasks == Spec => []NoDanglingFrame
  <1>1. TaskAccounting => NoDanglingFrame
    BY DEF TaskAccounting, QueueAccounting, WorkerAccounting, NoDanglingFrame
  <1> QED
    BY <1>1, TasksAccounted, PTL

-------------------------------------------------------------------------------
(***************************************************************************)
(* What parallel_for does with the indexes of a range, and that the pool   *)
(* implements the abstract parallel_for of ParallelFor.                    *)
(***************************************************************************)

\* A task that is about to be counted: lock, count and unlock of done_mu.
Leaving == {"lock", "count", "unlock"}

\* Steps that neither claim, run, throw, catch nor count anything.
LEMMA SameWork ==
    ASSUME WorkAccounting, Workers' = Workers,
           UNCHANGED <<idx, lim, arg, cursor, first_exception, ran, thrown, finished>>,
           \A v \in Workers : wpc[v] \in {"run", "catch"} <=> wpc'[v] \in {"run", "catch"},
           \A v \in Workers : wpc[v] \in {"run", "catch"} => wpc'[v] = wpc[v] /\ call'[v] = call[v],
           \A v \in Workers : wpc'[v] \in Leaving => wpc[v] \in Leaving /\ call'[v] = call[v],
           \A c \in Callers : cpc'[c] \in Inside => cpc[c] \in Inside,
           \A c \in Callers : cpc'[c] = "inline" => cpc[c] = "inline",
           \A c \in Callers : finished[c] # {} /\ cpc'[c] \in Dispatched \cup {"rethrow"}
                                => cpc[c] \in Dispatched \cup {"rethrow"}
    PROVE  WorkAccounting'
  <1>1. ClaimAccounting'
    <2> SUFFICES ASSUME NEW w \in Workers, wpc'[w] = "run"
                 PROVE  /\ arg[call'[w]].begin <= idx[w] /\ idx[w] < lim[w]
                        /\ lim[w] <= cursor[call'[w]] /\ lim[w] <= arg[call'[w]].end
                        /\ Claimed(w) \cap ran[call'[w]] = {}
                        /\ \A v \in Workers : v # w /\ wpc'[v] = "run" /\ call'[v] = call'[w]
                                               => Claimed(v) \cap Claimed(w) = {}
      BY DEF ClaimAccounting, Claimed
    <2>1. wpc[w] = "run" /\ call'[w] = call[w]
      OBVIOUS
    <2>2. \A v \in Workers : wpc'[v] = "run" => wpc[v] = "run" /\ call'[v] = call[v]
      OBVIOUS
    <2> QED BY <2>1, <2>2 DEF WorkAccounting, ClaimAccounting
  <1>2. IndexAccounting'
    <2> SUFFICES ASSUME NEW c \in Callers, cpc'[c] \in Inside
                 PROVE  /\ ran[c] \subseteq {i \in Indexes(arg[c]) : i < cursor[c]}
                        /\ arg[c].begin <= cursor[c]
                        /\ HasException(c) => \E i \in thrown[c] : first_exception[c] = {i}
                        /\ thrown[c] = {} =>
                             \A i \in Unrun(c) :
                               \E w \in Workers : wpc'[w] = "run" /\ call'[w] = c /\ i \in Claimed(w)
                        /\ thrown[c] # {} =>
                             \/ HasException(c)
                             \/ \E w \in Workers : wpc'[w] = "catch" /\ call'[w] = c
                        /\ cpc'[c] = "inline" => thrown[c] = {}
      BY DEF IndexAccounting, HasException, Unrun, Claimed, Indexes
    <2>1. cpc[c] \in Inside
      OBVIOUS
    <2>2. \A w \in Workers : wpc[w] = "run" => wpc'[w] = "run" /\ call'[w] = call[w]
      OBVIOUS
    <2>3. \A w \in Workers : wpc[w] = "catch" => wpc'[w] = "catch" /\ call'[w] = call[w]
      OBVIOUS
    <2> QED BY <2>1, <2>2, <2>3 DEF WorkAccounting, IndexAccounting
  <1>3. CatchAccounting'
    BY DEF WorkAccounting, CatchAccounting
  <1>4. TaskEndAccounting'
    <2>1. ASSUME NEW w \in Workers, wpc'[w] \in Leaving
          PROVE  HasException(call'[w]) \/ cursor[call'[w]] >= arg[call'[w]].end
      BY <2>1 DEF WorkAccounting, TaskEndAccounting, Leaving
    <2>2. ASSUME NEW c \in Callers, finished[c] # {}, cpc'[c] \in Dispatched \cup {"rethrow"}
          PROVE  HasException(c) \/ cursor[c] >= arg[c].end
      BY <2>2 DEF WorkAccounting, TaskEndAccounting
    <2> QED BY <2>1, <2>2 DEF TaskEndAccounting, HasException, Leaving
  <1> QED BY <1>1, <1>2, <1>3, <1>4 DEF WorkAccounting

\* A new call starts with a cursor at its begin, nothing run and nothing thrown.
LEMMA CallWork ==
    ASSUME TypeOK, TaskAccounting, WorkAccounting, [Next]_vars, NEW c \in Callers, Call(c)
    PROVE  WorkAccounting'
  <1>1. PICK r \in Ranges :
          /\ arg' = [arg EXCEPT ![c] = r]
          /\ cursor' = [cursor EXCEPT ![c] = r.begin]
          /\ cpc' = [cpc EXCEPT ![c] = IF r.end <= r.begin THEN "idle"
                                       ELSE IF n_ = 0 THEN "inline" ELSE "dispatch"]
    BY DEF Call
  <1>2. /\ cpc[c] = "idle"
        /\ finished' = [finished EXCEPT ![c] = {}]
        /\ first_exception' = [first_exception EXCEPT ![c] = {}]
        /\ ran' = [ran EXCEPT ![c] = {}]
        /\ thrown' = [thrown EXCEPT ![c] = {}]
        /\ UNCHANGED <<wpc, call, idx, lim>>
    BY DEF Call, workerVars
  <1>3. \A w \in Workers : wpc[w] \in InTask => call[w] # c /\ call[w] \in Callers
    BY <1>2, QuietCaller DEF Dispatched, TypeOK, WorkerType
  <1>4. Workers' = Workers
    BY PoolSizeFixed
  <1>5. /\ cpc \in [Callers -> CallerPlaces] /\ arg \in [Callers -> Ranges]
        /\ cursor \in [Callers -> Nat] /\ finished \in [Callers -> SUBSET Nat]
        /\ first_exception \in [Callers -> SUBSET Nat]
        /\ ran \in [Callers -> SUBSET Nat] /\ thrown \in [Callers -> SUBSET Nat]
    BY DEF TypeOK, CallerType, HistoryType
  <1>6. \A d \in Callers : d # c =>
          /\ cpc'[d] = cpc[d] /\ arg'[d] = arg[d] /\ cursor'[d] = cursor[d]
          /\ finished'[d] = finished[d] /\ first_exception'[d] = first_exception[d]
          /\ ran'[d] = ran[d] /\ thrown'[d] = thrown[d]
    BY <1>1, <1>2, <1>5
  <1>7. /\ arg'[c] = r /\ cursor'[c] = r.begin /\ finished'[c] = {}
        /\ first_exception'[c] = {} /\ ran'[c] = {} /\ thrown'[c] = {}
        /\ r.begin \in Nat /\ r.end \in Nat
    BY <1>1, <1>2, <1>5
  <1>8. ClaimAccounting'
    BY <1>2, <1>3, <1>4, <1>6 DEF WorkAccounting, ClaimAccounting, Claimed, InTask
  <1>9. CatchAccounting'
    BY <1>2, <1>3, <1>4, <1>6 DEF WorkAccounting, CatchAccounting, InTask
  <1>10. TaskEndAccounting'
    <2>1. ASSUME NEW w \in Workers, wpc'[w] \in Leaving
          PROVE  HasException(call[w])' \/ cursor'[call[w]] >= arg'[call[w]].end
      <3>1. call[w] \in Callers /\ call[w] # c /\ wpc[w] \in Leaving
        BY <1>2, <1>3, <2>1 DEF InTask, Leaving
      <3>2. HasException(call[w]) \/ cursor[call[w]] >= arg[call[w]].end
        BY <3>1 DEF WorkAccounting, TaskEndAccounting, Leaving
      <3> QED BY <1>2, <1>6, <3>1, <3>2 DEF HasException
    <2>2. ASSUME NEW d \in Callers, finished'[d] # {}, cpc'[d] \in Dispatched \cup {"rethrow"}
          PROVE  HasException(d)' \/ cursor'[d] >= arg'[d].end
      <3>1. d # c
        BY <1>7, <2>2
      <3>2. HasException(d) \/ cursor[d] >= arg[d].end
        BY <1>6, <2>2, <3>1 DEF WorkAccounting, TaskEndAccounting
      <3> QED BY <1>6, <3>1, <3>2 DEF HasException
    <2> QED BY <1>2, <1>4, <2>1, <2>2 DEF TaskEndAccounting, HasException, Leaving
  <1>11. IndexAccounting'
    <2> SUFFICES ASSUME NEW d \in Callers, cpc'[d] \in Inside
                 PROVE  /\ ran'[d] \subseteq {i \in Indexes(arg'[d]) : i < cursor'[d]}
                        /\ arg'[d].begin <= cursor'[d]
                        /\ HasException(d)' => \E i \in thrown'[d] : first_exception'[d] = {i}
                        /\ thrown'[d] = {} =>
                             \A i \in Unrun(d)' :
                               \E w \in Workers : wpc[w] = "run" /\ call[w] = d /\ i \in Claimed(w)
                        /\ thrown'[d] # {} =>
                             \/ HasException(d)'
                             \/ \E w \in Workers : wpc[w] = "catch" /\ call[w] = d
                        /\ cpc'[d] = "inline" => thrown'[d] = {}
      BY <1>2, <1>4 DEF IndexAccounting, HasException, Claimed, Indexes
    <2>1. CASE d = c
      <3>1. Unrun(c)' = {}
        BY <1>7 DEF Unrun, Indexes
      <3> QED BY <1>7, <2>1, <3>1 DEF HasException
    <2>2. CASE d # c
      <3>1. Unrun(d)' = Unrun(d) /\ (HasException(d)' <=> HasException(d))
        BY <1>6, <2>2 DEF Unrun, HasException
      <3> QED BY <1>6, <2>2, <3>1 DEF WorkAccounting, IndexAccounting
    <2> QED BY <2>1, <2>2
  <1> QED BY <1>8, <1>9, <1>10, <1>11 DEF WorkAccounting

\* The loop of a pool without workers runs the index at the cursor, or throws
\* there and leaves.
LEMMA InlineWork ==
    ASSUME TypeOK, TaskAccounting, WorkAccounting, [Next]_vars, NEW c \in Callers, RunInline(c)
    PROVE  WorkAccounting'
  <1> DEFINE i == cursor[c]
  <1>1. /\ cpc[c] = "inline" /\ i < arg[c].end
        /\ ran' = [ran EXCEPT ![c] = @ \cup {i}]
        /\ \/ cursor' = [cursor EXCEPT ![c] = i + 1] /\ UNCHANGED <<cpc, thrown>>
           \/ /\ thrown' = [thrown EXCEPT ![c] = @ \cup {i}]
              /\ cpc' = [cpc EXCEPT ![c] = "idle"] /\ UNCHANGED cursor
        /\ UNCHANGED <<wpc, call, idx, lim, arg, finished, first_exception>>
    BY DEF RunInline, workerVars
  <1>2. \A w \in Workers : wpc[w] \in InTask => call[w] # c /\ call[w] \in Callers
    BY <1>1, QuietCaller DEF Dispatched, TypeOK, WorkerType
  <1>3. Workers' = Workers
    BY PoolSizeFixed
  <1>4. /\ cpc \in [Callers -> CallerPlaces] /\ arg \in [Callers -> Ranges]
        /\ cursor \in [Callers -> Nat]
        /\ ran \in [Callers -> SUBSET Nat] /\ thrown \in [Callers -> SUBSET Nat]
    BY DEF TypeOK, CallerType, HistoryType
  <1>5. \A d \in Callers : d # c =>
          /\ cpc'[d] = cpc[d] /\ cursor'[d] = cursor[d]
          /\ ran'[d] = ran[d] /\ thrown'[d] = thrown[d]
    BY <1>1, <1>4
  <1>6. ClaimAccounting'
    BY <1>1, <1>2, <1>3, <1>5 DEF WorkAccounting, ClaimAccounting, Claimed, InTask
  <1>7. CatchAccounting'
    BY <1>1, <1>2, <1>3, <1>5 DEF WorkAccounting, CatchAccounting, InTask
  <1>8. TaskEndAccounting'
    <2>1. ASSUME NEW w \in Workers, wpc[w] \in Leaving
          PROVE  HasException(call[w]) \/ cursor'[call[w]] >= arg[call[w]].end
      <3>1. call[w] \in Callers /\ call[w] # c
        BY <1>2, <2>1 DEF InTask, Leaving
      <3> QED BY <1>5, <2>1, <3>1 DEF WorkAccounting, TaskEndAccounting, Leaving
    <2>2. ASSUME NEW d \in Callers, finished[d] # {}, cpc'[d] \in Dispatched \cup {"rethrow"}
          PROVE  HasException(d) \/ cursor'[d] >= arg[d].end
      <3>1. d # c
        BY <1>1, <1>4, <2>2 DEF Dispatched
      <3> QED BY <1>5, <2>2, <3>1 DEF WorkAccounting, TaskEndAccounting
    <2> QED BY <1>1, <1>3, <2>1, <2>2 DEF TaskEndAccounting, HasException, Leaving
  <1>9. IndexAccounting'
    <2> SUFFICES ASSUME NEW d \in Callers, cpc'[d] \in Inside
                 PROVE  /\ ran'[d] \subseteq {j \in Indexes(arg[d]) : j < cursor'[d]}
                        /\ arg[d].begin <= cursor'[d]
                        /\ HasException(d) => \E j \in thrown'[d] : first_exception[d] = {j}
                        /\ thrown'[d] = {} =>
                             \A j \in Unrun(d)' :
                               \E w \in Workers : wpc[w] = "run" /\ call[w] = d /\ j \in Claimed(w)
                        /\ thrown'[d] # {} =>
                             \/ HasException(d)
                             \/ \E w \in Workers : wpc[w] = "catch" /\ call[w] = d
                        /\ cpc'[d] = "inline" => thrown'[d] = {}
      BY <1>1, <1>3 DEF IndexAccounting, HasException, Claimed, Indexes
    <2>1. CASE d = c
      <3>1. cursor' = [cursor EXCEPT ![c] = i + 1] /\ UNCHANGED <<cpc, thrown>>
        BY <1>1, <1>4, <2>1 DEF Inside, Dispatched
      <3>2. /\ cursor'[c] = cursor[c] + 1 /\ ran'[c] = ran[c] \cup {cursor[c]}
            /\ cursor[c] \in Nat /\ arg[c].begin \in Nat /\ arg[c].end \in Nat
            /\ cpc[c] \in Inside /\ thrown'[c] = thrown[c] /\ ran[c] \subseteq Nat
        BY <1>1, <1>4, <3>1 DEF Inside
      <3> HIDE DEF i
      <3>3. /\ ran[c] \subseteq {j \in Indexes(arg[c]) : j < cursor[c]}
            /\ arg[c].begin <= cursor[c]
            /\ HasException(c) => \E j \in thrown[c] : first_exception[c] = {j}
            /\ thrown[c] = {}
            /\ \A j \in Unrun(c) :
                 \E w \in Workers : wpc[w] = "run" /\ call[w] = c /\ j \in Claimed(w)
        BY <1>1, <3>2 DEF WorkAccounting, IndexAccounting
      <3>4. Unrun(c)' \subseteq Unrun(c)
        BY <1>1, <3>2 DEF Unrun, Indexes
      <3>5. ran'[c] \subseteq {j \in Indexes(arg[c]) : j < cursor'[c]}
        BY <1>1, <3>2, <3>3 DEF Indexes, i
      <3> QED BY <2>1, <3>2, <3>3, <3>4, <3>5
    <2>2. CASE d # c
      <3>1. Unrun(d)' = Unrun(d)
        BY <1>1, <1>5, <2>2 DEF Unrun
      <3> QED BY <1>5, <2>2, <3>1 DEF WorkAccounting, IndexAccounting
    <2> QED BY <2>1, <2>2
  <1> QED BY <1>6, <1>7, <1>8, <1>9 DEF WorkAccounting

\* fetch_add gives the indexes from the cursor on to one worker: nobody has run
\* or claimed them, because all that was below the old cursor.
LEMMA ClaimWork ==
    ASSUME TypeOK, TaskAccounting, WorkAccounting, [Next]_vars, NEW w \in Workers, Claim(w)
    PROVE  WorkAccounting'
  <1> DEFINE c == call[w]
             end == SmallerOf(cursor[c] + Chunk(c), arg[c].end)
  <1>1. /\ wpc[w] = "claim"
        /\ cursor' = [cursor EXCEPT ![c] = cursor[c] + Chunk(c)]
        /\ \/ /\ cursor[c] >= arg[c].end
              /\ wpc' = [wpc EXCEPT ![w] = "lock"] /\ UNCHANGED <<idx, lim>>
           \/ /\ cursor[c] < arg[c].end
              /\ wpc' = [wpc EXCEPT ![w] = "run"]
              /\ idx' = [idx EXCEPT ![w] = cursor[c]]
              /\ lim' = [lim EXCEPT ![w] = end]
        /\ UNCHANGED <<call, cpc, arg, first_exception, ran, thrown, finished>>
    BY DEF Claim, history
  <1>2. c \in Callers /\ cpc[c] \in Dispatched
    BY <1>1, BusyWorker DEF InTask
  <1>3. Workers' = Workers
    BY PoolSizeFixed
  <1>4. /\ wpc \in [Workers -> WorkerPlaces] /\ idx \in [Workers -> Nat] /\ lim \in [Workers -> Nat]
        /\ cursor \in [Callers -> Nat] /\ arg \in [Callers -> Ranges]
        /\ ran \in [Callers -> SUBSET Nat]
        /\ \A v \in Workers : wpc[v] \in InTask => call[v] \in Callers
    BY DEF TypeOK, WorkerType, CallerType, HistoryType
  <1>5. /\ cursor[c] \in Nat /\ arg[c].begin \in Nat /\ arg[c].end \in Nat
        /\ Chunk(c) \in Nat /\ Chunk(c) > 0
        /\ cursor'[c] = cursor[c] + Chunk(c)
        /\ \A d \in Callers : d # c => cursor'[d] = cursor[d]
        /\ \A d \in Callers : cursor[d] \in Nat /\ cursor'[d] \in Nat /\ cursor[d] <= cursor'[d]
    <2>1. arg[c] \in [begin : Nat, end : Nat, chunk : Nat]
      BY <1>2, <1>4
    <2>2. Chunk(c) \in Nat /\ Chunk(c) > 0
      BY <2>1 DEF Chunk
    <2> HIDE DEF c
    <2> QED BY <1>1, <1>2, <1>4, <2>1, <2>2
  <1>6. /\ end \in Nat /\ end <= cursor'[c] /\ end <= arg[c].end
        /\ cursor[c] < arg[c].end => cursor[c] < end
        /\ \A i \in Nat : i < arg[c].end /\ i < cursor'[c] => i < end
    BY <1>5 DEF SmallerOf
  <1>7. /\ ran[c] \subseteq {i \in Indexes(arg[c]) : i < cursor[c]}
        /\ arg[c].begin <= cursor[c]
    BY <1>2 DEF WorkAccounting, IndexAccounting, Inside
  <1>8. /\ \A v \in Workers : v # w => /\ wpc'[v] = wpc[v] /\ idx'[v] = idx[v] /\ lim'[v] = lim[v]
                                       /\ Claimed(v)' = Claimed(v)
        /\ wpc'[w] \in {"lock", "run"}
        /\ wpc'[w] = "lock" => cursor[c] >= arg[c].end
        /\ wpc'[w] = "run" => /\ cursor[c] < arg[c].end
                              /\ idx'[w] = cursor[c] /\ lim'[w] = end
                              /\ Claimed(w)' = cursor[c] .. (end - 1)
    <2> HIDE DEF end
    <2>1. CASE cursor[c] >= arg[c].end
      BY <1>1, <1>4, <1>5, <2>1 DEF Claimed
    <2>2. CASE cursor[c] < arg[c].end
      BY <1>1, <1>4, <1>5, <2>2 DEF Claimed
    <2> QED BY <1>5, <2>1, <2>2
  <1> HIDE DEF c, end
  <1>9. ClaimAccounting'
    <2> SUFFICES ASSUME NEW u \in Workers, wpc'[u] = "run"
                 PROVE  /\ arg[call[u]].begin <= idx'[u] /\ idx'[u] < lim'[u]
                        /\ lim'[u] <= cursor'[call[u]] /\ lim'[u] <= arg[call[u]].end
                        /\ Claimed(u)' \cap ran[call[u]] = {}
                        /\ \A v \in Workers : v # u /\ wpc'[v] = "run" /\ call[v] = call[u]
                                               => Claimed(v)' \cap Claimed(u)' = {}
      BY <1>1, <1>3 DEF ClaimAccounting
    <2>o. ASSUME NEW v \in Workers, v # w, wpc'[v] = "run"
          PROVE  /\ wpc[v] = "run" /\ call[v] \in Callers
                 /\ arg[call[v]].begin <= idx[v] /\ idx[v] < lim[v]
                 /\ lim[v] <= cursor[call[v]] /\ lim[v] <= arg[call[v]].end
                 /\ Claimed(v) \cap ran[call[v]] = {}
                 /\ idx[v] \in Nat /\ lim[v] \in Nat
      BY <1>4, <1>8, <2>o DEF WorkAccounting, ClaimAccounting, InTask
    <2>1. CASE u = w
      <3>1. /\ arg[c].begin <= idx'[w] /\ idx'[w] < lim'[w]
            /\ lim'[w] <= cursor'[c] /\ lim'[w] <= arg[c].end
        BY <1>5, <1>6, <1>7, <1>8, <2>1
      <3>2. Claimed(w)' \cap ran[c] = {}
        BY <1>5, <1>6, <1>7, <1>8, <2>1 DEF Indexes
      <3>3. ASSUME NEW v \in Workers, v # w, wpc'[v] = "run", call[v] = c
            PROVE  Claimed(v)' \cap Claimed(w)' = {}
        <4>1. Claimed(v)' = idx[v] .. (lim[v] - 1) /\ lim[v] <= cursor[c] /\ lim[v] \in Nat /\ idx[v] \in Nat
          BY <1>8, <2>o, <3>3 DEF Claimed
        <4>2. Claimed(w)' = cursor[c] .. (end - 1)
          BY <1>8, <2>1
        <4> QED BY <1>5, <1>6, <4>1, <4>2
      <3> QED BY <2>1, <3>1, <3>2, <3>3 DEF c
    <2>2. CASE u # w
      <3>1. /\ arg[call[u]].begin <= idx'[u] /\ idx'[u] < lim'[u]
            /\ lim'[u] <= cursor'[call[u]] /\ lim'[u] <= arg[call[u]].end
            /\ Claimed(u)' \cap ran[call[u]] = {}
        <4>1. cursor[call[u]] \in Nat /\ cursor'[call[u]] \in Nat /\ cursor[call[u]] <= cursor'[call[u]]
          BY <1>5, <2>2, <2>o
        <4>2. idx'[u] = idx[u] /\ lim'[u] = lim[u] /\ Claimed(u)' = Claimed(u)
          BY <1>8, <2>2
        <4> QED BY <2>2, <2>o, <4>1, <4>2
      <3>2. ASSUME NEW v \in Workers, v # u, wpc'[v] = "run", call[v] = call[u]
            PROVE  Claimed(v)' \cap Claimed(u)' = {}
        <4>1. CASE v = w
          <5>1. Claimed(u)' = idx[u] .. (lim[u] - 1) /\ lim[u] <= cursor[c] /\ lim[u] \in Nat /\ idx[u] \in Nat
            BY <1>8, <2>2, <2>o, <3>2, <4>1 DEF Claimed, c
          <5>2. Claimed(w)' = cursor[c] .. (end - 1)
            BY <1>8, <3>2, <4>1
          <5> QED BY <1>5, <1>6, <4>1, <5>1, <5>2
        <4>2. CASE v # w
          BY <1>8, <2>2, <2>o, <3>2, <4>2 DEF WorkAccounting, ClaimAccounting
        <4> QED BY <4>1, <4>2
      <3> QED BY <3>1, <3>2
    <2> QED BY <2>1, <2>2
  <1>10. CatchAccounting'
    BY <1>1, <1>3, <1>8 DEF WorkAccounting, CatchAccounting
  <1>11. TaskEndAccounting'
    <2>1. ASSUME NEW u \in Workers, wpc'[u] \in Leaving
          PROVE  HasException(call[u]) \/ cursor'[call[u]] >= arg[call[u]].end
      <3>1. CASE u = w
        BY <1>5, <1>8, <2>1, <3>1 DEF Leaving, c
      <3>2. CASE u # w
        <4>1. wpc[u] \in Leaving /\ call[u] \in Callers
          BY <1>4, <1>8, <2>1, <3>2 DEF Leaving, InTask
        <4>2. HasException(call[u]) \/ cursor[call[u]] >= arg[call[u]].end
          BY <4>1 DEF WorkAccounting, TaskEndAccounting, Leaving
        <4>3. arg[call[u]].end \in Nat
          BY <1>4, <4>1
        <4> QED BY <1>5, <4>1, <4>2, <4>3
      <3> QED BY <3>1, <3>2
    <2>2. ASSUME NEW d \in Callers, finished[d] # {}, cpc[d] \in Dispatched \cup {"rethrow"}
          PROVE  HasException(d) \/ cursor'[d] >= arg[d].end
      <3>1. HasException(d) \/ cursor[d] >= arg[d].end
        BY <2>2 DEF WorkAccounting, TaskEndAccounting
      <3>2. arg[d].end \in Nat
        BY <1>4
      <3> QED BY <1>5, <3>1, <3>2
    <2> QED BY <1>1, <1>3, <2>1, <2>2 DEF TaskEndAccounting, HasException, Leaving
  <1>12. IndexAccounting'
    <2> SUFFICES ASSUME NEW d \in Callers, cpc[d] \in Inside
                 PROVE  /\ ran[d] \subseteq {i \in Indexes(arg[d]) : i < cursor'[d]}
                        /\ arg[d].begin <= cursor'[d]
                        /\ HasException(d) => \E i \in thrown[d] : first_exception[d] = {i}
                        /\ thrown[d] = {} =>
                             \A i \in Unrun(d)' :
                               \E u \in Workers : wpc'[u] = "run" /\ call[u] = d /\ i \in Claimed(u)'
                        /\ thrown[d] # {} =>
                             \/ HasException(d)
                             \/ \E u \in Workers : wpc'[u] = "catch" /\ call[u] = d
                        /\ cpc[d] = "inline" => thrown[d] = {}
      BY <1>1, <1>3 DEF IndexAccounting, HasException, Indexes
    <2>1. /\ ran[d] \subseteq {i \in Indexes(arg[d]) : i < cursor[d]}
          /\ arg[d].begin <= cursor[d]
          /\ HasException(d) => \E i \in thrown[d] : first_exception[d] = {i}
          /\ thrown[d] = {} =>
               \A i \in Unrun(d) :
                 \E u \in Workers : wpc[u] = "run" /\ call[u] = d /\ i \in Claimed(u)
          /\ thrown[d] # {} =>
               \/ HasException(d)
               \/ \E u \in Workers : wpc[u] = "catch" /\ call[u] = d
          /\ cpc[d] = "inline" => thrown[d] = {}
      BY DEF WorkAccounting, IndexAccounting
    <2>2. arg[d].begin \in Nat /\ arg[d].end \in Nat
      BY <1>4
    <2>3. ran[d] \subseteq {i \in Indexes(arg[d]) : i < cursor'[d]} /\ arg[d].begin <= cursor'[d]
      BY <1>5, <2>1, <2>2 DEF Indexes
    <2>4. \A u \in Workers : wpc[u] \in {"run", "catch"} => wpc'[u] = wpc[u] /\ Claimed(u)' = Claimed(u)
      BY <1>1, <1>8
    <2>5. ASSUME thrown[d] = {}, NEW i \in Unrun(d)'
          PROVE  \E u \in Workers : wpc'[u] = "run" /\ call[u] = d /\ i \in Claimed(u)'
      <3>0. i \in Indexes(arg[d]) /\ i < cursor'[d] /\ i \notin ran[d] /\ i \in Nat /\ i < arg[d].end
        BY <1>1, <2>2, <2>5 DEF Unrun, Indexes
      <3>1. CASE i < cursor[d]
        <4>1. i \in Unrun(d)
          BY <3>0, <3>1 DEF Unrun
        <4> QED BY <2>1, <2>4, <2>5, <4>1
      <3>2. CASE ~(i < cursor[d])
        <4>1. d = c
          BY <1>5, <3>0, <3>2
        <4>2. cursor[c] <= i /\ i < end
          BY <1>5, <1>6, <3>0, <3>2, <4>1
        <4>3. wpc'[w] = "run"
          BY <1>5, <1>8, <3>0, <4>1, <4>2
        <4>4. i \in Claimed(w)'
          BY <1>5, <1>6, <1>8, <3>0, <4>2, <4>3
        <4> QED BY <4>1, <4>3, <4>4 DEF c
      <3> QED BY <3>1, <3>2
    <2> QED BY <2>1, <2>3, <2>4, <2>5
  <1> QED BY <1>9, <1>10, <1>11, <1>12 DEF WorkAccounting

\* fn runs at an index nobody else has claimed; if it throws, the worker is on
\* its way to the catch block.
LEMMA RunWork ==
    ASSUME TypeOK, TaskAccounting, WorkAccounting, [Next]_vars, NEW w \in Workers, RunFn(w)
    PROVE  WorkAccounting'
  <1> DEFINE c == call[w]
             i == idx[w]
  <1>1. /\ wpc[w] = "run"
        /\ ran' = [ran EXCEPT ![c] = @ \cup {i}]
        /\ \/ /\ idx' = [idx EXCEPT ![w] = i + 1]
              /\ wpc' = [wpc EXCEPT ![w] = IF i + 1 < lim[w] THEN "run" ELSE "test"]
              /\ UNCHANGED thrown
           \/ /\ thrown' = [thrown EXCEPT ![c] = @ \cup {i}]
              /\ wpc' = [wpc EXCEPT ![w] = "catch"]
              /\ UNCHANGED idx
        /\ UNCHANGED <<call, lim, cpc, arg, cursor, first_exception, finished>>
    BY DEF RunFn, callerVars, frame
  <1>2. c \in Callers /\ cpc[c] \in Dispatched
    BY <1>1, BusyWorker DEF InTask
  <1>3. Workers' = Workers
    BY PoolSizeFixed
  <1>4. /\ wpc \in [Workers -> WorkerPlaces] /\ idx \in [Workers -> Nat] /\ lim \in [Workers -> Nat]
        /\ cursor \in [Callers -> Nat] /\ arg \in [Callers -> Ranges]
        /\ ran \in [Callers -> SUBSET Nat] /\ thrown \in [Callers -> SUBSET Nat]
        /\ \A v \in Workers : wpc[v] \in InTask => call[v] \in Callers
    BY DEF TypeOK, WorkerType, CallerType, HistoryType
  <1>5. /\ arg[c].begin <= i /\ i < lim[w] /\ lim[w] <= cursor[c] /\ lim[w] <= arg[c].end
        /\ Claimed(w) \cap ran[c] = {}
        /\ \A v \in Workers : v # w /\ wpc[v] = "run" /\ call[v] = c => Claimed(v) \cap Claimed(w) = {}
    BY <1>1 DEF WorkAccounting, ClaimAccounting
  <1>6. /\ i \in Nat /\ lim[w] \in Nat /\ cursor[c] \in Nat
        /\ arg[c].begin \in Nat /\ arg[c].end \in Nat
        /\ i \in Claimed(w)
    <2>1. i \in Nat /\ lim[w] \in Nat /\ cursor[c] \in Nat /\ arg[c].begin \in Nat /\ arg[c].end \in Nat
      BY <1>2, <1>4
    <2> QED BY <1>5, <2>1 DEF Claimed
  <1>7. /\ ran'[c] = ran[c] \cup {i}
        /\ \A d \in Callers : d # c => ran'[d] = ran[d] /\ thrown'[d] = thrown[d]
        /\ \A v \in Workers : v # w => wpc'[v] = wpc[v] /\ idx'[v] = idx[v] /\ Claimed(v)' = Claimed(v)
        /\ thrown[c] \subseteq thrown'[c]
    BY <1>1, <1>2, <1>4 DEF Claimed
  <1>8. \/ /\ idx'[w] = i + 1 /\ thrown' = thrown
           /\ wpc'[w] = IF i + 1 < lim[w] THEN "run" ELSE "test"
        \/ wpc'[w] = "catch" /\ thrown'[c] = thrown[c] \cup {i} /\ idx'[w] = i
    BY <1>1, <1>2, <1>4
  <1> HIDE DEF c, i
  <1>9. wpc'[w] = "run" =>
          /\ idx'[w] = i + 1 /\ i + 1 < lim[w]
          /\ Claimed(w)' \subseteq Claimed(w) /\ i \notin Claimed(w)'
    <2> SUFFICES ASSUME wpc'[w] = "run"
                 PROVE  /\ idx'[w] = i + 1 /\ i + 1 < lim[w]
                        /\ Claimed(w)' \subseteq Claimed(w) /\ i \notin Claimed(w)'
      OBVIOUS
    <2>1. idx'[w] = i + 1 /\ i + 1 < lim[w]
      BY <1>8
    <2> QED BY <1>1, <1>6, <2>1 DEF Claimed, i
  <1>10. ClaimAccounting'
    <2> SUFFICES ASSUME NEW u \in Workers, wpc'[u] = "run"
                 PROVE  /\ arg[call[u]].begin <= idx'[u] /\ idx'[u] < lim[u]
                        /\ lim[u] <= cursor[call[u]] /\ lim[u] <= arg[call[u]].end
                        /\ Claimed(u)' \cap ran'[call[u]] = {}
                        /\ \A v \in Workers : v # u /\ wpc'[v] = "run" /\ call[v] = call[u]
                                               => Claimed(v)' \cap Claimed(u)' = {}
      BY <1>1, <1>3 DEF ClaimAccounting
    <2>1. \A v \in Workers : wpc'[v] = "run" => wpc[v] = "run" /\ Claimed(v)' \subseteq Claimed(v)
      BY <1>1, <1>7, <1>9
    <2>2. \A v \in Workers : v # u /\ wpc'[v] = "run" /\ call[v] = call[u]
                               => Claimed(v)' \cap Claimed(u)' = {}
      <3>1. wpc[u] = "run"
        BY <2>1
      <3>2. \A v \in Workers : v # u /\ wpc[v] = "run" /\ call[v] = call[u]
                                 => Claimed(v) \cap Claimed(u) = {}
        BY <3>1 DEF WorkAccounting, ClaimAccounting
      <3> QED BY <2>1, <3>2
    <2>3. CASE u = w
      <3>1. Claimed(w)' \cap ran'[c] = {}
        BY <1>5, <1>7, <1>9, <2>3
      <3>2. arg[c].begin <= idx'[w] /\ idx'[w] < lim[w]
        BY <1>5, <1>6, <1>9, <2>3
      <3> QED BY <1>5, <2>2, <2>3, <3>1, <3>2 DEF c
    <2>4. CASE u # w
      <3>1. /\ wpc[u] = "run" /\ call[u] \in Callers /\ idx'[u] = idx[u] /\ Claimed(u)' = Claimed(u)
            /\ arg[call[u]].begin <= idx[u] /\ idx[u] < lim[u]
            /\ lim[u] <= cursor[call[u]] /\ lim[u] <= arg[call[u]].end
            /\ Claimed(u) \cap ran[call[u]] = {}
        BY <1>4, <1>7, <2>4 DEF WorkAccounting, ClaimAccounting, InTask
      <3>2. Claimed(u) \cap ran'[call[u]] = {}
        <4>1. CASE call[u] = c
          BY <1>5, <1>6, <1>7, <2>4, <3>1, <4>1
        <4>2. CASE call[u] # c
          BY <1>7, <3>1, <4>2
        <4> QED BY <4>1, <4>2
      <3> QED BY <2>2, <3>1, <3>2
    <2> QED BY <2>3, <2>4
  <1>11. CatchAccounting'
    <2> SUFFICES ASSUME NEW u \in Workers, wpc'[u] = "catch" PROVE idx'[u] \in thrown'[call[u]]
      BY <1>1, <1>3 DEF CatchAccounting
    <2>1. CASE u = w
      BY <1>8, <2>1 DEF c
    <2>2. CASE u # w
      <3>1. wpc[u] = "catch" /\ call[u] \in Callers /\ idx[u] \in thrown[call[u]]
        BY <1>4, <1>7, <2>2 DEF WorkAccounting, CatchAccounting, InTask
      <3> QED BY <1>7, <2>2, <3>1
    <2> QED BY <2>1, <2>2
  <1>12. TaskEndAccounting'
    <2>1. \A u \in Workers : wpc'[u] \in Leaving => wpc[u] \in Leaving
      BY <1>7, <1>8 DEF Leaving
    <2> QED BY <1>1, <1>3, <2>1 DEF WorkAccounting, TaskEndAccounting, HasException, Leaving
  <1>13. IndexAccounting'
    <2> SUFFICES ASSUME NEW d \in Callers, cpc[d] \in Inside
                 PROVE  /\ ran'[d] \subseteq {j \in Indexes(arg[d]) : j < cursor[d]}
                        /\ arg[d].begin <= cursor[d]
                        /\ HasException(d) => \E j \in thrown'[d] : first_exception[d] = {j}
                        /\ thrown'[d] = {} =>
                             \A j \in Unrun(d)' :
                               \E u \in Workers : wpc'[u] = "run" /\ call[u] = d /\ j \in Claimed(u)'
                        /\ thrown'[d] # {} =>
                             \/ HasException(d)
                             \/ \E u \in Workers : wpc'[u] = "catch" /\ call[u] = d
                        /\ cpc[d] = "inline" => thrown'[d] = {}
      BY <1>1, <1>3 DEF IndexAccounting, HasException, Indexes
    <2>1. /\ ran[d] \subseteq {j \in Indexes(arg[d]) : j < cursor[d]}
          /\ arg[d].begin <= cursor[d]
          /\ HasException(d) => \E j \in thrown[d] : first_exception[d] = {j}
          /\ thrown[d] = {} =>
               \A j \in Unrun(d) :
                 \E u \in Workers : wpc[u] = "run" /\ call[u] = d /\ j \in Claimed(u)
          /\ thrown[d] # {} =>
               \/ HasException(d)
               \/ \E u \in Workers : wpc[u] = "catch" /\ call[u] = d
          /\ cpc[d] = "inline" => thrown[d] = {}
      BY DEF WorkAccounting, IndexAccounting
    <2>2. \A u \in Workers : wpc[u] = "catch" => wpc'[u] = "catch"
      BY <1>1, <1>7
    <2>3. \A u \in Workers : wpc[u] = "run" /\ u # w => wpc'[u] = "run" /\ Claimed(u)' = Claimed(u)
      BY <1>7
    <2>4. CASE d = c
      <3>1. ran'[c] \subseteq {j \in Indexes(arg[c]) : j < cursor[c]}
        BY <1>5, <1>6, <1>7, <2>1, <2>4 DEF Indexes
      <3>2. HasException(c) => \E j \in thrown'[c] : first_exception[c] = {j}
        BY <1>7, <2>1, <2>4
      <3>3. thrown'[c] # {} => \/ HasException(c)
                               \/ \E u \in Workers : wpc'[u] = "catch" /\ call[u] = c
        BY <1>8, <2>1, <2>2, <2>4 DEF c
      <3>4. cpc[c] # "inline"
        BY <1>2 DEF Dispatched
      <3>5. ASSUME thrown'[d] = {}, NEW j \in Unrun(d)'
            PROVE  \E u \in Workers : wpc'[u] = "run" /\ call[u] = d /\ j \in Claimed(u)'
        <4>1. j \in Unrun(d) /\ j # i /\ j \in Nat /\ thrown[d] = {}
          BY <1>1, <1>6, <1>7, <2>4, <3>5 DEF Unrun, Indexes
        <4>2. PICK u \in Workers : wpc[u] = "run" /\ call[u] = d /\ j \in Claimed(u)
          BY <2>1, <4>1
        <4>3. CASE u = w
          <5>1. /\ i < j /\ j < lim[w]
            BY <1>6, <4>1, <4>2, <4>3 DEF Claimed, i
          <5>2. idx'[w] = i + 1 /\ wpc'[w] = "run"
            <6>1. thrown'[c] # thrown[c] \cup {i}
              BY <2>4, <3>5
            <6>2. i + 1 < lim[w]
              BY <1>6, <4>1, <5>1
            <6> QED BY <1>8, <6>1, <6>2
          <5>3. j \in Claimed(w)'
            BY <1>1, <1>6, <4>1, <5>1, <5>2 DEF Claimed
          <5> QED BY <4>2, <4>3, <5>2, <5>3
        <4>4. CASE u # w
          BY <2>3, <4>2, <4>4
        <4> QED BY <4>3, <4>4
      <3> QED BY <2>1, <2>4, <3>1, <3>2, <3>3, <3>4, <3>5
    <2>5. CASE d # c
      <3>1. Unrun(d)' = Unrun(d) /\ ran'[d] = ran[d] /\ thrown'[d] = thrown[d]
        BY <1>1, <1>7, <2>5 DEF Unrun
      <3>2. \A u \in Workers : call[u] = d => u # w
        BY <2>5 DEF c
      <3> QED BY <2>1, <2>2, <2>3, <3>1, <3>2
    <2> QED BY <2>4, <2>5
  <1> QED BY <1>10, <1>11, <1>12, <1>13 DEF WorkAccounting

\* The catch block stores an exception that was thrown, and only the first one.
LEMMA CatchWork ==
    ASSUME TypeOK, TaskAccounting, WorkAccounting, [Next]_vars, NEW w \in Workers, CatchException(w)
    PROVE  WorkAccounting'
  <1> DEFINE c == call[w]
  <1>1. /\ wpc[w] = "catch"
        /\ first_exception' = [first_exception EXCEPT ![c] = IF @ = {} THEN {idx[w]} ELSE @]
        /\ wpc' = [wpc EXCEPT ![w] = "lock"]
        /\ UNCHANGED <<call, idx, lim, cpc, arg, cursor, ran, thrown, finished>>
    BY DEF CatchException, history
  <1>2. c \in Callers /\ cpc[c] \in Dispatched
    BY <1>1, BusyWorker DEF InTask
  <1>3. Workers' = Workers
    BY PoolSizeFixed
  <1>4. /\ wpc \in [Workers -> WorkerPlaces]
        /\ first_exception \in [Callers -> SUBSET Nat]
        /\ \A v \in Workers : wpc[v] \in InTask => call[v] \in Callers
    BY DEF TypeOK, WorkerType, CallerType
  <1>5. idx[w] \in thrown[c]
    BY <1>1 DEF WorkAccounting, CatchAccounting
  <1>6. /\ wpc'[w] = "lock" /\ \A v \in Workers : v # w => wpc'[v] = wpc[v]
        /\ first_exception'[c] # {}
        /\ first_exception'[c] = first_exception[c] \/ first_exception'[c] = {idx[w]}
        /\ first_exception[c] # {} => first_exception'[c] = first_exception[c]
        /\ \A d \in Callers : d # c => first_exception'[d] = first_exception[d]
    BY <1>1, <1>2, <1>4
  <1> HIDE DEF c
  <1>7. ClaimAccounting' /\ CatchAccounting'
    <2>1. \A v \in Workers : wpc'[v] \in {"run", "catch"} => wpc[v] = wpc'[v]
      BY <1>6
    <2>2. ClaimAccounting'
      BY <1>1, <1>3, <2>1 DEF WorkAccounting, ClaimAccounting, Claimed
    <2>3. CatchAccounting'
      BY <1>1, <1>3, <2>1 DEF WorkAccounting, CatchAccounting
    <2> QED BY <2>2, <2>3
  <1>8. TaskEndAccounting'
    <2>1. ASSUME NEW u \in Workers, wpc'[u] \in Leaving
          PROVE  HasException(call[u])' \/ cursor[call[u]] >= arg[call[u]].end
      <3>1. CASE call[u] = c
        BY <1>1, <1>6, <3>1 DEF HasException
      <3>2. CASE call[u] # c
        <4>1. wpc[u] \in Leaving /\ call[u] \in Callers
          BY <1>4, <1>6, <2>1, <3>2 DEF Leaving, InTask, c
        <4>2. HasException(call[u]) \/ cursor[call[u]] >= arg[call[u]].end
          BY <4>1 DEF WorkAccounting, TaskEndAccounting, Leaving
        <4> QED BY <1>1, <1>6, <3>2, <4>1, <4>2 DEF HasException
      <3> QED BY <3>1, <3>2
    <2>2. ASSUME NEW d \in Callers, finished[d] # {}, cpc[d] \in Dispatched \cup {"rethrow"}
          PROVE  HasException(d)' \/ cursor[d] >= arg[d].end
      BY <1>6, <2>2 DEF WorkAccounting, TaskEndAccounting, HasException
    <2> QED BY <1>1, <1>3, <2>1, <2>2 DEF TaskEndAccounting, HasException, Leaving
  <1>9. IndexAccounting'
    <2> SUFFICES ASSUME NEW d \in Callers, cpc[d] \in Inside
                 PROVE  /\ ran[d] \subseteq {j \in Indexes(arg[d]) : j < cursor[d]}
                        /\ arg[d].begin <= cursor[d]
                        /\ HasException(d)' => \E j \in thrown[d] : first_exception'[d] = {j}
                        /\ thrown[d] = {} =>
                             \A j \in Unrun(d) :
                               \E u \in Workers : wpc'[u] = "run" /\ call[u] = d /\ j \in Claimed(u)
                        /\ thrown[d] # {} =>
                             \/ HasException(d)'
                             \/ \E u \in Workers : wpc'[u] = "catch" /\ call[u] = d
                        /\ cpc[d] = "inline" => thrown[d] = {}
      BY <1>1, <1>3 DEF IndexAccounting, HasException, Indexes, Unrun, Claimed
    <2>1. /\ ran[d] \subseteq {j \in Indexes(arg[d]) : j < cursor[d]}
          /\ arg[d].begin <= cursor[d]
          /\ HasException(d) => \E j \in thrown[d] : first_exception[d] = {j}
          /\ thrown[d] = {} =>
               \A j \in Unrun(d) :
                 \E u \in Workers : wpc[u] = "run" /\ call[u] = d /\ j \in Claimed(u)
          /\ thrown[d] # {} =>
               \/ HasException(d)
               \/ \E u \in Workers : wpc[u] = "catch" /\ call[u] = d
          /\ cpc[d] = "inline" => thrown[d] = {}
      BY DEF WorkAccounting, IndexAccounting
    <2>2. \A u \in Workers : wpc[u] = "run" => wpc'[u] = "run"
      BY <1>1, <1>6
    <2>3. CASE d = c
      <3>1. HasException(d)' /\ thrown[d] # {}
        BY <1>5, <1>6, <2>3 DEF HasException
      <3>2. \E j \in thrown[d] : first_exception'[d] = {j}
        BY <1>5, <1>6, <2>1, <2>3 DEF HasException
      <3> QED BY <2>1, <3>1, <3>2
    <2>4. CASE d # c
      <3>1. HasException(d)' <=> HasException(d)
        BY <1>6, <2>4 DEF HasException
      <3>2. \A u \in Workers : wpc[u] = "catch" /\ call[u] = d => wpc'[u] = "catch"
        BY <1>6, <2>4 DEF c
      <3> QED BY <1>6, <2>1, <2>2, <2>4, <3>1, <3>2
    <2> QED BY <2>3, <2>4
  <1> QED BY <1>7, <1>8, <1>9 DEF WorkAccounting

\* A counted task has ended for a reason.
LEMMA CountWork ==
    ASSUME TypeOK, TaskAccounting, WorkAccounting, [Next]_vars, NEW w \in Workers, CountDone(w)
    PROVE  WorkAccounting'
  <1> DEFINE c == call[w]
  <1>1. /\ wpc[w] = "count"
        /\ finished' = [finished EXCEPT ![c] = @ \cup {num[w]}]
        /\ cpc' = [cpc EXCEPT ![c] = IF done_count[c] + 1 = n_tasks[c] /\ @ = "asleep"
                                     THEN "check" ELSE @]
        /\ wpc' = [wpc EXCEPT ![w] = "unlock"]
        /\ UNCHANGED <<call, idx, lim, arg, cursor, first_exception, ran, thrown>>
    BY DEF CountDone
  <1>2. c \in Callers /\ cpc[c] \in Dispatched
    BY <1>1, BusyWorker DEF InTask
  <1>3. Workers' = Workers
    BY PoolSizeFixed
  <1>4. /\ wpc \in [Workers -> WorkerPlaces] /\ cpc \in [Callers -> CallerPlaces]
        /\ finished \in [Callers -> SUBSET Nat]
    BY DEF TypeOK, WorkerType, CallerType, HistoryType
  <1>5. /\ wpc'[w] = "unlock" /\ \A v \in Workers : v # w => wpc'[v] = wpc[v]
        /\ cpc'[c] \in Dispatched
        /\ \A d \in Callers : d # c => cpc'[d] = cpc[d] /\ finished'[d] = finished[d]
    BY <1>1, <1>2, <1>4 DEF Dispatched
  <1>6. HasException(c) \/ cursor[c] >= arg[c].end
    BY <1>1 DEF WorkAccounting, TaskEndAccounting
  <1> HIDE DEF c
  <1>7. \A d \in Callers : cpc'[d] \in Inside => cpc[d] \in Inside /\ (cpc'[d] = "inline" => cpc[d] = "inline")
    BY <1>2, <1>5 DEF Inside, Dispatched
  <1>8. \A v \in Workers : wpc'[v] \in {"run", "catch"} <=> wpc[v] \in {"run", "catch"}
    BY <1>1, <1>5
  <1>9. \A v \in Workers : wpc[v] \in {"run", "catch"} => wpc'[v] = wpc[v]
    BY <1>1, <1>5
  <1>10. ClaimAccounting' /\ CatchAccounting'
    BY <1>1, <1>3, <1>8, <1>9 DEF WorkAccounting, ClaimAccounting, CatchAccounting, Claimed
  <1>11. IndexAccounting'
    <2> SUFFICES ASSUME NEW d \in Callers, cpc'[d] \in Inside
                 PROVE  /\ ran[d] \subseteq {j \in Indexes(arg[d]) : j < cursor[d]}
                        /\ arg[d].begin <= cursor[d]
                        /\ HasException(d) => \E j \in thrown[d] : first_exception[d] = {j}
                        /\ thrown[d] = {} =>
                             \A j \in Unrun(d) :
                               \E u \in Workers : wpc'[u] = "run" /\ call[u] = d /\ j \in Claimed(u)
                        /\ thrown[d] # {} =>
                             \/ HasException(d)
                             \/ \E u \in Workers : wpc'[u] = "catch" /\ call[u] = d
                        /\ cpc'[d] = "inline" => thrown[d] = {}
      BY <1>1, <1>3 DEF IndexAccounting, HasException, Indexes, Unrun, Claimed
    <2>1. \A u \in Workers : /\ wpc[u] = "run" => wpc'[u] = "run"
                             /\ wpc[u] = "catch" => wpc'[u] = "catch"
      BY <1>9
    <2> QED BY <1>7, <2>1 DEF WorkAccounting, IndexAccounting
  <1>12. TaskEndAccounting'
    <2>1. ASSUME NEW u \in Workers, wpc'[u] \in Leaving
          PROVE  HasException(call[u]) \/ cursor[call[u]] >= arg[call[u]].end
      BY <1>1, <1>5, <2>1 DEF WorkAccounting, TaskEndAccounting, Leaving
    <2>2. ASSUME NEW d \in Callers, finished'[d] # {}, cpc'[d] \in Dispatched \cup {"rethrow"}
          PROVE  HasException(d) \/ cursor[d] >= arg[d].end
      BY <1>5, <1>6, <2>2 DEF WorkAccounting, TaskEndAccounting
    <2> QED BY <1>1, <1>3, <2>1, <2>2 DEF TaskEndAccounting, HasException, Leaving
  <1> QED BY <1>10, <1>11, <1>12 DEF WorkAccounting

\* WorkAccounting is inductive, given the types and TaskAccounting.
LEMMA WorkAccountingStep ==
    ASSUME TypeOK, TaskAccounting, WorkAccounting, [Next]_vars
    PROVE  WorkAccounting'
  <1> USE DEF poolVars, workerVars, callerVars, frame, history
  <1>t. /\ Workers' = Workers
        /\ wpc \in [Workers -> WorkerPlaces] /\ cpc \in [Callers -> CallerPlaces]
        /\ call \in [Workers -> Callers \cup {NoCall}]
    BY PoolSizeFixed DEF TypeOK, WorkerType, CallerType
  <1>1. CASE SpawnWorker
    <2>1. PICK w \in Workers : wpc[w] = "unborn" /\ wpc' = [wpc EXCEPT ![w] = "check"]
      BY <1>1 DEF SpawnWorker
    <2>2. UNCHANGED <<call, cpc, idx, lim, arg, cursor, first_exception, ran, thrown, finished>>
      BY <1>1 DEF SpawnWorker
    <2> QED BY <1>t, <2>1, <2>2, SameWork DEF Leaving
  <1>2. CASE CtorDone \/ SpawnFails \/ Destroy \/ JoinWorkers \/ Ended \/ UNCHANGED vars
    <2>1. UNCHANGED <<wpc, call, cpc, idx, lim, arg, cursor, first_exception, ran, thrown, finished>>
      BY <1>2 DEF CtorDone, SpawnFails, Destroy, JoinWorkers, Ended, vars
    <2> QED BY <1>t, <2>1, SameWork
  <1>3. CASE NotifyStop
    <2>1. UNCHANGED <<call, cpc, idx, lim, arg, cursor, first_exception, ran, thrown, finished>>
      BY <1>3 DEF NotifyStop
    <2>2. \A v \in Workers : wpc'[v] = IF wpc[v] = "asleep" THEN "check" ELSE wpc[v]
      BY <1>3 DEF NotifyStop, WakeWorkers
    <2> QED BY <1>t, <2>1, <2>2, SameWork DEF Leaving
  <1>4. ASSUME NEW c \in Callers, Call(c) \/ CallerNext(c) \/ SpuriousCallerWake(c)
        PROVE  WorkAccounting'
    <2>1. CASE Call(c)
      BY <2>1, CallWork
    <2>2. CASE RunInline(c)
      BY <2>2, InlineWork
    <2>3. CASE ReturnInline(c) \/ Return(c)
      <3>1. cpc' = [cpc EXCEPT ![c] = "idle"]
        BY <2>3 DEF ReturnInline, Return
      <3>2. UNCHANGED <<wpc, call, idx, lim, arg, cursor, first_exception, ran, thrown, finished>>
        BY <2>3 DEF ReturnInline, Return
      <3> QED BY <1>t, <3>1, <3>2, SameWork DEF Inside, Dispatched
    <2>4. CASE Dispatch(c)
      <3>1. /\ cpc[c] = "dispatch" /\ cpc' = [cpc EXCEPT ![c] = "notify"]
            /\ UNCHANGED <<wpc, call, idx, lim, arg, cursor, first_exception, ran, thrown, finished>>
        BY <2>4 DEF Dispatch
      <3>2. finished[c] = {}
        BY <3>1 DEF TaskAccounting, CallAccounting
      <3> QED BY <1>t, <3>1, <3>2, SameWork DEF Inside, Dispatched
    <2>5. CASE NotifyWork(c)
      <3>1. /\ cpc[c] = "notify" /\ cpc' = [cpc EXCEPT ![c] = "check"]
            /\ \A v \in Workers : wpc'[v] = IF wpc[v] = "asleep" THEN "check" ELSE wpc[v]
            /\ UNCHANGED <<call, idx, lim, arg, cursor, first_exception, ran, thrown, finished>>
        BY <2>5 DEF NotifyWork, WakeWorkers
      <3>2. \A d \in Callers : /\ cpc'[d] \in Inside => cpc[d] \in Inside
                               /\ cpc'[d] = "inline" => cpc[d] = "inline"
                               /\ cpc'[d] \in Dispatched \cup {"rethrow"}
                                    => cpc[d] \in Dispatched \cup {"rethrow"}
        BY <1>t, <3>1 DEF Inside, Dispatched
      <3> QED BY <1>t, <3>1, <3>2, SameWork DEF Leaving
    <2>6. CASE CheckDone(c) \/ SpuriousCallerWake(c)
      <3>1. /\ cpc[c] \in {"check", "asleep"}
            /\ \E p \in {"check", "asleep", "rethrow"} : cpc' = [cpc EXCEPT ![c] = p]
            /\ UNCHANGED <<wpc, call, idx, lim, arg, cursor, first_exception, ran, thrown, finished>>
        BY <2>6 DEF CheckDone, SpuriousCallerWake
      <3> QED BY <1>t, <3>1, SameWork DEF Inside, Dispatched
    <2> QED BY <1>4, <2>1, <2>2, <2>3, <2>4, <2>5, <2>6 DEF CallerNext
  <1>5. ASSUME NEW w \in Workers, WorkerNext(w) \/ SpuriousWorkerWake(w)
        PROVE  WorkAccounting'
    <2>1. CASE Claim(w)
      BY <2>1, ClaimWork
    <2>2. CASE RunFn(w)
      BY <2>2, RunWork
    <2>3. CASE CatchException(w)
      BY <2>3, CatchWork
    <2>4. CASE CountDone(w)
      BY <2>4, CountWork
    <2>5. CASE WorkerExit(w) \/ WorkerSleep(w) \/ SpuriousWorkerWake(w)
      <3>1. /\ wpc[w] \in {"check", "asleep"}
            /\ \E p \in {"exited", "asleep", "check"} : wpc' = [wpc EXCEPT ![w] = p]
            /\ UNCHANGED <<call, cpc, idx, lim, arg, cursor, first_exception, ran, thrown, finished>>
        BY <2>5 DEF WorkerExit, WorkerSleep, SpuriousWorkerWake
      <3> QED BY <1>t, <3>1, SameWork DEF Leaving
    <2>6. CASE WorkerPop(w) \/ UnlockDone(w)
      <3>1. /\ wpc[w] \in {"check", "unlock"}
            /\ \E p \in {"test", "check"} : wpc' = [wpc EXCEPT ![w] = p]
            /\ UNCHANGED <<cpc, idx, lim, arg, cursor, first_exception, ran, thrown, finished>>
            /\ \A v \in Workers : v # w => call'[v] = call[v]
        <4>1. CASE WorkerPop(w)
          BY <1>t, <4>1 DEF WorkerPop
        <4>2. CASE UnlockDone(w)
          BY <1>t, <4>2 DEF UnlockDone
        <4> QED BY <2>6, <4>1, <4>2
      <3>2. \A v \in Workers : v # w => wpc'[v] = wpc[v]
        BY <1>t, <3>1
      <3>3. wpc'[w] \in {"test", "check"}
        BY <1>t, <3>1
      <3> QED BY <1>t, <3>1, <3>2, <3>3, SameWork DEF Leaving
    <2>7. CASE LockDone(w)
      <3>1. /\ wpc[w] = "lock" /\ wpc' = [wpc EXCEPT ![w] = "count"]
            /\ UNCHANGED <<call, cpc, idx, lim, arg, cursor, first_exception, ran, thrown, finished>>
        BY <2>7 DEF LockDone
      <3> QED BY <1>t, <3>1, SameWork DEF Leaving
    <2>8. CASE TestException(w)
      <3>1. /\ wpc[w] = "test"
            /\ wpc' = [wpc EXCEPT ![w] = IF HasException(call[w]) THEN "lock" ELSE "claim"]
            /\ UNCHANGED <<call, cpc, idx, lim, arg, cursor, first_exception, ran, thrown, finished>>
        BY <2>8 DEF TestException
      <3>2. /\ wpc'[w] = IF HasException(call[w]) THEN "lock" ELSE "claim"
            /\ \A v \in Workers : v # w => wpc'[v] = wpc[v]
        BY <1>t, <3>1
      <3>3. ClaimAccounting' /\ CatchAccounting'
        BY <1>t, <3>1, <3>2 DEF WorkAccounting, ClaimAccounting, CatchAccounting, Claimed
      <3>4. IndexAccounting'
        <4>1. \A v \in Workers : /\ wpc[v] = "run" => wpc'[v] = "run"
                                 /\ wpc[v] = "catch" => wpc'[v] = "catch"
          BY <3>1, <3>2
        <4> QED BY <1>t, <3>1, <4>1 DEF WorkAccounting, IndexAccounting, HasException, Unrun, Claimed
      <3>5. TaskEndAccounting'
        <4>1. \A v \in Workers : wpc'[v] \in Leaving => wpc[v] \in Leaving \/ HasException(call[v])
          BY <3>2 DEF Leaving
        <4> QED BY <1>t, <3>1, <4>1 DEF WorkAccounting, TaskEndAccounting, HasException, Leaving
      <3> QED BY <3>3, <3>4, <3>5 DEF WorkAccounting
    <2> QED BY <1>5, <2>1, <2>2, <2>3, <2>4, <2>5, <2>6, <2>7, <2>8 DEF WorkerNext
  <1> QED
    BY <1>1, <1>2, <1>3, <1>4, <1>5 DEF Next, OwnerNext

\* Whatever the interleaving of callers and workers, every index of a call has
\* been run, is claimed by exactly one worker, lies ahead of the cursor, or is
\* given up for a stored exception; and every task is counted exactly once.
THEOREM IndexesAccounted == Spec => []Accounting
  <1>1. Init => WorkAccounting
    BY DEF Init, WorkAccounting, ClaimAccounting, IndexAccounting, CatchAccounting,
           TaskEndAccounting, Inside, Dispatched
  <1>2. TypeOK /\ TaskAccounting /\ WorkAccounting /\ [Next]_vars => WorkAccounting'
    BY WorkAccountingStep
  <1>3. TaskAccounting /\ WorkAccounting => Accounting
    BY DEF Accounting
  <1> QED
    BY <1>1, <1>2, <1>3, Typing, TasksAccounted, PTL DEF Spec
-------------------------------------------------------------------------------
(***************************************************************************)
(* The refinement.  The abstract state is arg, ran, thrown and outcome as  *)
(* they are; a call is active while its caller is inside parallel_for.     *)
(* Calls, runs of fn and returns are abstract steps, everything else (the  *)
(* queue, the locks, the condition variables, the claims) is a stutter.    *)
(***************************************************************************)
Active == [c \in Callers |-> cpc[c] # "idle"]

\* A step that leaves the abstract variables alone.
LEMMA Stutter ==
    ASSUME UNCHANGED <<arg, ran, thrown, outcome>>,
           \A c \in Callers : cpc'[c] = "idle" <=> cpc[c] = "idle"
    PROVE  UNCHANGED Abs!absVars
  <1>1. Active' = Active
    BY DEF Active
  <1> QED BY <1>1 DEF Abs!absVars, Active

\* One caller starts or ends a call.
LEMMA ActiveMoves ==
    ASSUME NEW c \in Callers, NEW p, cpc \in [Callers -> CallerPlaces],
           cpc' = [cpc EXCEPT ![c] = p]
    PROVE  Active' = [Active EXCEPT ![c] = p # "idle"]
  BY DEF Active

\* Entry: an empty range ends the call at once, as in the abstract one.
LEMMA CallRefines ==
    ASSUME TypeOK, NEW c \in Callers, Call(c)
    PROVE  Abs!AbsNext
  <1>1. PICK r \in Ranges :
          /\ arg' = [arg EXCEPT ![c] = r]
          /\ cpc' = [cpc EXCEPT ![c] = IF r.end <= r.begin THEN "idle"
                                       ELSE IF n_ = 0 THEN "inline" ELSE "dispatch"]
          /\ outcome' = [outcome EXCEPT ![c] =
               [kind |-> IF r.end <= r.begin THEN "ok" ELSE "none", at |-> {}]]
    BY DEF Call
  <1>2. /\ cpc[c] = "idle"
        /\ ran' = [ran EXCEPT ![c] = {}] /\ thrown' = [thrown EXCEPT ![c] = {}]
    BY DEF Call
  <1>3. r.begin \in Nat /\ r.end \in Nat
    OBVIOUS
  <1>4. Abs!Indexes(r) = {} <=> r.end <= r.begin
    <2>1. ~(r.end <= r.begin) => r.begin \in r.begin .. (r.end - 1)
      BY <1>3
    <2> QED BY <1>3, <2>1 DEF Abs!Indexes
  <1>5. Active' = [Active EXCEPT ![c] = Abs!Indexes(r) # {}]
    <2>1. cpc \in [Callers -> CallerPlaces]
      BY DEF TypeOK, CallerType
    <2>2. CASE r.end <= r.begin
      BY <1>1, <1>4, <2>1, <2>2, ActiveMoves
    <2>3. CASE ~(r.end <= r.begin)
      <3>1. PICK p \in {"inline", "dispatch"} : cpc' = [cpc EXCEPT ![c] = p]
        BY <1>1, <2>3
      <3> QED BY <1>4, <2>1, <2>3, <3>1, ActiveMoves
    <2> QED BY <2>2, <2>3
  <1>6. outcome' = [outcome EXCEPT ![c] =
          [kind |-> IF Abs!Indexes(r) = {} THEN "ok" ELSE "none", at |-> {}]]
    BY <1>1, <1>4
  <1>7. Abs!AbsCall(c, r)
    BY <1>1, <1>2, <1>5, <1>6 DEF Abs!AbsCall, Active
  <1> QED BY <1>7 DEF Abs!AbsNext

\* The inline loop runs an index for the first time; an exception ends the call
\* in the same step.
LEMMA InlineRefines ==
    ASSUME TypeOK, WorkAccounting, NEW c \in Callers, RunInline(c)
    PROVE  Abs!AbsNext
  <1>0. PICK i : i = cursor[c]
    OBVIOUS
  <1>1. /\ cpc[c] = "inline" /\ i < arg[c].end
        /\ ran' = [ran EXCEPT ![c] = @ \cup {i}]
        /\ arg' = arg
        /\ \/ UNCHANGED <<cpc, thrown, outcome>>
           \/ /\ thrown' = [thrown EXCEPT ![c] = @ \cup {i}]
              /\ cpc' = [cpc EXCEPT ![c] = "idle"]
              /\ outcome' = [outcome EXCEPT ![c] = [kind |-> "threw", at |-> {i}]]
    BY <1>0 DEF RunInline
  <1>2. /\ cpc \in [Callers -> CallerPlaces] /\ i \in Nat
        /\ arg[c].begin \in Nat /\ arg[c].end \in Nat
    BY <1>0 DEF TypeOK, CallerType
  <1>3. /\ ran[c] \subseteq {j \in Indexes(arg[c]) : j < i}
        /\ arg[c].begin <= i
    BY <1>0, <1>1 DEF WorkAccounting, IndexAccounting, Inside
  <1>4. i \in Abs!Indexes(arg[c]) \ ran[c] /\ i \in Abs!Indexes(arg[c])
    BY <1>1, <1>2, <1>3 DEF Indexes, Abs!Indexes
  <1>5. Active[c]
    BY <1>1 DEF Active
  <1>6. CASE UNCHANGED <<cpc, thrown, outcome>>
    <2>1. Active' = Active
      BY <1>6 DEF Active
    <2>2. Abs!AbsRun(c, i)
      BY <1>1, <1>4, <1>5, <1>6, <2>1 DEF Abs!AbsRun, Active
    <2> QED BY <1>4, <2>2 DEF Abs!AbsNext
  <1>7. CASE /\ thrown' = [thrown EXCEPT ![c] = @ \cup {i}]
             /\ cpc' = [cpc EXCEPT ![c] = "idle"]
             /\ outcome' = [outcome EXCEPT ![c] = [kind |-> "threw", at |-> {i}]]
    <2>1. Active' = [Active EXCEPT ![c] = FALSE]
      BY <1>2, <1>7, ActiveMoves
    <2>2. Abs!AbsRunAndThrow(c, i)
      BY <1>1, <1>4, <1>5, <1>7, <2>1 DEF Abs!AbsRunAndThrow, Active
    <2> QED BY <1>4, <2>2 DEF Abs!AbsNext
  <1> QED BY <1>1, <1>6, <1>7

\* A caller that leaves with no exception has run the whole range: nothing is
\* left below the cursor, and the cursor has passed the end.
LEMMA AllRun ==
    ASSUME TypeOK, TaskAccounting, WorkAccounting, NEW c \in Callers,
           cpc[c] \in {"inline", "rethrow"}, thrown[c] = {}, cursor[c] >= arg[c].end
    PROVE  ran[c] = Indexes(arg[c])
  <1>1. \A w \in Workers : wpc[w] \in InTask => call[w] # c
    BY QuietCaller DEF Dispatched
  <1>2. ran[c] \subseteq Indexes(arg[c])
    BY DEF WorkAccounting, IndexAccounting, Inside
  <1>3. Unrun(c) = {}
    BY <1>1 DEF WorkAccounting, IndexAccounting, Inside, InTask
  <1>4. cursor[c] \in Nat /\ arg[c].begin \in Nat /\ arg[c].end \in Nat
    BY DEF TypeOK, CallerType
  <1>5. \A i \in Indexes(arg[c]) : i < cursor[c]
    BY <1>4 DEF Indexes
  <1> QED BY <1>2, <1>3, <1>5 DEF Unrun

\* The end of the inline loop.
LEMMA ReturnInlineRefines ==
    ASSUME TypeOK, TaskAccounting, WorkAccounting, NEW c \in Callers, ReturnInline(c)
    PROVE  Abs!AbsNext
  <1>1. /\ cpc[c] = "inline" /\ cursor[c] >= arg[c].end
        /\ cpc' = [cpc EXCEPT ![c] = "idle"]
        /\ outcome' = [outcome EXCEPT ![c] = [kind |-> "ok", at |-> {}]]
        /\ UNCHANGED <<arg, ran, thrown>>
    BY DEF ReturnInline
  <1>2. thrown[c] = {}
    BY <1>1 DEF WorkAccounting, IndexAccounting, Inside
  <1>3. ran[c] = Abs!Indexes(arg[c])
    BY <1>1, <1>2, AllRun DEF Indexes, Abs!Indexes
  <1>4. Active' = [Active EXCEPT ![c] = FALSE] /\ Active[c]
    BY <1>1, ActiveMoves DEF TypeOK, CallerType, Active
  <1>5. Abs!AbsReturn(c)
    BY <1>1, <1>2, <1>3, <1>4 DEF Abs!AbsReturn, Active
  <1> QED BY <1>5 DEF Abs!AbsNext

\* The end of a dispatched call: an exception that was stored is one that fn
\* threw, and without one every index has been run.
LEMMA ReturnRefines ==
    ASSUME TypeOK, TaskAccounting, WorkAccounting, NEW c \in Callers, Return(c)
    PROVE  Abs!AbsNext
  <1>1. /\ cpc[c] = "rethrow"
        /\ cpc' = [cpc EXCEPT ![c] = "idle"]
        /\ outcome' = [outcome EXCEPT ![c] =
             [kind |-> IF HasException(c) THEN "threw" ELSE "ok", at |-> first_exception[c]]]
        /\ UNCHANGED <<arg, ran, thrown>>
    BY DEF Return
  <1>2. Active' = [Active EXCEPT ![c] = FALSE] /\ Active[c]
    BY <1>1, ActiveMoves DEF TypeOK, CallerType, Active
  <1>3. CASE HasException(c)
    <2>1. PICK i \in thrown[c] : first_exception[c] = {i}
      BY <1>1, <1>3 DEF WorkAccounting, IndexAccounting, Inside
    <2>2. outcome' = [outcome EXCEPT ![c] = [kind |-> "threw", at |-> {i}]]
      BY <1>1, <1>3, <2>1
    <2>3. Abs!AbsThrow(c)
      BY <1>1, <1>2, <2>2 DEF Abs!AbsThrow, Active
    <2> QED BY <2>3 DEF Abs!AbsNext
  <1>4. CASE ~HasException(c)
    <2>1. \A w \in Workers : wpc[w] \in InTask => call[w] # c
      BY <1>1, QuietCaller DEF Dispatched
    <2>2. thrown[c] = {}
      BY <1>1, <1>4, <2>1 DEF WorkAccounting, IndexAccounting, Inside, InTask
    <2>3. finished[c] # {}
      <3>1. finished[c] = 1..n_tasks[c] /\ n_tasks[c] > 0 /\ n_tasks[c] \in Nat
        BY <1>1 DEF TaskAccounting, CallAccounting, TypeOK, CallerType
      <3>2. 1 \in 1..n_tasks[c]
        BY <3>1
      <3> QED BY <3>1, <3>2
    <2>4. cursor[c] >= arg[c].end
      BY <1>1, <1>4, <2>3 DEF WorkAccounting, TaskEndAccounting
    <2>5. ran[c] = Abs!Indexes(arg[c])
      BY <1>1, <2>2, <2>4, AllRun DEF Indexes, Abs!Indexes
    <2>6. outcome' = [outcome EXCEPT ![c] = [kind |-> "ok", at |-> {}]]
      BY <1>1, <1>4 DEF HasException
    <2>7. Abs!AbsReturn(c)
      BY <1>1, <1>2, <2>2, <2>5, <2>6 DEF Abs!AbsReturn, Active
    <2> QED BY <2>7 DEF Abs!AbsNext
  <1> QED BY <1>3, <1>4

\* A worker runs fn at an index for the first time, while its caller waits.
LEMMA RunRefines ==
    ASSUME TypeOK, TaskAccounting, WorkAccounting, NEW w \in Workers, RunFn(w)
    PROVE  Abs!AbsNext
  <1> DEFINE c == call[w]
             i == idx[w]
  <1>1. /\ wpc[w] = "run"
        /\ ran' = [ran EXCEPT ![c] = @ \cup {i}]
        /\ thrown' = thrown \/ thrown' = [thrown EXCEPT ![c] = @ \cup {i}]
        /\ UNCHANGED <<cpc, arg, outcome>>
    BY DEF RunFn, callerVars
  <1>2. c \in Callers /\ cpc[c] \in Dispatched
    BY <1>1, BusyWorker DEF InTask
  <1>3. /\ i \in Nat /\ lim[w] \in Nat /\ arg[c].begin \in Nat /\ arg[c].end \in Nat
    BY <1>2 DEF TypeOK, WorkerType, CallerType
  <1>4. /\ arg[c].begin <= i /\ i < lim[w] /\ lim[w] <= arg[c].end
        /\ Claimed(w) \cap ran[c] = {}
    BY <1>1 DEF WorkAccounting, ClaimAccounting
  <1>5. i \in Abs!Indexes(arg[c]) \ ran[c] /\ i \in Abs!Indexes(arg[c])
    BY <1>3, <1>4 DEF Claimed, Abs!Indexes
  <1>6. Active' = Active /\ Active[c]
    BY <1>1, <1>2 DEF Active, Dispatched
  <1> HIDE DEF c, i
  <1>7. Abs!AbsRun(c, i)
    BY <1>1, <1>5, <1>6 DEF Abs!AbsRun, Active
  <1> QED BY <1>2, <1>5, <1>7 DEF Abs!AbsNext

\* CGThreadPool implements the abstract parallel_for, whatever the number of
\* workers, the concurrent callers, the ranges and the chunk sizes are: each
\* index is given to fn at most once, a normal return means that all of them
\* were run and none threw, and an exception seen by the caller is one that fn
\* threw in this call.
THEOREM PoolImplementsParallelFor == Spec => AbsSpec
  <1>1. Init => Abs!AbsInit
    <2> SUFFICES ASSUME Init PROVE Abs!AbsInit
      OBVIOUS
    <2>1. (CHOOSE r \in Ranges : TRUE) \in Ranges
      OBVIOUS
    <2>2. arg \in [Callers -> Ranges]
      BY <2>1 DEF Init
    <2>3. [c \in Callers |-> cpc[c] # "idle"] = [c \in Callers |-> FALSE]
      BY DEF Init
    <2> QED BY <2>2, <2>3 DEF Init, Abs!AbsInit
  <1>2. TypeOK /\ TaskAccounting /\ WorkAccounting /\ [Next]_vars => [Abs!AbsNext]_(Abs!absVars)
    <2> SUFFICES ASSUME TypeOK, TaskAccounting, WorkAccounting, [Next]_vars
                 PROVE  Abs!AbsNext \/ UNCHANGED Abs!absVars
      OBVIOUS
    <2>t. cpc \in [Callers -> CallerPlaces]
      BY DEF TypeOK, CallerType
    <2>1. CASE OwnerNext \/ SpawnFails \/ Destroy \/ Ended \/ UNCHANGED vars
      <3>1. UNCHANGED <<arg, ran, thrown, outcome, cpc>>
        BY <2>1 DEF OwnerNext, SpawnWorker, CtorDone, NotifyStop, JoinWorkers, SpawnFails,
                    Destroy, Ended, vars, callerVars, history
      <3> QED BY <3>1, Stutter
    <2>2. ASSUME NEW c \in Callers, Call(c) \/ CallerNext(c) \/ SpuriousCallerWake(c)
          PROVE  Abs!AbsNext \/ UNCHANGED Abs!absVars
      <3>1. CASE Dispatch(c) \/ NotifyWork(c) \/ CheckDone(c) \/ SpuriousCallerWake(c)
        <4>1. /\ UNCHANGED <<arg, ran, thrown, outcome>> /\ cpc[c] # "idle"
              /\ \E p \in {"notify", "check", "rethrow", "asleep"} : cpc' = [cpc EXCEPT ![c] = p]
          BY <3>1 DEF Dispatch, NotifyWork, CheckDone, SpuriousCallerWake, history
        <4> QED BY <2>t, <4>1, Stutter
      <3> QED BY <2>2, <3>1, CallRefines, InlineRefines, ReturnInlineRefines, ReturnRefines
              DEF CallerNext
    <2>3. ASSUME NEW w \in Workers, WorkerNext(w) \/ SpuriousWorkerWake(w)
          PROVE  Abs!AbsNext \/ UNCHANGED Abs!absVars
      <3>1. CASE RunFn(w)
        BY <3>1, RunRefines
      <3>2. CASE CountDone(w)
        <4>1. /\ UNCHANGED <<arg, ran, thrown, outcome>>
              /\ cpc' = [cpc EXCEPT ![call[w]] =
                   IF done_count[call[w]] + 1 = n_tasks[call[w]] /\ @ = "asleep" THEN "check" ELSE @]
          BY <3>2 DEF CountDone
        <4>2. \A c \in Callers : cpc'[c] = "idle" <=> cpc[c] = "idle"
          BY <2>t, <4>1
        <4> QED BY <4>1, <4>2, Stutter
      <3>3. CASE ~RunFn(w) /\ ~CountDone(w)
        <4>1. UNCHANGED <<arg, ran, thrown, outcome, cpc>>
          BY <2>3, <3>3 DEF WorkerNext, WorkerExit, WorkerSleep, WorkerPop, TestException, Claim,
               CatchException, LockDone, UnlockDone, SpuriousWorkerWake, callerVars, history
        <4> QED BY <4>1, Stutter
      <3> QED BY <3>1, <3>2, <3>3
    <2> QED BY <2>1, <2>2, <2>3 DEF Next
  <1>3. Accounting => TaskAccounting /\ WorkAccounting
    BY DEF Accounting
  <1> QED
    BY <1>1, <1>2, <1>3, Typing, IndexesAccounted, PTL DEF Spec, AbsSpec, Abs!AbsSpec
==============================================================================
