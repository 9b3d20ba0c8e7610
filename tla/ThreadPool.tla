------------------------------ MODULE ThreadPool ------------------------------
(***************************************************************************)
(* CGThreadPool of cg_thread_pool.hpp: worker threads that sleep on        *)
(* cv_work_ until tasks_ holds a task or stop_ is set, callers that run    *)
(* parallel_for, and the thread that constructs and destroys the pool.     *)
(*                                                                         *)
(* A critical section of mu_ is one action: tasks_ and stop_ are accessed  *)
(* nowhere else.  done_mu lives in the caller's stack frame and is         *)
(* modelled as a lock with a holder, because a task that still touches the *)
(* frame after parallel_for has returned is the hazard of this design.     *)
(* A thread blocked in a condition variable is "asleep": it proceeds only  *)
(* after a notification (or spuriously) and then tests its predicate again.*)
(***************************************************************************)
EXTENDS Integers, Sequences, FiniteSets

CONSTANTS Callers,     \* threads that call parallel_for on this pool
          PoolSizes,   \* the values of n_ to consider
          Ranges,      \* the argument records [begin, end, chunk]
          MaxCalls,    \* bound: parallel_for calls made by each caller
          NoCall       \* not a caller: the worker runs no task

ASSUME CallersAssumption == NoCall \notin Callers
ASSUME PoolSizesAssumption == PoolSizes \subseteq 0..256
ASSUME RangesAssumption ==
    /\ Ranges # {}
    /\ Ranges \subseteq [begin : Nat, end : Nat, chunk : Nat]
ASSUME MaxCallsAssumption == MaxCalls \in Nat

VARIABLES
    n_,        \* number of worker threads
    stop_,     \* the destructor, or a failing constructor, asks workers to exit
    tasks_,    \* the task queue: a task is <<caller, number>>
    owner,     \* progress of the constructor and the destructor
    wpc,       \* wpc[w]: where worker w is
    call,      \* call[w]: the caller whose task w runs, or NoCall
    num,       \* num[w]: the number of that task
    idx,       \* idx[w]: the index i that w gives to fn next
    lim,       \* lim[w]: `stop`, the end of the chunk w has claimed
    scheme,    \* workers whose thread_local CG_Scheme exists
    cpc,       \* cpc[c]: where caller c is in parallel_for
    arg,       \* arg[c]: begin, end and chunk_size of the latest call
    cursor,    \* cursor[c]: the next index to claim     (the locals of parallel_for
    done_count,\* done_count[c]: tasks that have ended    that the tasks share)
    done_mu,   \* done_mu[c]: the worker that holds it, 0 when it is free
    first_exception, \* first_exception[c]: {} or {the index that threw it}
    n_tasks,   \* n_tasks[c]: the number of tasks
    calls,     \* calls[c]: number of calls made (bounded by MaxCalls)
    ran,       \* history: indexes fn was run at in the latest call
    thrown,    \* history: indexes at which fn threw
    finished,  \* history: the numbers of the tasks counted in done_count
    outcome    \* how the latest call ended

poolVars   == <<n_, stop_, tasks_, owner>>
workerVars == <<wpc, call, num, idx, lim, scheme>>
frame      == <<cursor, done_count, done_mu, first_exception, n_tasks>>
callerVars == <<cpc, arg, frame, calls>>
history    == <<ran, thrown, finished, outcome>>
vars == <<poolVars, workerVars, callerVars, history>>

Workers == 1..n_

WorkerPlaces == {"unborn", "check", "asleep", "test", "claim", "run", "catch",
                 "lock", "count", "unlock", "exited"}
CallerPlaces == {"idle", "inline", "dispatch", "notify", "check", "asleep",
                 "rethrow"}
OwnerPlaces  == {"ctor", "up", "notify", "join", "gone"}

\* The places at which a worker executes a task, that is, touches the frame.
InTask == {"test", "claim", "run", "catch", "lock", "count", "unlock"}

\* The task has not been added to done_count yet.
Uncounted == InTask \ {"unlock"}

\* The half-open range of a call.
Indexes(r) == r.begin .. (r.end - 1)

SmallerOf(a, b) == IF a <= b THEN a ELSE b

\* The chunk of a claim: parallel_for replaces a chunk_size of 0 by 1.
Chunk(c) == IF arg[c].chunk = 0 THEN 1 ELSE arg[c].chunk

\* min(n_, ceil(total / chunk_size))
TaskCount(total, chunk) == SmallerOf(n_, (total + chunk - 1) \div chunk)

\* has_exception is stored together with first_exception, under exception_mu.
HasException(c) == first_exception[c] # {}

Init ==
    /\ n_ \in PoolSizes
    /\ stop_ = FALSE
    /\ tasks_ = <<>>
    /\ owner = "ctor"
    /\ wpc = [w \in Workers |-> "unborn"]
    /\ call = [w \in Workers |-> NoCall]
    /\ num = [w \in Workers |-> 0]
    /\ idx = [w \in Workers |-> 0]
    /\ lim = [w \in Workers |-> 0]
    /\ scheme = {}
    /\ cpc = [c \in Callers |-> "idle"]
    /\ arg = [c \in Callers |-> CHOOSE r \in Ranges : TRUE]
    /\ cursor = [c \in Callers |-> 0]
    /\ done_count = [c \in Callers |-> 0]
    /\ done_mu = [c \in Callers |-> 0]
    /\ first_exception = [c \in Callers |-> {}]
    /\ n_tasks = [c \in Callers |-> 0]
    /\ calls = [c \in Callers |-> 0]
    /\ ran = [c \in Callers |-> {}]
    /\ thrown = [c \in Callers |-> {}]
    /\ finished = [c \in Callers |-> {}]
    /\ outcome = [c \in Callers |-> [kind |-> "none", at |-> {}]]

(***************************************************************************)
(* Construction and destruction.                                           *)
(***************************************************************************)
\* workers_.emplace_back: the next worker starts in worker_loop.
SpawnWorker ==
    /\ owner = "ctor"
    /\ \E w \in Workers :
         /\ wpc[w] = "unborn"
         /\ \A v \in Workers : wpc[v] = "unborn" => w <= v
         /\ wpc' = [wpc EXCEPT ![w] = "check"]
    /\ UNCHANGED <<poolVars, call, num, idx, lim, scheme, callerVars, history>>

CtorDone ==
    /\ owner = "ctor"
    /\ \A w \in Workers : wpc[w] # "unborn"
    /\ owner' = "up"
    /\ UNCHANGED <<n_, stop_, tasks_, workerVars, callerVars, history>>

\* Thread creation throws: the constructor stops the workers it has created.
SpawnFails ==
    /\ owner = "ctor"
    /\ \E w \in Workers : wpc[w] = "unborn"
    /\ stop_' = TRUE
    /\ owner' = "notify"
    /\ UNCHANGED <<n_, tasks_, workerVars, callerVars, history>>

\* ~CGThreadPool: nobody is inside parallel_for when the pool is destroyed.
Destroy ==
    /\ owner = "up"
    /\ \A c \in Callers : cpc[c] = "idle"
    /\ stop_' = TRUE
    /\ owner' = "notify"
    /\ UNCHANGED <<n_, tasks_, workerVars, callerVars, history>>

\* cv_work_.notify_all()
WakeWorkers == wpc' = [w \in Workers |-> IF wpc[w] = "asleep" THEN "check" ELSE wpc[w]]

\* stop_ is set, but the sleeping workers are not told.
NotifyStop_Lost ==
    /\ owner = "notify"
    /\ owner' = "join"
    /\ UNCHANGED <<n_, stop_, tasks_, workerVars, callerVars, history>>

NotifyStop ==
    /\ owner = "notify"
    /\ owner' = "join"
    /\ WakeWorkers
    /\ UNCHANGED <<n_, stop_, tasks_, call, num, idx, lim, scheme,
                   callerVars, history>>

JoinWorkers ==
    /\ owner = "join"
    /\ \A w \in Workers : wpc[w] \in {"unborn", "exited"}
    /\ owner' = "gone"
    /\ UNCHANGED <<n_, stop_, tasks_, workerVars, callerVars, history>>

(***************************************************************************)
(* parallel_for, on the caller's side.                                     *)
(***************************************************************************)
\* Entry: an empty range returns at once, a pool without workers runs inline.
Call(c) ==
    /\ owner = "up"
    /\ cpc[c] = "idle"
    /\ calls[c] < MaxCalls
    /\ \E r \in Ranges :
         LET chunk == IF r.chunk = 0 THEN 1 ELSE r.chunk
             empty == r.end <= r.begin
         IN  /\ arg' = [arg EXCEPT ![c] = r]
             /\ cpc' = [cpc EXCEPT ![c] = IF empty THEN "idle"
                                          ELSE IF n_ = 0 THEN "inline"
                                          ELSE "dispatch"]
             /\ cursor' = [cursor EXCEPT ![c] = r.begin]
             /\ n_tasks' = [n_tasks EXCEPT ![c] =
                  IF empty THEN 0 ELSE TaskCount(r.end - r.begin, chunk)]
             /\ outcome' = [outcome EXCEPT ![c] =
                  [kind |-> IF empty THEN "ok" ELSE "none", at |-> {}]]
    /\ done_count' = [done_count EXCEPT ![c] = 0]
    /\ done_mu' = [done_mu EXCEPT ![c] = 0]
    /\ first_exception' = [first_exception EXCEPT ![c] = {}]
    /\ calls' = [calls EXCEPT ![c] = @ + 1]
    /\ ran' = [ran EXCEPT ![c] = {}]
    /\ thrown' = [thrown EXCEPT ![c] = {}]
    /\ finished' = [finished EXCEPT ![c] = {}]
    /\ UNCHANGED <<poolVars, workerVars>>

\* n_ = 0: the loop runs on the calling thread, an exception leaves it directly.
RunInline(c) ==
    LET i == cursor[c] IN
    /\ cpc[c] = "inline"
    /\ i < arg[c].end
    /\ ran' = [ran EXCEPT ![c] = @ \cup {i}]
    /\ \/ /\ cursor' = [cursor EXCEPT ![c] = i + 1]
          /\ UNCHANGED <<cpc, thrown, outcome>>
       \/ /\ thrown' = [thrown EXCEPT ![c] = @ \cup {i}]
          /\ cpc' = [cpc EXCEPT ![c] = "idle"]
          /\ outcome' = [outcome EXCEPT ![c] = [kind |-> "threw", at |-> {i}]]
          /\ UNCHANGED cursor
    /\ UNCHANGED <<poolVars, workerVars, arg, calls, finished,
                   done_count, done_mu, first_exception, n_tasks>>

ReturnInline(c) ==
    /\ cpc[c] = "inline"
    /\ cursor[c] >= arg[c].end
    /\ cpc' = [cpc EXCEPT ![c] = "idle"]
    /\ outcome' = [outcome EXCEPT ![c] = [kind |-> "ok", at |-> {}]]
    /\ UNCHANGED <<poolVars, workerVars, arg, frame, calls, ran, thrown, finished>>

\* Push n_tasks copies of the task, under mu_.
Dispatch(c) ==
    /\ cpc[c] = "dispatch"
    /\ tasks_' = tasks_ \o [k \in 1..n_tasks[c] |-> <<c, k>>]
    /\ cpc' = [cpc EXCEPT ![c] = "notify"]
    /\ UNCHANGED <<n_, stop_, owner, workerVars, arg, frame, calls, history>>

\* A notification that wakes nobody (a notify left out by mistake).
NotifyWork_Lost(c) ==
    /\ cpc[c] = "notify"
    /\ cpc' = [cpc EXCEPT ![c] = "check"]
    /\ UNCHANGED <<poolVars, workerVars, arg, frame, calls, history>>

NotifyWork(c) ==
    /\ cpc[c] = "notify"
    /\ WakeWorkers
    /\ cpc' = [cpc EXCEPT ![c] = "check"]
    /\ UNCHANGED <<poolVars, call, num, idx, lim, scheme, arg, frame, calls, history>>

\* Under done_mu: leave the wait when every task has been counted, else sleep.
CheckDone(c) ==
    /\ cpc[c] = "check"
    /\ done_mu[c] = 0
    /\ cpc' = [cpc EXCEPT ![c] = IF done_count[c] = n_tasks[c]
                                 THEN "rethrow" ELSE "asleep"]
    /\ UNCHANGED <<poolVars, workerVars, arg, frame, calls, history>>

\* The exception is not looked at after the wait.
Return_DropException(c) ==
    /\ cpc[c] = "rethrow"
    /\ cpc' = [cpc EXCEPT ![c] = "idle"]
    /\ outcome' = [outcome EXCEPT ![c] = [kind |-> "ok", at |-> {}]]
    /\ UNCHANGED <<poolVars, workerVars, arg, frame, calls, ran, thrown, finished>>

\* Rethrow the stored exception or return: the stack frame is gone afterwards.
Return(c) ==
    /\ cpc[c] = "rethrow"
    /\ cpc' = [cpc EXCEPT ![c] = "idle"]
    /\ outcome' = [outcome EXCEPT ![c] =
         [kind |-> IF HasException(c) THEN "threw" ELSE "ok",
          at |-> first_exception[c]]]
    /\ UNCHANGED <<poolVars, workerVars, arg, frame, calls, ran, thrown, finished>>

(***************************************************************************)
(* Workers.                                                                *)
(***************************************************************************)
WorkerExit(w) ==
    /\ wpc[w] = "check"
    /\ stop_ /\ tasks_ = <<>>
    /\ wpc' = [wpc EXCEPT ![w] = "exited"]
    /\ UNCHANGED <<poolVars, call, num, idx, lim, scheme, callerVars, history>>

WorkerSleep(w) ==
    /\ wpc[w] = "check"
    /\ ~stop_ /\ tasks_ = <<>>
    /\ wpc' = [wpc EXCEPT ![w] = "asleep"]
    /\ UNCHANGED <<poolVars, call, num, idx, lim, scheme, callerVars, history>>

\* The queue is popped before its front is read.
WorkerPop_PopFirst(w) ==
    /\ wpc[w] = "check"
    /\ tasks_ # <<>>
    /\ call' = [call EXCEPT ![w] = IF Len(tasks_) > 1 THEN tasks_[2][1] ELSE NoCall]
    /\ num' = [num EXCEPT ![w] = IF Len(tasks_) > 1 THEN tasks_[2][2] ELSE 0]
    /\ tasks_' = Tail(tasks_)
    /\ wpc' = [wpc EXCEPT ![w] = "test"]
    /\ UNCHANGED <<n_, stop_, owner, idx, lim, scheme, callerVars, history>>

WorkerPop(w) ==
    /\ wpc[w] = "check"
    /\ tasks_ # <<>>
    /\ call' = [call EXCEPT ![w] = Head(tasks_)[1]]
    /\ num' = [num EXCEPT ![w] = Head(tasks_)[2]]
    /\ tasks_' = Tail(tasks_)
    /\ wpc' = [wpc EXCEPT ![w] = "test"]
    /\ UNCHANGED <<n_, stop_, owner, idx, lim, scheme, callerVars, history>>

\* Top of the loop: an exception stored by any task ends this one.
TestException(w) ==
    /\ wpc[w] = "test"
    /\ wpc' = [wpc EXCEPT ![w] = IF HasException(call[w]) THEN "lock" ELSE "claim"]
    /\ UNCHANGED <<poolVars, call, num, idx, lim, scheme, callerVars, history>>

\* The claim reads the cursor but does not advance it in the same step.
Claim_NotAtomic(w) ==
    LET c == call[w]
        base == cursor[c]
    IN
    /\ wpc[w] = "claim"
    /\ idx' = [idx EXCEPT ![w] = base]
    /\ lim' = [lim EXCEPT ![w] = SmallerOf(base + Chunk(c), arg[c].end)]
    /\ wpc' = [wpc EXCEPT ![w] = IF base >= arg[c].end THEN "lock" ELSE "run"]
    /\ \/ cursor' = [cursor EXCEPT ![c] = base + Chunk(c)]
       \/ UNCHANGED cursor
    /\ UNCHANGED <<poolVars, call, num, scheme, cpc, arg, calls,
                   done_count, done_mu, first_exception, n_tasks, history>>

\* cursor.fetch_add(chunk_size)
Claim(w) ==
    LET c == call[w]
        base == cursor[c]
    IN
    /\ wpc[w] = "claim"
    /\ cursor' = [cursor EXCEPT ![c] = base + Chunk(c)]
    /\ \/ /\ base >= arg[c].end
          /\ wpc' = [wpc EXCEPT ![w] = "lock"]
          /\ UNCHANGED <<idx, lim>>
       \/ /\ base < arg[c].end
          /\ wpc' = [wpc EXCEPT ![w] = "run"]
          /\ idx' = [idx EXCEPT ![w] = base]
          /\ lim' = [lim EXCEPT ![w] = SmallerOf(base + Chunk(c), arg[c].end)]
    /\ UNCHANGED <<poolVars, call, num, scheme, cpc, arg, calls,
                   done_count, done_mu, first_exception, n_tasks, history>>

\* fn(i), which builds the worker's thread_local scheme on first use; it may throw.
RunFn(w) ==
    LET c == call[w]
        i == idx[w]
    IN
    /\ wpc[w] = "run"
    /\ scheme' = scheme \cup {w}
    /\ ran' = [ran EXCEPT ![c] = @ \cup {i}]
    /\ \/ /\ idx' = [idx EXCEPT ![w] = i + 1]
          /\ wpc' = [wpc EXCEPT ![w] = IF i + 1 < lim[w] THEN "run" ELSE "test"]
          /\ UNCHANGED thrown
       \/ /\ thrown' = [thrown EXCEPT ![c] = @ \cup {i}]
          /\ wpc' = [wpc EXCEPT ![w] = "catch"]
          /\ UNCHANGED idx
    /\ UNCHANGED <<poolVars, call, num, lim, callerVars, finished, outcome>>

\* The catch block, under exception_mu: only the first exception is kept.
CatchException(w) ==
    LET c == call[w] IN
    /\ wpc[w] = "catch"
    /\ first_exception' = [first_exception EXCEPT ![c] = IF @ = {} THEN {idx[w]} ELSE @]
    /\ wpc' = [wpc EXCEPT ![w] = "lock"]
    /\ UNCHANGED <<poolVars, call, num, idx, lim, scheme, cpc, arg, calls,
                   cursor, done_count, done_mu, n_tasks, history>>

\* done_mu is not taken: the count and the notification are not protected by it.
LockDone_NoLock(w) ==
    /\ wpc[w] = "lock"
    /\ wpc' = [wpc EXCEPT ![w] = "count"]
    /\ UNCHANGED <<poolVars, call, num, idx, lim, scheme, callerVars, history>>

LockDone(w) ==
    LET c == call[w] IN
    /\ wpc[w] = "lock"
    /\ done_mu[c] = 0
    /\ done_mu' = [done_mu EXCEPT ![c] = w]
    /\ wpc' = [wpc EXCEPT ![w] = "count"]
    /\ UNCHANGED <<poolVars, call, num, idx, lim, scheme, cpc, arg, calls,
                   cursor, done_count, first_exception, n_tasks, history>>

\* Increment done_count and, for the last task, done_cv.notify_one().
CountDone(w) ==
    LET c == call[w]
        count == done_count[c] + 1
    IN
    /\ wpc[w] = "count"
    /\ done_count' = [done_count EXCEPT ![c] = count]
    /\ finished' = [finished EXCEPT ![c] = @ \cup {num[w]}]
    /\ cpc' = [cpc EXCEPT ![c] = IF count = n_tasks[c] /\ @ = "asleep"
                                 THEN "check" ELSE @]
    /\ wpc' = [wpc EXCEPT ![w] = "unlock"]
    /\ UNCHANGED <<poolVars, call, num, idx, lim, scheme, arg, calls,
                   cursor, done_mu, first_exception, n_tasks, ran, thrown, outcome>>

\* Release done_mu, the task's last access to the caller's frame.
UnlockDone(w) ==
    LET c == call[w] IN
    /\ wpc[w] = "unlock"
    /\ done_mu' = [done_mu EXCEPT ![c] = 0]
    /\ call' = [call EXCEPT ![w] = NoCall]
    /\ wpc' = [wpc EXCEPT ![w] = "check"]
    /\ UNCHANGED <<poolVars, num, idx, lim, scheme, cpc, arg, calls,
                   cursor, done_count, first_exception, n_tasks, history>>

(***************************************************************************)
(* Condition variables may wake a thread without a notification.           *)
(***************************************************************************)
SpuriousWorkerWake(w) ==
    /\ wpc[w] = "asleep"
    /\ wpc' = [wpc EXCEPT ![w] = "check"]
    /\ UNCHANGED <<poolVars, call, num, idx, lim, scheme, callerVars, history>>

SpuriousCallerWake(c) ==
    /\ cpc[c] = "asleep"
    /\ cpc' = [cpc EXCEPT ![c] = "check"]
    /\ UNCHANGED <<poolVars, workerVars, arg, frame, calls, history>>

\* The process may end, or keep the pool for ever, once the pool is destroyed.
Ended ==
    /\ owner = "gone"
    /\ UNCHANGED vars

OwnerNext == SpawnWorker \/ CtorDone \/ NotifyStop \/ JoinWorkers

CallerNext(c) ==
    \/ RunInline(c) \/ ReturnInline(c)
    \/ Dispatch(c) \/ NotifyWork(c) \/ CheckDone(c) \/ Return(c)

WorkerNext(w) ==
    \/ WorkerExit(w) \/ WorkerSleep(w) \/ WorkerPop(w)
    \/ TestException(w) \/ Claim(w) \/ RunFn(w) \/ CatchException(w)
    \/ LockDone(w) \/ CountDone(w) \/ UnlockDone(w)

Next ==
    \/ OwnerNext \/ SpawnFails \/ Destroy \/ Ended
    \/ \E c \in Callers : Call(c) \/ CallerNext(c) \/ SpuriousCallerWake(c)
    \/ \E w \in Workers : WorkerNext(w) \/ SpuriousWorkerWake(w)

Spec == Init /\ [][Next]_vars

\* Every started thread that can run eventually runs; nobody is obliged to
\* make a call or to destroy the pool.
Fairness ==
    /\ WF_vars(OwnerNext)
    /\ \A c \in Callers : WF_vars(CallerNext(c))
    /\ \A w \in UNION {1..n : n \in PoolSizes} :
         WF_vars(w \in Workers /\ WorkerNext(w))

FairSpec == Spec /\ Fairness

------------------------------------------------------------------------------
PoolType ==
    /\ n_ \in PoolSizes
    /\ stop_ \in BOOLEAN
    /\ tasks_ \in Seq(Callers \X Nat)
    /\ owner \in OwnerPlaces

WorkerType ==
    /\ wpc \in [Workers -> WorkerPlaces]
    /\ call \in [Workers -> Callers \cup {NoCall}]
    /\ num \in [Workers -> Nat]
    /\ idx \in [Workers -> Nat]
    /\ lim \in [Workers -> Nat]
    /\ scheme \subseteq Workers
    \* a worker inside a task knows whose frame it works on
    /\ \A w \in Workers : wpc[w] \in InTask => call[w] \in Callers

CallerType ==
    /\ cpc \in [Callers -> CallerPlaces]
    /\ arg \in [Callers -> Ranges]
    /\ cursor \in [Callers -> Nat]
    /\ done_count \in [Callers -> Nat]
    /\ done_mu \in [Callers -> {0} \cup Workers]
    /\ first_exception \in [Callers -> SUBSET Nat]
    /\ n_tasks \in [Callers -> Nat]
    /\ calls \in [Callers -> 0..MaxCalls]

HistoryType ==
    /\ ran \in [Callers -> SUBSET Nat]
    /\ thrown \in [Callers -> SUBSET Nat]
    /\ finished \in [Callers -> SUBSET Nat]
    /\ outcome \in [Callers -> [kind : {"none", "ok", "threw"}, at : SUBSET Nat]]

\* Type invariant.
TypeOK == PoolType /\ WorkerType /\ CallerType /\ HistoryType

(***************************************************************************)
(* Lifetime of the frame.                                                  *)
(***************************************************************************)
\* Places of a caller whose tasks may be queued or running.
Dispatched == {"notify", "check", "asleep"}

\* The tasks of a call are queued, run and counted exactly once each, and
\* done_mu is held exactly by the worker between its lock and its unlock.
QueueAccounting ==
    \A j \in DOMAIN tasks_ :
        LET c == tasks_[j][1] IN
        /\ cpc[c] \in Dispatched
        /\ tasks_[j][2] \in (1..n_tasks[c]) \ finished[c]
        /\ \A i \in DOMAIN tasks_ : i # j => tasks_[i] # tasks_[j]

WorkerAccounting ==
    \A w \in Workers : wpc[w] \in InTask =>
        LET c == call[w] IN
        /\ cpc[c] \in Dispatched
        /\ wpc[w] \in {"count", "unlock"} => done_mu[c] = w
        /\ wpc[w] \in Uncounted =>
             /\ num[w] \in (1..n_tasks[c]) \ finished[c]
             /\ \A j \in DOMAIN tasks_ : tasks_[j] # <<c, num[w]>>
             /\ \A v \in Workers : v # w /\ wpc[v] \in Uncounted /\ call[v] = c
                                    => num[v] # num[w]

CallAccounting ==
    \A c \in Callers :
        /\ finished[c] \subseteq 1..n_tasks[c]
        /\ done_count[c] = Cardinality(finished[c])
        /\ cpc[c] = "dispatch" => finished[c] = {}
        /\ cpc[c] = "rethrow" => finished[c] = 1..n_tasks[c]
        /\ cpc[c] \in Dispatched \cup {"dispatch", "rethrow"} => n_tasks[c] > 0

TaskAccounting == QueueAccounting /\ WorkerAccounting /\ CallAccounting

\* No task is queued or running for a call that has returned: a task never
\* reads or writes a dead stack frame, not even to unlock done_mu after the
\* count that releases the caller.
NoDanglingFrame ==
    /\ \A w \in Workers : wpc[w] \in InTask => cpc[call[w]] \in Dispatched
    /\ \A j \in DOMAIN tasks_ : cpc[tasks_[j][1]] \in Dispatched

(***************************************************************************)
(* Indexes.                                                                *)
(***************************************************************************)
Claimed(w) == idx[w] .. (lim[w] - 1)

\* What the workers have claimed and not run yet is disjoint from what has
\* been run and from each other's claims, and lies below the cursor.
ClaimAccounting ==
    \A w \in Workers : wpc[w] = "run" =>
        LET c == call[w] IN
        /\ arg[c].begin <= idx[w] /\ idx[w] < lim[w]
        /\ lim[w] <= cursor[c] /\ lim[w] <= arg[c].end
        /\ Claimed(w) \cap ran[c] = {}
        /\ \A v \in Workers : v # w /\ wpc[v] = "run" /\ call[v] = c
                               => Claimed(v) \cap Claimed(w) = {}

\* Every index below the cursor has been run or is claimed, unless fn threw.
Unrun(c) == {i \in Indexes(arg[c]) : i < cursor[c]} \ ran[c]

\* Places of a caller inside parallel_for.
Inside == Dispatched \cup {"dispatch", "rethrow", "inline"}

IndexAccounting ==
    \A c \in Callers : cpc[c] \in Inside =>
        /\ ran[c] \subseteq {i \in Indexes(arg[c]) : i < cursor[c]}
        /\ arg[c].begin <= cursor[c]
        /\ HasException(c) => \E i \in thrown[c] : first_exception[c] = {i}
        /\ thrown[c] = {} =>
             \A i \in Unrun(c) :
                 \E w \in Workers : wpc[w] = "run" /\ call[w] = c /\ i \in Claimed(w)
        /\ thrown[c] # {} =>
             \/ HasException(c)
             \/ \E w \in Workers : wpc[w] = "catch" /\ call[w] = c
        /\ cpc[c] = "inline" => thrown[c] = {}

\* A worker that is in "catch" has thrown at its index.
CatchAccounting ==
    \A w \in Workers : wpc[w] = "catch" => idx[w] \in thrown[call[w]]

\* A task ends only because the range is used up or an exception is stored.
TaskEndAccounting ==
    /\ \A w \in Workers : wpc[w] \in {"lock", "count", "unlock"} =>
         HasException(call[w]) \/ cursor[call[w]] >= arg[call[w]].end
    /\ \A c \in Callers : finished[c] # {} /\ cpc[c] \in Dispatched \cup {"rethrow"} =>
         HasException(c) \/ cursor[c] >= arg[c].end

\* What becomes of the indexes of a call.
WorkAccounting == ClaimAccounting /\ IndexAccounting /\ CatchAccounting /\ TaskEndAccounting

\* Every task of a call is counted once, and every index of its range has been
\* run, is claimed by one worker, lies ahead of the cursor, or is given up for an
\* exception that the caller will see: the inductive invariant behind the
\* theorems of ThreadPoolProofs.
Accounting == TaskAccounting /\ WorkAccounting

\* The pool implements the abstract parallel_for: each index at most once,
\* normal return only after all of them, exceptions never lost or invented.
Abs == INSTANCE ParallelFor WITH active <- [c \in Callers |-> cpc[c] # "idle"]
AbsSpec == Abs!AbsSpec

(***************************************************************************)
(* Liveness.                                                               *)
(***************************************************************************)
\* Every call of parallel_for returns: no wakeup is lost between the workers'
\* cv_work_, the caller's done_cv and the queue shared by concurrent callers.
CallTerminates == \A c \in Callers : cpc[c] # "idle" ~> cpc[c] = "idle"

\* Destruction, and a constructor that fails half way, join every worker that
\* was started.
ShutdownCompletes == stop_ ~> owner = "gone"

(***************************************************************************)
(* prewarm_pool: "Force all workers to initialise their thread_local       *)
(* CG_Scheme before the online stream starts".                             *)
(***************************************************************************)
\* Once a parallel_for over [0, num_threads()) has returned, every worker has
\* built its scheme.
PrewarmReachesAllWorkers ==
    \A c \in Callers :
        (cpc[c] = "idle" /\ outcome[c].kind = "ok" /\ Indexes(arg[c]) = 0..(n_ - 1))
            => scheme = Workers
==============================================================================
