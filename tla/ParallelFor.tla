----------------------------- MODULE ParallelFor -----------------------------
(***************************************************************************)
(* What CGThreadPool::parallel_for promises its callers, without threads:  *)
(* every index of [begin, end) is given to fn at most once; the call       *)
(* returns normally only when every index has been run and none threw; it  *)
(* throws only an exception that fn threw at one of the indexes.           *)
(***************************************************************************)
EXTENDS Integers

CONSTANTS Callers,   \* threads that call parallel_for
          Ranges     \* the argument records [begin, end, chunk]

VARIABLES active,    \* active[c]: c is inside parallel_for
          arg,       \* arg[c]: the arguments of c's latest call
          ran,       \* ran[c]: the indexes fn was run at, in the latest call
          thrown,    \* thrown[c]: the indexes fn threw at, in the latest call
          outcome    \* outcome[c]: "none" before the call ends, then its result

absVars == <<active, arg, ran, thrown, outcome>>

\* The indexes of a call's half-open range; empty when end <= begin.
Indexes(r) == r.begin .. (r.end - 1)

AbsInit ==
    /\ active = [c \in Callers |-> FALSE]
    /\ arg \in [Callers -> Ranges]
    /\ ran = [c \in Callers |-> {}]
    /\ thrown = [c \in Callers |-> {}]
    /\ outcome = [c \in Callers |-> [kind |-> "none", at |-> {}]]

\* A call over an empty range ends at once; any other call becomes active.
AbsCall(c, r) ==
    /\ ~active[c]
    /\ arg' = [arg EXCEPT ![c] = r]
    /\ ran' = [ran EXCEPT ![c] = {}]
    /\ thrown' = [thrown EXCEPT ![c] = {}]
    /\ active' = [active EXCEPT ![c] = Indexes(r) # {}]
    /\ outcome' = [outcome EXCEPT ![c] =
         [kind |-> IF Indexes(r) = {} THEN "ok" ELSE "none", at |-> {}]]

\* fn runs at one index that was not run before, and may throw.
AbsRun(c, i) ==
    /\ active[c]
    /\ i \in Indexes(arg[c]) \ ran[c]
    /\ ran' = [ran EXCEPT ![c] = @ \cup {i}]
    /\ \/ thrown' = thrown
       \/ thrown' = [thrown EXCEPT ![c] = @ \cup {i}]
    /\ UNCHANGED <<active, arg, outcome>>

\* fn throws and the call ends with that exception in the same step (the
\* exception leaves an inline loop directly).
AbsRunAndThrow(c, i) ==
    /\ active[c]
    /\ i \in Indexes(arg[c]) \ ran[c]
    /\ ran' = [ran EXCEPT ![c] = @ \cup {i}]
    /\ thrown' = [thrown EXCEPT ![c] = @ \cup {i}]
    /\ active' = [active EXCEPT ![c] = FALSE]
    /\ outcome' = [outcome EXCEPT ![c] = [kind |-> "threw", at |-> {i}]]
    /\ UNCHANGED arg

AbsReturn(c) ==
    /\ active[c]
    /\ thrown[c] = {}
    /\ ran[c] = Indexes(arg[c])
    /\ active' = [active EXCEPT ![c] = FALSE]
    /\ outcome' = [outcome EXCEPT ![c] = [kind |-> "ok", at |-> {}]]
    /\ UNCHANGED <<arg, ran, thrown>>

AbsThrow(c) ==
    /\ active[c]
    /\ \E i \in thrown[c] :
         outcome' = [outcome EXCEPT ![c] = [kind |-> "threw", at |-> {i}]]
    /\ active' = [active EXCEPT ![c] = FALSE]
    /\ UNCHANGED <<arg, ran, thrown>>

AbsNext ==
    \E c \in Callers :
        \/ \E r \in Ranges : AbsCall(c, r)
        \/ \E i \in Indexes(arg[c]) : AbsRun(c, i) \/ AbsRunAndThrow(c, i)
        \/ AbsReturn(c)
        \/ AbsThrow(c)

AbsSpec == AbsInit /\ [][AbsNext]_absVars
==============================================================================
