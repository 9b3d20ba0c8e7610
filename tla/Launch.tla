------------------------------- MODULE Launch -------------------------------
(***************************************************************************)
(* How a two-way RF-PSI comes up and goes down: the launch scripts of the  *)
(* two parties, run_rf_cg_psi2_lan_a.sh and run_rf_cg_psi2_lan_b.sh, with  *)
(* cg_wait_all of run_common.sh, and the eight programs they start, four   *)
(* for each of the two phases.  A program connects to its neighbour with   *)
(* connect_tcp_retry, then listens and accepts; a listener gives up after  *)
(* CG_IO_TIMEOUT_S, a connector after CG_CONNECT_RETRIES attempts.         *)
(*                                                                         *)
(* Time is discrete.  What needs no waiting takes no time: a tick passes   *)
(* only when no such step is possible.  The data of a phase cross the four *)
(* programs once in each direction, hop by hop; what they are and how they *)
(* share the lanes is in RfOle and RelayChain.  A program that has handed  *)
(* on both directions may take a while to end; nobody acknowledges what it *)
(* has sent.  Each phase has its own ports, so its programs meet only one  *)
(* another.                                                                *)
(***************************************************************************)
EXTENDS Naturals, FiniteSets

CONSTANTS
    IoTimeout,     \* CG_IO_TIMEOUT_S, in ticks
    Retries,       \* CG_CONNECT_RETRIES attempts 0.2 s apart, in ticks
    ReadyTimeout,  \* timeout_s of wait_for_log, in ticks
    ChildTimeout,  \* CG_CHILD_TIMEOUT_S of cg_wait_all, in ticks
    MaxDelay,      \* bound: ticks by which one party is started after the other
    MaxLag,        \* bound: ticks a program needs to end after it has handed on all
    MaxCrashes     \* bound: programs that die by themselves

ASSUME LaunchTimes ==
    /\ {IoTimeout, Retries, ReadyTimeout, ChildTimeout} \subseteq Nat \ {0}
    /\ {MaxDelay, MaxLag, MaxCrashes} \subseteq Nat

Hosts == {"A", "B"}
Phases == {1, 2}           \* one-way PSI, reveal-back
Roles == {"receiver", "rrf", "srf", "sender"}
Programs == Phases \X Roles
Host(j) == IF j[2] \in {"receiver", "rrf"} THEN "B" ELSE "A"

\* The neighbour j connects to, and the one it accepts: <<>> for none.
ConnectsTo(j) ==
    CASE j[2] = "sender" -> <<j[1], "srf">> [] j[2] = "srf" -> <<j[1], "rrf">>
      [] j[2] = "rrf" -> <<j[1], "receiver">> [] OTHER -> <<>>
\* Where j has its part of direction d from.  The first phase begins at the
\* receiver (keys and round 1, then round 2), the second at the sender (keys,
\* then the revealed slots).
Sources(j, d) ==
    IF j[1] = d THEN {n \in Programs : n = ConnectsTo(j)}
    ELSE {n \in Programs : j = ConnectsTo(n)}
Neighbours(j) == {n \in Programs : n = ConnectsTo(j) \/ j = ConnectsTo(n)}

\* The programs of a phase in the order in which their host starts them.
FirstOf(h, ph) == <<ph, IF h = "B" THEN "receiver" ELSE "srf">>
SecondOf(h, ph) == <<ph, IF h = "B" THEN "rrf" ELSE "sender">>

VARIABLES
    delay,      \* delay[h]: when h is started
    clock,      \* ticks so far, up to MaxDelay
    script,     \* script[h]: where the script of h is
    phase,      \* phase[h]: the phase it is in
    waited,     \* waited[h]: ticks since it began to wait (capped past both limits)
    place,      \* place[j]: where program j is
    timer,      \* timer[j]: ticks since it got there
    ready,      \* programs that have logged "listening on"
    passed,     \* passed[j]: directions whose data j has handed on, or taken at their end
    crashes     \* number of programs that have died by themselves

vars == <<delay, clock, script, phase, waited, place, timer, ready, passed, crashes>>

Running(j) == place[j] \in {"connect", "accept", "talk"}
Children(h) == {FirstOf(h, phase[h]), SecondOf(h, phase[h])}
Over(h) == script[h] \in {"ok", "failed"}

\* The phases whose data have reached everybody, in both directions.
Delivered == {ph \in Phases : \A r \in Roles : passed[<<ph, r>>] = 2}

Init ==
    /\ delay \in [Hosts -> 0..MaxDelay] /\ \E h \in Hosts : delay[h] = 0
    /\ clock = 0
    /\ script = [h \in Hosts |-> "off"]
    /\ phase = [h \in Hosts |-> 1]
    /\ waited = [h \in Hosts |-> 0]
    /\ place = [j \in Programs |-> "off"]
    /\ timer = [j \in Programs |-> 0]
    /\ passed = [j \in Programs |-> 0]
    /\ ready = {} /\ crashes = 0

------------------------------------------------------------------------------
(***************************************************************************)
(* The programs.                                                           *)
(***************************************************************************)
\* place of each program in `new` becomes new[j]; its timer starts again.
Move(new) ==
    /\ place' = [j \in Programs |-> IF j \in DOMAIN new THEN new[j] ELSE place[j]]
    /\ timer' = [j \in Programs |-> IF j \in DOMAIN new THEN 0 ELSE timer[j]]

Scripts == <<delay, clock, script, phase, waited>>

\* connect_tcp_retry meets listen_tcp and accept_one.
CanConnect(j) == place[j] = "connect" /\ place[ConnectsTo(j)] = "accept"

\* The firewalls listen only after they have connected.
Connect(j) ==
    LET listens == j[2] # "sender" IN
    /\ CanConnect(j)
    /\ Move([i \in {j, ConnectsTo(j)} |-> IF i = j /\ listens THEN "accept" ELSE "talk"])
    /\ ready' = IF listens THEN ready \cup {j} ELSE ready
    /\ UNCHANGED <<Scripts, passed, crashes>>

Dies(j) == Move([i \in {j} |-> "failed"]) /\ UNCHANGED <<Scripts, ready, passed>>

\* A connector gives up as early as a listener.
Expired_Alike(j) ==
    \/ place[j] \in {"connect", "accept"} /\ timer[j] >= IoTimeout
    \/ place[j] = "talk" /\ passed[j] < 2 /\ timer[j] >= IoTimeout

\* The retries are used up, or SO_RCVTIMEO expires in accept or in a receive.
Expired(j) ==
    \/ place[j] = "connect" /\ timer[j] >= Retries
    \/ place[j] = "accept" /\ timer[j] >= IoTimeout
    \/ place[j] = "talk" /\ passed[j] < 2 /\ timer[j] >= IoTimeout

\* A neighbour that still has to send or to take data has ended.
Cut(j) ==
    /\ place[j] = "talk" /\ passed[j] < 2
    /\ \E n \in Neighbours(j) : place[n] = "failed"

GiveUp(j) == (Expired(j) \/ Cut(j)) /\ Dies(j) /\ UNCHANGED crashes

\* The data of the next direction are there, or come from j itself.
CanPass(j) ==
    /\ place[j] = "talk" /\ passed[j] < 2
    /\ \A n \in Sources(j, passed[j] + 1) : passed[n] > passed[j]

\* j takes them and hands them on.  What a neighbour has sent before it died may
\* still be read, and a write to a neighbour that has died may succeed.
Pass(j) ==
    /\ CanPass(j)
    /\ passed' = [passed EXCEPT ![j] = @ + 1]
    /\ timer' = [timer EXCEPT ![j] = 0]
    /\ UNCHANGED <<Scripts, place, ready, crashes>>

\* Outputs, files, return 0: no word from the neighbours is awaited.
EndProgram(j) ==
    /\ place[j] = "talk" /\ passed[j] = 2
    /\ Move([i \in {j} |-> "done"])
    /\ UNCHANGED <<Scripts, ready, passed, crashes>>

Crash(j) ==
    /\ Running(j) /\ crashes < MaxCrashes
    /\ crashes' = crashes + 1
    /\ Dies(j)

------------------------------------------------------------------------------
(***************************************************************************)
(* The scripts.                                                            *)
(***************************************************************************)
ScriptTo(h, s, ph) ==
    /\ script' = [script EXCEPT ![h] = s]
    /\ phase' = [phase EXCEPT ![h] = ph]
    /\ waited' = [waited EXCEPT ![h] = 0]
    /\ UNCHANGED <<delay, clock, passed, crashes>>

\* The receiver listens at once; the others connect first.
Begin(j) ==
    /\ Move([i \in {j} |-> IF j[2] = "receiver" THEN "accept" ELSE "connect"])
    /\ ready' = IF j[2] = "receiver" THEN ready \cup {j} ELSE ready

StartPhase(h, ph) == ScriptTo(h, "ready1", ph) /\ Begin(FirstOf(h, ph))

CanBoot(h) == script[h] = "off" /\ clock >= delay[h]

Boot(h) == CanBoot(h) /\ StartPhase(h, 1)

\* wait_for_log looks into the log before it looks for the process.
FirstSeen(h) == script[h] = "ready1" /\ FirstOf(h, phase[h]) \in ready
SecondSeen(h) == script[h] = "ready2" /\ SecondOf(h, phase[h]) \in ready

FirstReady(h) ==
    /\ FirstSeen(h)
    /\ ScriptTo(h, IF h = "B" THEN "ready2" ELSE "wait", phase[h])
    /\ Begin(SecondOf(h, phase[h]))

SecondReady(h) ==
    /\ SecondSeen(h)
    /\ ScriptTo(h, "wait", phase[h])
    /\ UNCHANGED <<place, timer, ready>>

\* The script ends without a look at its children.
ScriptFails_NoKill(h) ==
    /\ ScriptTo(h, "failed", phase[h])
    /\ UNCHANGED <<place, timer, ready>>

\* cg_wait_all kills the children, otherwise cg_cleanup_children does on EXIT.
ScriptFails(h) ==
    /\ ScriptTo(h, "failed", phase[h])
    /\ Move([j \in {i \in Children(h) : Running(i)} |-> "failed"])
    /\ UNCHANGED ready

\* The process has ended without a word, or timeout_s has passed.
NeverSeen(h) ==
    LET j == IF script[h] = "ready1" THEN FirstOf(h, phase[h]) ELSE SecondOf(h, phase[h]) IN
    /\ script[h] \in {"ready1", "ready2"} /\ j \notin ready
    /\ ~Running(j) \/ waited[h] >= ReadyTimeout

NotReady(h) == NeverSeen(h) /\ ScriptFails(h)

\* The child started last is waited for, without a limit.
ChildLost_LastOnly(h) == script[h] = "wait" /\ place[SecondOf(h, phase[h])] = "failed"

\* cg_wait_all: a child has failed, or CG_CHILD_TIMEOUT_S has passed.
ChildLost(h) ==
    /\ script[h] = "wait"
    /\ \/ \E j \in Children(h) : place[j] = "failed"
       \/ waited[h] >= ChildTimeout

ChildFailed(h) == ChildLost(h) /\ ScriptFails(h)

\* All children have returned 0: the second phase, or the end.
AllReturned(h) == script[h] = "wait" /\ \A j \in Children(h) : place[j] = "done"

ChildrenDone(h) ==
    /\ AllReturned(h)
    /\ IF phase[h] = 1 THEN StartPhase(h, 2)
       ELSE ScriptTo(h, "ok", 2) /\ UNCHANGED <<place, timer, ready>>

------------------------------------------------------------------------------
\* What happens without waiting.
Instant ==
    \/ \E j \in Programs : Connect(j) \/ GiveUp(j) \/ Pass(j)
    \/ \E h \in Hosts :
         \/ Boot(h) \/ FirstReady(h) \/ SecondReady(h) \/ NotReady(h)
         \/ ChildFailed(h) \/ ChildrenDone(h)

Ending(j) == place[j] = "talk" /\ passed[j] = 2
AllOver == \A h \in Hosts : Over(h)

\* Nothing can happen without waiting: ~ENABLED Instant, guard by guard.
Waiting ==
    /\ \A j \in Programs : ~CanConnect(j) /\ ~Expired(j) /\ ~Cut(j) /\ ~CanPass(j)
    /\ \A h \in Hosts :
         ~(\/ CanBoot(h) \/ FirstSeen(h) \/ SecondSeen(h) \/ NeverSeen(h)
           \/ ChildLost(h) \/ AllReturned(h))

Tick ==
    /\ Waiting /\ ~AllOver
    /\ \A j \in Programs : Ending(j) => timer[j] < MaxLag
    /\ clock' = IF clock < MaxDelay THEN clock + 1 ELSE clock
    /\ timer' = [j \in Programs |-> IF Running(j) THEN timer[j] + 1 ELSE timer[j]]
    /\ waited' = [h \in Hosts |->
         IF script[h] \notin {"ready1", "ready2", "wait"} THEN 0
         ELSE IF waited[h] < ReadyTimeout + ChildTimeout THEN waited[h] + 1 ELSE waited[h]]
    /\ UNCHANGED <<delay, script, phase, place, ready, passed, crashes>>

Finished == AllOver /\ UNCHANGED vars

Progress == Instant \/ Tick \/ \E j \in Programs : EndProgram(j)

Next == Progress \/ (\E j \in Programs : Crash(j)) \/ Finished

\* Time passes and processors work.
Spec == Init /\ [][Next]_vars /\ WF_vars(Progress)

------------------------------------------------------------------------------
Typed ==
    /\ script \in [Hosts -> {"off", "ready1", "ready2", "wait", "ok", "failed"}]
    /\ phase \in [Hosts -> Phases]
    /\ place \in [Programs -> {"off", "connect", "accept", "talk", "done", "failed"}]
    /\ ready \subseteq Programs /\ passed \in [Programs -> 0..2]
    \* the receiver connects to nobody
    /\ \A j \in Programs : place[j] = "connect" => j[2] # "receiver"

TimesTyped ==
    /\ delay \in [Hosts -> 0..MaxDelay] /\ clock \in 0..MaxDelay
    /\ waited \in [Hosts -> Nat] /\ timer \in [Programs -> Nat]
    /\ crashes \in 0..MaxCrashes

\* Type invariant: where the scripts and the programs are, and the clocks.
TypeOK == Typed /\ TimesTyped

\* Timeouts that leave room for one another: those of the programs exceed the
\* time a program takes to end, those of the scripts exceed the programs'.
Ample ==
    /\ MaxLag < IoTimeout /\ MaxLag < Retries
    /\ Retries <= ReadyTimeout /\ IoTimeout + MaxLag <= ChildTimeout

\* No program has died, and Party A is started less than an I/O timeout after
\* Party B, or Party B less than all the retries after Party A.
Tolerable ==
    /\ Ample /\ crashes = 0
    /\ delay["A"] < delay["B"] + IoTimeout /\ delay["B"] < delay["A"] + Retries

NothingFails ==
    /\ \A h \in Hosts : script[h] # "failed"
    /\ \A j \in Programs : place[j] # "failed"

\* "Demo scripts start processes separately, so retry while the peer is still
\* coming up": within these limits nothing fails, in neither phase.  The four
\* programs are never kept from meeting by the order in which they listen and
\* connect.
InTime == Tolerable => NothingFails

\* A script that has ended has left no program behind.  If it reports success,
\* all its programs, of both phases, ended well, and the data of the one-way PSI
\* have reached everybody, even if the other party has failed meanwhile.  For
\* Party A the slots have been revealed too; Party B has only sent them.
Verdicts ==
    \A h \in Hosts : Over(h) =>
        /\ \A j \in Programs : Host(j) = h => ~Running(j)
        /\ script[h] = "ok" =>
             /\ \A j \in Programs : Host(j) = h => place[j] = "done"
             /\ (IF h = "A" THEN Phases ELSE {1}) \subseteq Delivered

\* What a script knows of its programs at every moment: those of a later phase
\* have not been started, those of an earlier one have ended well, and none
\* outlives it.
Supervised ==
    \A h \in Hosts : \A j \in Programs : Host(j) = h =>
      /\ script[h] = "off" \/ j[1] > phase[h] => place[j] = "off"
      /\ script[h] = "ready1" /\ j = SecondOf(h, phase[h]) => place[j] = "off"
      /\ j[1] < phase[h] => place[j] = "done"
      /\ script[h] = "failed" => ~Running(j)
      /\ script[h] = "ok" => place[j] = "done"

\* Data come from where they begin, through everybody before.
Relayed ==
    \A j \in Programs :
      /\ place[j] = "done" => passed[j] = 2
      /\ place[j] \in {"off", "connect", "accept"} => passed[j] = 0
      /\ \A d \in 1..passed[j] : \A n \in Sources(j, d) : passed[n] >= d

\* With Verdicts as a consequence, it is what LaunchProofs carries from step to
\* step.
Supervision == Supervised /\ Relayed

(***************************************************************************)
(* How far the programs of a phase are and how long they have waited, if   *)
(* nothing fails; with Supervision, what LaunchProofs carries along.       *)
(***************************************************************************)
\* The programs of a phase come up from the receiver to the sender.
Chain(ph) ==
    LET at(r, places) == place[<<ph, r>>] \in places IN
    \/ \A r \in Roles : at(r, {"talk", "done"})
    \/ /\ \A r \in Roles : passed[<<ph, r>>] < 2
       /\ \/ /\ \/ at("receiver", {"off"}) /\ at("rrf", {"off"})
                \/ at("receiver", {"accept"}) /\ at("rrf", {"off", "connect"})
                \/ at("receiver", {"talk"}) /\ at("rrf", {"accept"})
             /\ at("srf", {"off", "connect"}) /\ at("sender", {"off"})
          \/ /\ at("receiver", {"talk"}) /\ at("rrf", {"talk"})
             /\ at("srf", {"accept"}) /\ at("sender", {"off", "connect"})

\* Exactly the programs that have got past listen_tcp have logged it.
Logged ==
    \A j \in Programs : j \in ready <=> j[2] # "sender" /\ place[j] \notin {"off", "connect"}

\* Where a script is, its programs are.
InStep(h) ==
    LET first == place[FirstOf(h, phase[h])]
        second == place[SecondOf(h, phase[h])]
    IN
    /\ IF script[h] = "off" THEN phase[h] = 1 ELSE first # "off"
    /\ script[h] = "ready1" <=> first # "off" /\ second = "off"
    /\ script[h] = "ready2" => h = "B"
    /\ script[h] = "wait" /\ h = "B" => second # "connect"
    /\ script[h] = "ok" => phase[h] = 2

\* Nobody has waited longer than the other party is late.
Punctual ==
    /\ \A h \in Hosts : IF script[h] = "off" THEN clock <= delay[h] ELSE delay[h] <= clock
    /\ \A j \in Programs : Running(j) =>
         /\ Ending(j) => timer[j] <= MaxLag
         /\ ~Ending(j) => timer[j] < IF place[j] = "connect" THEN Retries ELSE IoTimeout
         /\ \A g \in Hosts : script[g] = "off" => timer[j] + delay[Host(j)] <= clock
         /\ j[1] = 2 /\ 1 \notin Delivered => timer[j] = 0
         /\ \A i \in Programs : Ending(i) /\ j[1] > i[1] => timer[j] <= timer[i]
         /\ \A g \in Hosts : j[1] > phase[g] => timer[j] <= MaxLag

\* A script has waited no longer than its programs; that of Party B as long as
\* its firewall for Party A.
Patient(h) ==
    LET first == FirstOf(h, phase[h])
        allowance == IF h = "B" THEN IoTimeout - 1 ELSE 0
    IN
    /\ script[h] = "ready1" /\ place[first] = "connect" => waited[h] <= timer[first]
    /\ script[h] = "ready2" => waited[h] = 0
    /\ script[h] = "wait" =>
         /\ phase[h] \notin Delivered => waited[h] <= allowance
         /\ waited[h] <= allowance + MaxLag
         /\ \A j \in Children(h) :
              /\ Ending(j) => waited[h] <= allowance + timer[j]
              /\ place[j] = "accept" /\ h = "B" => waited[h] <= timer[j]

Timely ==
    /\ NothingFails /\ Logged /\ Punctual
    /\ \A ph \in Phases : Chain(ph)
    /\ \A h \in Hosts : InStep(h) /\ Patient(h)

\* Whenever and wherever a program dies, or a party comes too late, both
\* scripts end.
BothEnd == <>AllOver
=============================================================================
