---------------------------- MODULE LaunchProofs ----------------------------
(***************************************************************************)
(* What the exit status of a launch script means, for all timeouts, start  *)
(* delays and numbers of crashes.                                          *)
(***************************************************************************)
EXTENDS Launch, TLAPS

\* The two programs a host starts in a phase are the programs of that host and
\* phase: no child escapes Children, which ScriptFails kills.
LEMMA ProgramsOfHost ==
    ASSUME NEW h \in Hosts, NEW ph \in Phases
    PROVE  /\ FirstOf(h, ph) \in Programs /\ SecondOf(h, ph) \in Programs
           /\ Host(FirstOf(h, ph)) = h /\ Host(SecondOf(h, ph)) = h
           /\ FirstOf(h, ph)[1] = ph /\ SecondOf(h, ph)[1] = ph
           /\ \A j \in Programs : Host(j) = h /\ j[1] = ph =>
                j = FirstOf(h, ph) \/ j = SecondOf(h, ph)
  <1>1. /\ FirstOf(h, ph) \in Programs /\ SecondOf(h, ph) \in Programs
        /\ Host(FirstOf(h, ph)) = h /\ Host(SecondOf(h, ph)) = h
        /\ FirstOf(h, ph)[1] = ph /\ SecondOf(h, ph)[1] = ph
    BY DEF FirstOf, SecondOf, Programs, Roles, Host, Hosts
  <1>2. ASSUME NEW j \in Programs, Host(j) = h, j[1] = ph
        PROVE  j = FirstOf(h, ph) \/ j = SecondOf(h, ph)
    <2>1. PICK r \in Roles : j = <<ph, r>>
      BY <1>2 DEF Programs
    <2> QED BY <1>2, <2>1 DEF FirstOf, SecondOf, Roles, Host, Hosts
  <1> QED BY <1>1, <1>2

\* Data come from programs.
LEMMA SourcesAre ==
    ASSUME NEW j, NEW d
    PROVE  Sources(j, d) \subseteq Programs
  BY DEF Sources

\* The data stay where they are if no program ends too early or starts again.
LEMMA RelayKept ==
    ASSUME Typed, Relayed, passed' = passed,
           \A j \in Programs : place'[j] = "done" => place[j] = "done" \/ passed[j] = 2,
           \A j \in Programs : place'[j] \in {"off", "connect", "accept"} => passed[j] = 0
    PROVE  Relayed'
  BY DEF Relayed

\* The programs' own steps: only running programs move, none comes back to
\* life, and one ends well only after it has handed on both directions.
LEMMA ProgramMoves ==
    ASSUME Typed, Supervision, UNCHANGED <<script, phase, passed>>,
           \A j \in Programs : place'[j] # place[j] =>
               /\ Running(j) /\ (place'[j] = "done" => passed[j] = 2)
               /\ place'[j] \in {"off", "connect", "accept"} => place[j] = "connect"
    PROVE  Supervision'
  <1>1. Relayed'
    <2>1. \A j \in Programs : place'[j] = "done" => place[j] = "done" \/ passed[j] = 2
      OBVIOUS
    <2>2. \A j \in Programs : place'[j] \in {"off", "connect", "accept"} => passed[j] = 0
      BY DEF Supervision, Relayed
    <2> QED BY <2>1, <2>2, RelayKept DEF Supervision
  <1>2. ASSUME NEW h \in Hosts, NEW j \in Programs, Host(j) = h
        PROVE  /\ script[h] = "off" \/ j[1] > phase[h] => place'[j] = "off"
               /\ script[h] = "ready1" /\ j = SecondOf(h, phase[h]) => place'[j] = "off"
               /\ j[1] < phase[h] => place'[j] = "done"
               /\ script[h] = "failed" => ~Running(j)'
               /\ script[h] = "ok" => place'[j] = "done"
    BY <1>2 DEF Supervision, Supervised, Running
  <1> QED BY <1>1, <1>2 DEF Supervision, Supervised

\* Data that are handed on have been handed on by everybody before.
LEMMA PassStep ==
    ASSUME Typed, Supervision, NEW j \in Programs, Pass(j)
    PROVE  Typed' /\ Supervision'
  <1>1. /\ UNCHANGED <<script, phase, place, ready>>
        /\ place[j] = "talk" /\ passed[j] < 2
        /\ \A n \in Sources(j, passed[j] + 1) : passed[n] > passed[j]
        /\ passed' = [passed EXCEPT ![j] = passed[j] + 1]
    BY DEF Pass, CanPass, Scripts
  <1>2. /\ passed[j] \in {0, 1} /\ passed'[j] = passed[j] + 1
        /\ \A i \in Programs : i # j => passed'[i] = passed[i]
        /\ \A i \in Programs : passed[i] \in 0..2
    BY <1>1 DEF Typed
  <1>3. \A i \in Programs : passed'[i] \in 0..2 /\ passed'[i] >= passed[i]
    BY <1>2
  <1>4. Typed'
    BY <1>1, <1>2 DEF Typed
  <1>5. ASSUME NEW i \in Programs, NEW d \in 1..passed'[i], NEW n \in Sources(i, d)
        PROVE  passed'[n] >= d
    <2>1. n \in Programs /\ passed[n] \in Nat /\ passed'[n] \in Nat /\ d \in Nat
      BY <1>2, <1>3, <1>5, SourcesAre
    <2>2. CASE d \in 1..passed[i]
      <3>1. passed[n] >= d
        BY <1>5, <2>2 DEF Supervision, Relayed
      <3> QED BY <1>3, <2>1, <3>1
    <2>3. CASE d \notin 1..passed[i]
      <3>1. i = j /\ d = passed[j] + 1
        BY <1>2, <2>3
      <3>2. passed[n] > passed[j]
        BY <1>1, <3>1
      <3> QED BY <1>2, <1>3, <2>1, <3>1, <3>2
    <2> QED BY <2>2, <2>3
  <1>6. Relayed'
    <2>1. ASSUME NEW i \in Programs
          PROVE  /\ place'[i] = "done" => passed'[i] = 2
                 /\ place'[i] \in {"off", "connect", "accept"} => passed'[i] = 0
      BY <1>1, <1>2 DEF Supervision, Relayed
    <2> QED BY <1>5, <2>1 DEF Relayed
  <1>7. Supervised'
    BY <1>1 DEF Supervision, Supervised, Running
  <1> QED BY <1>4, <1>6, <1>7 DEF Supervision

\* The scripts' steps: host h moves to script state s and phase ph, and changes
\* only its own programs of phase ph.
LEMMA ScriptMoves ==
    ASSUME Typed, Supervision, NEW h \in Hosts, NEW s, NEW ph \in Phases,
           script' = [script EXCEPT ![h] = s], phase' = [phase EXCEPT ![h] = ph],
           passed' = passed, s # "off",
           \A j \in Programs : Host(j) # h \/ j[1] # ph => place'[j] = place[j],
           \A j \in Programs : Host(j) = h /\ j[1] > ph => place[j] = "off",
           \A j \in Programs : Host(j) = h /\ j[1] < ph => place[j] = "done",
           \A j \in Programs : place'[j] = "done" => place[j] = "done",
           \A j \in Programs : place'[j] \in {"off", "connect", "accept"} => passed[j] = 0,
           s = "ready1" => place'[SecondOf(h, ph)] = "off",
           s = "failed" => \A j \in Programs : Host(j) = h => ~Running(j)',
           s = "ok" => \A j \in Programs : Host(j) = h => place'[j] = "done"
    PROVE  Supervision'
  <1>1. Relayed'
    BY RelayKept DEF Supervision
  <1>2. /\ script'[h] = s /\ phase'[h] = ph
        /\ \A g \in Hosts : g # h => script'[g] = script[g] /\ phase'[g] = phase[g]
    BY DEF Typed
  <1>3. ASSUME NEW g \in Hosts, NEW j \in Programs, Host(j) = g
        PROVE  /\ script'[g] = "off" \/ j[1] > phase'[g] => place'[j] = "off"
               /\ script'[g] = "ready1" /\ j = SecondOf(g, phase'[g]) => place'[j] = "off"
               /\ j[1] < phase'[g] => place'[j] = "done"
               /\ script'[g] = "failed" => ~Running(j)'
               /\ script'[g] = "ok" => place'[j] = "done"
    <2>1. CASE g = h
      <3>1. j[1] \in {1, 2}
        BY DEF Programs, Phases
      <3>2. j[1] > ph \/ j[1] < ph => place'[j] = place[j]
        BY <3>1 DEF Phases
      <3> QED BY <1>2, <1>3, <2>1, <3>2
    <2>2. CASE g # h
      BY <1>2, <1>3, <2>2 DEF Supervision, Supervised, Running
    <2> QED BY <2>1, <2>2
  <1> QED BY <1>1, <1>3 DEF Supervision, Supervised

\* A step of a program that moves keeps the types and the
\* supervision.
LEMMA ProgramStep ==
    ASSUME Typed, Supervision, NEW j \in Programs,
           Connect(j) \/ GiveUp(j) \/ EndProgram(j) \/ Crash(j)
    PROVE  Typed' /\ Supervision'
  <1> USE DEF Scripts
  <1>1. CASE Connect(j)
    <2>1. ConnectsTo(j) \in Programs
      <3>1. j[2] # "receiver"
        BY <1>1 DEF Connect, CanConnect, Typed
      <3>2. PICK ph \in Phases, r \in Roles : j = <<ph, r>>
        BY DEF Programs
      <3> QED BY <3>1, <3>2 DEF ConnectsTo, Programs, Roles
    <2>2. place[j] = "connect" /\ place[ConnectsTo(j)] = "accept"
      BY <1>1 DEF Connect, CanConnect
    <2>3. \A i \in Programs :
            place'[i] = IF i \in {j, ConnectsTo(j)}
                        THEN IF i = j /\ j[2] # "sender" THEN "accept" ELSE "talk"
                        ELSE place[i]
      BY <1>1 DEF Connect, Move
    <2>4. /\ UNCHANGED <<script, phase, passed>>
          /\ ready' \subseteq Programs
          /\ place' \in [Programs -> {"off", "connect", "accept", "talk", "done", "failed"}]
      <3>1. place' \in [Programs -> {"off", "connect", "accept", "talk", "done", "failed"}]
        BY <1>1, <2>3 DEF Connect, Move, Typed
      <3> QED BY <1>1, <3>1 DEF Connect, CanConnect, Typed
    <2>5. \A i \in Programs : place'[i] # place[i] =>
            /\ Running(i) /\ place'[i] # "done"
            /\ place'[i] \in {"off", "connect", "accept"} => place[i] = "connect"
      BY <2>2, <2>3 DEF Running
    <2>6. \A i \in Programs : place'[i] = "connect" => place[i] = "connect"
      BY <2>3
    <2>7. Typed'
      BY <1>1, <2>4, <2>6 DEF Typed
    <2> QED BY <2>4, <2>5, <2>7, ProgramMoves
  <1>2. CASE Dies(j) /\ Running(j)
    <2>1. \A i \in Programs : place'[i] = IF i \in {j} THEN "failed" ELSE place[i]
      BY <1>2 DEF Dies, Move
    <2>2. UNCHANGED <<script, phase, ready, passed>>
      BY <1>2 DEF Dies
    <2>3. place' \in [Programs -> {"off", "connect", "accept", "talk", "done", "failed"}]
      BY <1>2, <2>1 DEF Dies, Move, Typed
    <2>4. \A i \in Programs : place'[i] # place[i] => Running(i) /\ place'[i] = "failed"
      BY <1>2, <2>1
    <2>5. \A i \in Programs : place'[i] = "connect" => place[i] = "connect"
      BY <2>1
    <2>6. Typed'
      BY <2>2, <2>3, <2>5 DEF Typed
    <2> QED BY <2>2, <2>4, <2>6, ProgramMoves
  <1>3. CASE EndProgram(j)
    <2>1. place[j] = "talk" /\ passed[j] = 2
      BY <1>3 DEF EndProgram
    <2>2. \A i \in Programs : place'[i] = IF i \in {j} THEN "done" ELSE place[i]
      BY <1>3 DEF EndProgram, Move
    <2>3. UNCHANGED <<script, phase, ready, passed>>
      BY <1>3 DEF EndProgram
    <2>4. place' \in [Programs -> {"off", "connect", "accept", "talk", "done", "failed"}]
      BY <1>3, <2>2 DEF EndProgram, Move, Typed
    <2>5. \A i \in Programs : place'[i] # place[i] =>
            Running(i) /\ passed[i] = 2 /\ place'[i] = "done"
      BY <2>1, <2>2 DEF Running
    <2>6. \A i \in Programs : place'[i] = "connect" => place[i] = "connect"
      BY <2>2
    <2>7. Typed'
      BY <2>3, <2>4, <2>6 DEF Typed
    <2> QED BY <2>3, <2>5, <2>7, ProgramMoves
  <1>4. GiveUp(j) => Dies(j) /\ Running(j)
    BY DEF GiveUp, Expired, Cut, Running
  <1>5. Crash(j) => Dies(j) /\ Running(j)
    BY DEF Crash
  <1> QED BY <1>1, <1>2, <1>3, <1>4, <1>5

\* Starting a program: only that program moves, and it is not done.
LEMMA Starts ==
    ASSUME Typed, NEW i \in Programs, Begin(i)
    PROVE  /\ place' \in [Programs -> {"off", "connect", "accept", "talk", "done", "failed"}]
           /\ ready' \subseteq Programs
           /\ \A j \in Programs : j # i => place'[j] = place[j]
           /\ place'[i] # "done" /\ (place'[i] = "connect" => i[2] # "receiver")
  <1>1. \A j \in Programs :
          place'[j] = IF j \in {i} THEN IF i[2] = "receiver" THEN "accept" ELSE "connect"
                      ELSE place[j]
    BY DEF Begin, Move
  <1>2. place' = [j \in Programs |-> place'[j]]
    BY DEF Begin, Move
  <1> QED BY <1>1, <1>2 DEF Begin, Typed

\* A failing script leaves no program behind, and touches nobody else's.
LEMMA FailureStops ==
    ASSUME Typed, Supervision, NEW h \in Hosts, ScriptFails(h), script[h] # "off"
    PROVE  Typed' /\ Supervision'
  <1>1. /\ script' = [script EXCEPT ![h] = "failed"] /\ phase' = [phase EXCEPT ![h] = phase[h]]
        /\ UNCHANGED <<ready, passed>>
    BY DEF ScriptFails, ScriptTo
  <1>2. phase[h] \in Phases
    BY DEF Typed
  <1>3. \A j \in Programs :
          place'[j] = IF j \in Children(h) /\ Running(j) THEN "failed" ELSE place[j]
    BY DEF ScriptFails, Move
  <1>4. place' \in [Programs -> {"off", "connect", "accept", "talk", "done", "failed"}]
    <2>1. place' = [j \in Programs |-> place'[j]]
      BY DEF ScriptFails, Move
    <2> QED BY <1>3, <2>1 DEF Typed
  <1>5. Typed'
    <2>1. \A j \in Programs : place'[j] = "connect" => place[j] = "connect"
      BY <1>3
    <2> QED BY <1>1, <1>2, <1>4, <2>1 DEF Typed
  <1>6. \A j \in Programs : Host(j) = h =>
          /\ j[1] > phase[h] => place[j] = "off"
          /\ j[1] < phase[h] => place[j] = "done"
    BY DEF Supervision, Supervised
  <1>7. \A j \in Children(h) : j \in Programs /\ Host(j) = h /\ j[1] = phase[h]
    BY <1>2, ProgramsOfHost DEF Children
  <1>8. \A j \in Programs : Host(j) = h /\ j[1] = phase[h] => j \in Children(h)
    BY <1>2, ProgramsOfHost DEF Children
  <1>9. ASSUME NEW j \in Programs, Host(j) = h PROVE ~Running(j)'
    <2>1. j[1] \in {1, 2} /\ phase[h] \in {1, 2}
      BY <1>2 DEF Programs, Phases
    <2>2. CASE j[1] = phase[h]
      BY <1>3, <1>8, <1>9, <2>2 DEF Running
    <2>3. CASE j[1] # phase[h]
      <3>1. place'[j] \in {"off", "done"}
        BY <1>3, <1>6, <1>7, <1>9, <2>1, <2>3
      <3> QED BY <3>1 DEF Running
    <2> QED BY <2>2, <2>3
  <1>10. \A j \in Programs : place'[j] = "done" => place[j] = "done"
    BY <1>3
  <1>11. \A j \in Programs : Host(j) # h \/ j[1] # phase[h] => place'[j] = place[j]
    BY <1>3, <1>7
  <1>12. \A j \in Programs : place'[j] \in {"off", "connect", "accept"} => passed[j] = 0
    BY <1>3 DEF Supervision, Relayed
  <1>13. Supervision'
    BY <1>1, <1>2, <1>6, <1>9, <1>10, <1>11, <1>12, ScriptMoves
  <1> QED BY <1>5, <1>13

\* A step of a script keeps the types and the supervision.
LEMMA ScriptStep ==
    ASSUME Typed, Supervision, NEW h \in Hosts,
           \/ Boot(h) \/ FirstReady(h) \/ SecondReady(h) \/ NotReady(h)
           \/ ChildFailed(h) \/ ChildrenDone(h)
    PROVE  Typed' /\ Supervision'
  <1>0. phase[h] \in Phases
    BY DEF Typed
  <1>f. ASSUME NEW s \in {"ready1", "ready2", "wait"}, NEW ph \in Phases,
               NEW i \in {FirstOf(h, ph), SecondOf(h, ph)},
               ScriptTo(h, s, ph), Begin(i), place[i] = "off",
               s = "ready1" => i = FirstOf(h, ph) /\ place[SecondOf(h, ph)] = "off",
               \A j \in Programs : Host(j) = h /\ j[1] > ph => place[j] = "off",
               \A j \in Programs : Host(j) = h /\ j[1] < ph => place[j] = "done"
        PROVE  Typed' /\ Supervision'
    <2>1. i \in Programs /\ Host(i) = h /\ i[1] = ph
      BY ProgramsOfHost, <1>f
    <2>2. /\ place' \in [Programs -> {"off", "connect", "accept", "talk", "done", "failed"}]
          /\ ready' \subseteq Programs
          /\ \A j \in Programs : j # i => place'[j] = place[j]
          /\ place'[i] # "done" /\ (place'[i] = "connect" => i[2] # "receiver")
      BY <1>f, <2>1, Starts
    <2>3. /\ script' = [script EXCEPT ![h] = s] /\ phase' = [phase EXCEPT ![h] = ph]
          /\ passed' = passed
      BY <1>f DEF ScriptTo
    <2>4. Typed'
      BY <2>2, <2>3 DEF Typed
    <2>5. \A j \in Programs : Host(j) # h \/ j[1] # ph => place'[j] = place[j]
      BY <2>1, <2>2
    <2>6. \A j \in Programs : place'[j] = "done" => place[j] = "done"
      BY <2>2
    <2>7. \A j \in Programs : place'[j] \in {"off", "connect", "accept"} => passed[j] = 0
      <3>1. \A j \in Programs : place[j] \in {"off", "connect", "accept"} => passed[j] = 0
        BY DEF Supervision, Relayed
      <3> QED BY <1>f, <2>2, <3>1
    <2>8. s = "ready1" => place'[SecondOf(h, ph)] = "off"
      <3>1. SecondOf(h, ph) \in Programs /\ FirstOf(h, ph) # SecondOf(h, ph)
        BY ProgramsOfHost DEF FirstOf, SecondOf
      <3> QED BY <1>f, <2>2, <3>1
    <2>9. Supervision'
      BY <1>f, <2>3, <2>5, <2>6, <2>7, <2>8, ScriptMoves
    <2> QED BY <2>4, <2>9
  <1>s. \A j \in Programs : Host(j) = h =>
          /\ script[h] = "off" \/ j[1] > phase[h] => place[j] = "off"
          /\ script[h] = "ready1" /\ j = SecondOf(h, phase[h]) => place[j] = "off"
          /\ j[1] < phase[h] => place[j] = "done"
    BY DEF Supervision, Supervised
  <1>r. \A j \in Programs : place[j] \in {"off", "connect", "accept"} => passed[j] = 0
    BY DEF Supervision, Relayed
  <1>p. \A j \in Programs : j[1] \in {1, 2}
    BY DEF Programs, Phases
  <1>1. CASE Boot(h)
    <2>1. script[h] = "off" /\ ScriptTo(h, "ready1", 1) /\ Begin(FirstOf(h, 1))
      BY <1>1 DEF Boot, CanBoot, StartPhase
    <2>2. 1 \in Phases /\ \A j \in Programs : ~(j[1] < 1)
      BY <1>p DEF Phases
    <2>3. place[FirstOf(h, 1)] = "off" /\ place[SecondOf(h, 1)] = "off"
      BY <1>s, <2>1, <2>2, ProgramsOfHost
    <2> QED BY <1>f, <1>s, <2>1, <2>2, <2>3
  <1>2. CASE FirstReady(h)
    <2>1. PICK s \in {"ready2", "wait"} :
            ScriptTo(h, s, phase[h]) /\ Begin(SecondOf(h, phase[h]))
      BY <1>2 DEF FirstReady
    <2>2. PICK ph \in Phases : ph = phase[h]
      BY <1>0
    <2>3. place[SecondOf(h, ph)] = "off"
      BY <1>2, <1>s, <2>2, ProgramsOfHost DEF FirstReady, FirstSeen
    <2> QED BY <1>f, <1>s, <2>1, <2>2, <2>3
  <1>3. CASE SecondReady(h)
    <2>1. /\ script' = [script EXCEPT ![h] = "wait"] /\ phase' = [phase EXCEPT ![h] = phase[h]]
          /\ UNCHANGED <<place, ready, passed>>
      BY <1>3 DEF SecondReady, ScriptTo
    <2>2. Typed'
      BY <1>0, <2>1 DEF Typed
    <2>3. Supervision'
      BY <1>0, <1>r, <1>s, <2>1, ScriptMoves
    <2> QED BY <2>2, <2>3
  <1>4. CASE NotReady(h) \/ ChildFailed(h)
    <2>1. ScriptFails(h) /\ script[h] # "off"
      BY <1>4 DEF NotReady, ChildFailed, NeverSeen, ChildLost
    <2> QED BY <2>1, FailureStops
  <1>5. CASE ChildrenDone(h)
    <2>1. \A j \in Programs : Host(j) = h /\ j[1] = phase[h] => place[j] = "done"
      BY <1>0, <1>5, ProgramsOfHost DEF ChildrenDone, AllReturned, Children
    <2>2. CASE phase[h] = 1
      <3>1. ScriptTo(h, "ready1", 2) /\ Begin(FirstOf(h, 2))
        BY <1>5, <2>2 DEF ChildrenDone, StartPhase
      <3>2. 2 \in Phases /\ \A j \in Programs : ~(j[1] > 2) /\ (j[1] < 2 => j[1] = 1)
        BY <1>p DEF Phases
      <3>3. place[FirstOf(h, 2)] = "off" /\ place[SecondOf(h, 2)] = "off"
        BY <1>s, <2>2, <3>2, ProgramsOfHost
      <3> QED BY <1>f, <2>1, <2>2, <3>1, <3>2, <3>3
    <2>3. CASE phase[h] # 1
      <3>1. /\ phase[h] = 2 /\ 2 \in Phases
            /\ script' = [script EXCEPT ![h] = "ok"] /\ phase' = [phase EXCEPT ![h] = 2]
            /\ UNCHANGED <<place, ready, passed>>
        BY <1>0, <1>5, <2>3 DEF ChildrenDone, ScriptTo, Phases
      <3>2. \A j \in Programs : Host(j) = h => place[j] = "done" /\ ~(j[1] > 2)
        BY <1>p, <1>s, <2>1, <3>1
      <3>3. Typed'
        BY <3>1 DEF Typed
      <3>4. Supervision'
        BY <1>r, <3>1, <3>2, ScriptMoves
      <3> QED BY <3>3, <3>4
    <2> QED BY <2>2, <2>3
  <1> QED BY <1>1, <1>2, <1>3, <1>4, <1>5

\* Supervision is inductive, together with the types.
LEMMA SupervisionStep ==
    ASSUME Typed, Supervision, [Next]_vars
    PROVE  Typed' /\ Supervision'
  <1>1. CASE \E j \in Programs : Pass(j)
    BY <1>1, PassStep
  <1>2. CASE Tick \/ Finished \/ UNCHANGED vars
    <2>1. UNCHANGED <<script, phase, place, ready, passed>>
      BY <1>2 DEF Tick, Finished, vars
    <2> QED BY <2>1, ProgramMoves DEF Typed
  <1> QED
    BY <1>1, <1>2, ProgramStep, ScriptStep DEF Next, Progress, Instant

\* Whatever the timeouts are and whichever programs die: the scripts always know
\* what has become of their programs, a program ends well only after it has
\* handed on both directions, and what it has handed on has come through
\* everybody before it.  Nothing is said of those behind it.
THEOREM ScriptsSupervise == Spec => [](Typed /\ Supervision)
  <1>1. Init => Typed /\ Supervision
    <2> SUFFICES ASSUME Init PROVE Typed /\ Supervision
      OBVIOUS
    <2>1. Typed
      BY DEF Init, Typed, Phases
    <2>2. \A j \in Programs : ~(j[1] < 1) /\ place[j] = "off" /\ passed[j] = 0
      BY DEF Init, Programs, Phases
    <2>3. Supervised
      BY <2>2 DEF Init, Supervised, Running
    <2>4. Relayed
      BY <2>2 DEF Relayed
    <2> QED BY <2>1, <2>3, <2>4 DEF Supervision
  <1>2. (Typed /\ Supervision) /\ [Next]_vars => (Typed /\ Supervision)'
    BY SupervisionStep
  <1> QED BY <1>1, <1>2, PTL DEF Spec

-----------------------------------------------------------------------------
(***************************************************************************)
(* Who is who, and how far the data are.                                   *)
(***************************************************************************)
\* Who is who in a phase.
LEMMA Cast ==
    ASSUME NEW ph \in Phases
    PROVE  /\ {<<ph, r>> : r \in Roles} \subseteq Programs
           /\ <<ph, "receiver">> \in Programs /\ <<ph, "rrf">> \in Programs
           /\ <<ph, "srf">> \in Programs /\ <<ph, "sender">> \in Programs
           /\ FirstOf("B", ph) = <<ph, "receiver">> /\ SecondOf("B", ph) = <<ph, "rrf">>
           /\ FirstOf("A", ph) = <<ph, "srf">> /\ SecondOf("A", ph) = <<ph, "sender">>
           /\ Host(<<ph, "receiver">>) = "B" /\ Host(<<ph, "rrf">>) = "B"
           /\ Host(<<ph, "srf">>) = "A" /\ Host(<<ph, "sender">>) = "A"
           /\ ConnectsTo(<<ph, "rrf">>) = <<ph, "receiver">>
           /\ ConnectsTo(<<ph, "srf">>) = <<ph, "rrf">>
           /\ ConnectsTo(<<ph, "sender">>) = <<ph, "srf">>
           /\ \A r, s \in Roles : <<ph, r>> = <<ph, s>> => r = s
           /\ \A r \in Roles : <<ph, r>>[1] = ph /\ <<ph, r>>[2] = r
  BY DEF Programs, Roles, FirstOf, SecondOf, Host, ConnectsTo

LEMMA Everyone ==
    ASSUME NEW j \in Programs
    PROVE  /\ j[1] \in Phases /\ j[2] \in Roles /\ j = <<j[1], j[2]>>
           /\ j[1] \in {1, 2} /\ Host(j) \in Hosts
           /\ j[2] \in {"receiver", "rrf"} => Host(j) = "B"
           /\ j[2] \in {"srf", "sender"} => Host(j) = "A"
  BY DEF Programs, Phases, Host, Hosts, Roles

\* The data of the first phase go up from the receiver and come back to it;
\* those of the second go the other way.
LEMMA Route ==
    /\ Sources(<<1, "receiver">>, 1) = {} /\ Sources(<<1, "receiver">>, 2) = {<<1, "rrf">>}
    /\ Sources(<<1, "rrf">>, 1) = {<<1, "receiver">>} /\ Sources(<<1, "rrf">>, 2) = {<<1, "srf">>}
    /\ Sources(<<1, "srf">>, 1) = {<<1, "rrf">>} /\ Sources(<<1, "srf">>, 2) = {<<1, "sender">>}
    /\ Sources(<<1, "sender">>, 1) = {<<1, "srf">>} /\ Sources(<<1, "sender">>, 2) = {}
    /\ Sources(<<2, "receiver">>, 1) = {<<2, "rrf">>} /\ Sources(<<2, "receiver">>, 2) = {}
    /\ Sources(<<2, "rrf">>, 1) = {<<2, "srf">>} /\ Sources(<<2, "rrf">>, 2) = {<<2, "receiver">>}
    /\ Sources(<<2, "srf">>, 1) = {<<2, "sender">>} /\ Sources(<<2, "srf">>, 2) = {<<2, "rrf">>}
    /\ Sources(<<2, "sender">>, 1) = {} /\ Sources(<<2, "sender">>, 2) = {<<2, "srf">>}
  <1>1. Sources(<<1, "receiver">>, 1) = {} /\ Sources(<<1, "receiver">>, 2) = {<<1, "rrf">>}
    BY DEF Sources, ConnectsTo, Programs, Phases, Roles
  <1>2. Sources(<<1, "rrf">>, 1) = {<<1, "receiver">>} /\ Sources(<<1, "rrf">>, 2) = {<<1, "srf">>}
    BY DEF Sources, ConnectsTo, Programs, Phases, Roles
  <1>3. Sources(<<1, "srf">>, 1) = {<<1, "rrf">>} /\ Sources(<<1, "srf">>, 2) = {<<1, "sender">>}
    BY DEF Sources, ConnectsTo, Programs, Phases, Roles
  <1>4. Sources(<<1, "sender">>, 1) = {<<1, "srf">>} /\ Sources(<<1, "sender">>, 2) = {}
    BY DEF Sources, ConnectsTo, Programs, Phases, Roles
  <1>5. Sources(<<2, "receiver">>, 1) = {<<2, "rrf">>} /\ Sources(<<2, "receiver">>, 2) = {}
    BY DEF Sources, ConnectsTo, Programs, Phases, Roles
  <1>6. Sources(<<2, "rrf">>, 1) = {<<2, "srf">>} /\ Sources(<<2, "rrf">>, 2) = {<<2, "receiver">>}
    BY DEF Sources, ConnectsTo, Programs, Phases, Roles
  <1>7. Sources(<<2, "srf">>, 1) = {<<2, "sender">>} /\ Sources(<<2, "srf">>, 2) = {<<2, "rrf">>}
    BY DEF Sources, ConnectsTo, Programs, Phases, Roles
  <1>8. Sources(<<2, "sender">>, 1) = {} /\ Sources(<<2, "sender">>, 2) = {<<2, "srf">>}
    BY DEF Sources, ConnectsTo, Programs, Phases, Roles
  <1> QED BY <1>1, <1>2, <1>3, <1>4, <1>5, <1>6, <1>7, <1>8

\* What the programs of a phase have handed on, one by one.
LEMMA Relays ==
    ASSUME Typed, Supervision
    PROVE  /\ \A j \in Programs : passed[j] \in {0, 1, 2}
           /\ passed[<<1, "receiver">>] = 2 => passed[<<1, "rrf">>] = 2
           /\ passed[<<1, "rrf">>] = 2 => passed[<<1, "srf">>] = 2
           /\ passed[<<1, "srf">>] = 2 => passed[<<1, "sender">>] = 2
           /\ passed[<<2, "sender">>] = 2 => passed[<<2, "srf">>] = 2
           /\ passed[<<2, "srf">>] = 2 => passed[<<2, "rrf">>] = 2
           /\ passed[<<2, "rrf">>] = 2 => passed[<<2, "receiver">>] = 2
           /\ passed[<<2, "receiver">>] >= 1 => passed[<<2, "rrf">>] >= 1
           /\ passed[<<2, "rrf">>] >= 1 => passed[<<2, "srf">>] >= 1
           /\ passed[<<2, "srf">>] >= 1 => passed[<<2, "sender">>] >= 1
  <1>1. \A j \in Programs : passed[j] \in {0, 1, 2}
    BY DEF Typed
  <1>2. /\ {<<1, r>> : r \in Roles} \subseteq Programs
        /\ {<<2, r>> : r \in Roles} \subseteq Programs
    BY DEF Programs, Phases
  <1>3. ASSUME NEW j \in Programs, NEW d \in 1..2, passed[j] >= d, NEW n \in Sources(j, d)
        PROVE  passed[n] >= d
    <2>1. d \in 1..passed[j]
      BY <1>1, <1>3
    <2> QED BY <1>3, <2>1 DEF Supervision, Relayed
  <1>4. 1 \in 1..2 /\ 2 \in 1..2
    OBVIOUS
  <1> USE Route
  <1>5. /\ passed[<<1, "receiver">>] = 2 => passed[<<1, "rrf">>] = 2
        /\ passed[<<1, "rrf">>] = 2 => passed[<<1, "srf">>] = 2
        /\ passed[<<1, "srf">>] = 2 => passed[<<1, "sender">>] = 2
    BY <1>1, <1>2, <1>3, <1>4 DEF Roles
  <1>6. /\ passed[<<2, "sender">>] = 2 => passed[<<2, "srf">>] = 2
        /\ passed[<<2, "srf">>] = 2 => passed[<<2, "rrf">>] = 2
        /\ passed[<<2, "rrf">>] = 2 => passed[<<2, "receiver">>] = 2
    BY <1>1, <1>2, <1>3, <1>4 DEF Roles
  <1>7. /\ passed[<<2, "receiver">>] >= 1 => passed[<<2, "rrf">>] >= 1
        /\ passed[<<2, "rrf">>] >= 1 => passed[<<2, "srf">>] >= 1
        /\ passed[<<2, "srf">>] >= 1 => passed[<<2, "sender">>] >= 1
    BY <1>1, <1>2, <1>3, <1>4 DEF Roles
  <1> QED BY <1>1, <1>5, <1>6, <1>7

\* Where a direction ends, its data have been with everybody.
LEMMA Arrived ==
    ASSUME Typed, Supervision
    PROVE  /\ passed[<<1, "receiver">>] = 2 => 1 \in Delivered
           /\ passed[<<2, "sender">>] = 2 => 2 \in Delivered
           /\ \A r \in Roles : passed[<<2, r>>] = 2 => passed[<<2, "receiver">>] = 2
           /\ place[<<2, "receiver">>] # "off" => 1 \in Delivered
  <1>1. /\ passed[<<1, "receiver">>] = 2 => 1 \in Delivered
        /\ passed[<<2, "sender">>] = 2 => 2 \in Delivered
    BY Relays DEF Delivered, Phases, Roles
  <1>2. \A r \in Roles : passed[<<2, r>>] = 2 => passed[<<2, "receiver">>] = 2
    BY Relays DEF Roles
  <1>3. ASSUME place[<<2, "receiver">>] # "off" PROVE 1 \in Delivered
    <2>1. <<2, "receiver">> \in Programs /\ <<1, "receiver">> \in Programs /\ "B" \in Hosts
      BY DEF Programs, Phases, Roles, Hosts
    <2>2. Host(<<2, "receiver">>) = "B" /\ Host(<<1, "receiver">>) = "B"
      BY DEF Host
    <2>3. ~(2 > phase["B"]) /\ phase["B"] \in {1, 2}
      BY <1>3, <2>1, <2>2 DEF Supervision, Supervised, Typed, Phases
    <2>4. place[<<1, "receiver">>] = "done"
      BY <2>1, <2>2, <2>3 DEF Supervision, Supervised
    <2>5. passed[<<1, "receiver">>] = 2
      BY <2>1, <2>4 DEF Supervision, Relayed
    <2> QED BY <1>1, <2>5
  <1> QED BY <1>1, <1>2, <1>3

\* Whatever the timeouts are, however late a party is started and whichever
\* programs die: a script that has ended has left no program running.  One that
\* reports success has had all four of its programs, of both phases, end well,
\* and the data of the one-way PSI have been with everybody.  If it is Party A's,
\* the slots have been revealed too.  Party B's has only sent them: nothing is
\* acknowledged, and Party A may have failed.
THEOREM VerdictsMean == Spec => []Verdicts
  <1>1. Typed /\ Supervision => Verdicts
    <2> SUFFICES ASSUME Typed, Supervision, NEW h \in Hosts, Over(h)
                 PROVE  /\ \A j \in Programs : Host(j) = h => ~Running(j)
                        /\ script[h] = "ok" =>
                             /\ \A j \in Programs : Host(j) = h => place[j] = "done"
                             /\ (IF h = "A" THEN Phases ELSE {1}) \subseteq Delivered
      BY DEF Verdicts
    <2>1. ASSUME NEW j \in Programs, Host(j) = h
          PROVE  ~Running(j) /\ (script[h] = "ok" => place[j] = "done")
      BY <2>1 DEF Supervision, Supervised, Over, Running
    <2>2. /\ {<<1, r>> : r \in Roles} \subseteq Programs
          /\ {<<2, r>> : r \in Roles} \subseteq Programs
          /\ "receiver" \in Roles /\ "sender" \in Roles
      BY DEF Programs, Phases, Roles
    <2>3. \A j \in Programs : /\ place[j] = "done" => passed[j] = 2
                              /\ place[j] = "off" => passed[j] = 0
      BY DEF Supervision, Relayed
    <2>4. CASE script[h] = "ok" /\ h = "A"
      <3>1. place[<<2, "sender">>] = "done"
        BY <2>1, <2>2, <2>4 DEF Host
      <3>2. passed[<<2, "sender">>] = 2
        BY <2>2, <2>3, <3>1
      <3>3. passed[<<2, "receiver">>] = 2
        BY <2>2, <3>2, Arrived
      <3>4. place[<<2, "receiver">>] # "off"
        BY <2>2, <2>3, <3>3
      <3>5. 1 \in Delivered /\ 2 \in Delivered
        BY <3>2, <3>4, Arrived
      <3> QED BY <2>1, <2>4, <3>5 DEF Phases
    <2>5. CASE script[h] = "ok" /\ h # "A"
      <3>1. h = "B"
        BY <2>5 DEF Hosts
      <3>2. place[<<1, "receiver">>] = "done"
        BY <2>1, <2>2, <2>5, <3>1 DEF Host
      <3>3. 1 \in Delivered
        BY <2>2, <2>3, <3>2, Arrived
      <3> QED BY <2>1, <2>5, <3>3
    <2> QED BY <2>1, <2>4, <2>5
  <1> QED BY <1>1, ScriptsSupervise, PTL

\* No slot is revealed before the data of the one-way PSI have been with
\* everybody: the reveal-back begins with Party B's receiver, which is started
\* only after B's programs of the first phase have returned 0.
THEOREM RevealFollowsPsi ==
    Spec => [](\A r \in Roles : passed[<<2, r>>] = 2 => 1 \in Delivered)
  <1>1. Typed /\ Supervision => \A r \in Roles : passed[<<2, r>>] = 2 => 1 \in Delivered
    <2> SUFFICES ASSUME Typed, Supervision, NEW r \in Roles, passed[<<2, r>>] = 2
                 PROVE  1 \in Delivered
      OBVIOUS
    <2>1. <<2, "receiver">> \in Programs
      BY DEF Programs, Phases, Roles
    <2>2. passed[<<2, "receiver">>] = 2
      BY Arrived
    <2>3. place[<<2, "receiver">>] # "off"
      BY <2>1, <2>2 DEF Supervision, Relayed
    <2> QED BY <2>3, Arrived
  <1> QED BY <1>1, ScriptsSupervise, PTL

-----------------------------------------------------------------------------
(***************************************************************************)
(* Time.                                                                   *)
(***************************************************************************)
\* Moving programs or a script keeps the clocks numbers.
LEMMA TimesStep ==
    ASSUME Typed, TimesTyped, [Next]_vars
    PROVE  TimesTyped'
  <1> USE LaunchTimes
  <1>m. ASSUME NEW new, Move(new) PROVE timer' \in [Programs -> Nat]
    BY <1>m DEF Move, TimesTyped
  <1>s. ASSUME NEW h \in Hosts, NEW s, NEW ph, ScriptTo(h, s, ph)
        PROVE  waited' \in [Hosts -> Nat] /\ UNCHANGED <<delay, clock, crashes>>
    BY <1>s DEF ScriptTo, TimesTyped
  <1>u. timer \in [Programs -> Nat] /\ waited \in [Hosts -> Nat]
    BY DEF TimesTyped
  <1>c. ASSUME timer' \in [Programs -> Nat], waited' \in [Hosts -> Nat],
               UNCHANGED <<delay, clock, crashes>>
        PROVE  TimesTyped'
    BY <1>c DEF TimesTyped
  <1>1. ASSUME NEW j \in Programs, Connect(j) \/ GiveUp(j) \/ EndProgram(j)
        PROVE  TimesTyped'
    <2>1. timer' \in [Programs -> Nat]
      BY <1>1, <1>m DEF Connect, GiveUp, Dies, EndProgram
    <2>2. UNCHANGED <<delay, clock, crashes, waited>>
      BY <1>1 DEF Connect, GiveUp, Dies, EndProgram, Scripts
    <2> QED BY <1>u, <1>c, <2>1, <2>2
  <1>2. ASSUME NEW j \in Programs, Crash(j) PROVE TimesTyped'
    <2>1. timer' \in [Programs -> Nat]
      BY <1>2, <1>m DEF Crash, Dies
    <2>2. UNCHANGED <<delay, clock, waited>>
      BY <1>2 DEF Crash, Dies, Scripts
    <2>3. crashes' \in 0..MaxCrashes
      BY <1>2 DEF Crash, TimesTyped
    <2> QED BY <2>1, <2>2, <2>3 DEF TimesTyped
  <1>3. ASSUME NEW j \in Programs, Pass(j) PROVE TimesTyped'
    <2>1. timer' \in [Programs -> Nat]
      BY <1>3, <1>u DEF Pass
    <2>2. UNCHANGED <<delay, clock, crashes, waited>>
      BY <1>3 DEF Pass, Scripts
    <2> QED BY <1>u, <1>c, <2>1, <2>2
  <1>4. ASSUME NEW h \in Hosts,
               \/ Boot(h) \/ FirstReady(h) \/ SecondReady(h) \/ NotReady(h)
               \/ ChildFailed(h) \/ ChildrenDone(h)
        PROVE  TimesTyped'
    <2>1. \E s, ph : ScriptTo(h, s, ph)
      BY <1>4 DEF Boot, StartPhase, FirstReady, SecondReady, NotReady, ChildFailed,
                  ScriptFails, ChildrenDone
    <2>2. (\E new : Move(new)) \/ timer' = timer
      BY <1>4 DEF Boot, StartPhase, FirstReady, SecondReady, NotReady, ChildFailed,
                  ScriptFails, ChildrenDone, Begin
    <2> QED BY <1>m, <1>s, <1>u, <1>c, <2>1, <2>2
  <1>5. CASE Tick
    <2>1. timer' \in [Programs -> Nat]
      BY <1>5, <1>u DEF Tick
    <2>2. waited' \in [Hosts -> Nat]
      BY <1>5, <1>u DEF Tick
    <2>3. clock' \in 0..MaxDelay
      BY <1>5 DEF Tick, TimesTyped
    <2> QED BY <1>5, <2>1, <2>2, <2>3 DEF Tick, TimesTyped
  <1>6. CASE Finished \/ UNCHANGED vars
    BY <1>6, <1>u, <1>c DEF Finished, vars
  <1> QED BY <1>1, <1>2, <1>3, <1>4, <1>5, <1>6 DEF Next, Progress, Instant

\* Where a host's programs are tells which phase it is in.
LEMMA PhaseOf ==
    ASSUME Typed, Supervision, Timely, NEW j \in Programs
    PROVE  LET h == Host(j) IN
           /\ h \in Hosts /\ phase[h] \in {1, 2} /\ j[1] \in {1, 2}
           /\ place[j] \notin {"off", "done"} => phase[h] = j[1] /\ script[h] # "off"
           /\ place[j] # "off" => phase[h] >= j[1] /\ script[h] # "off"
           /\ j[1] < phase[h] => place[j] = "done" /\ passed[j] = 2
           /\ j[1] > phase[h] \/ script[h] = "off" => place[j] = "off"
  <1>1. Host(j) \in Hosts /\ j[1] \in {1, 2}
    BY Everyone
  <1>2. phase[Host(j)] \in {1, 2}
    BY <1>1 DEF Typed, Phases
  <1> QED BY <1>1, <1>2 DEF Supervision, Supervised, Relayed

\* Once a phase is delivered its programs have met, and have only to end.
LEMMA Everywhere ==
    ASSUME Timely, NEW ph \in Phases, ph \in Delivered, NEW j \in Programs, j[1] = ph
    PROVE  place[j] \in {"talk", "done"} /\ passed[j] = 2
  <1>1. j = <<ph, j[2]>> /\ j[2] \in Roles
    BY Everyone
  <1>2. \A r \in Roles : passed[<<ph, r>>] = 2
    BY DEF Delivered
  <1>3. ~\A r \in Roles : passed[<<ph, r>>] < 2
    BY <1>1, <1>2
  <1>4. \A r \in Roles : place[<<ph, r>>] \in {"talk", "done"}
    BY <1>3 DEF Timely, Chain
  <1> QED BY <1>1, <1>2, <1>4

\* No timeout strikes and nobody notices a failure.
LEMMA NoFailureStep ==
    ASSUME Typed, TimesTyped, Supervision, Tolerable, Timely
    PROVE  /\ \A j \in Programs : ~Expired(j) /\ ~Cut(j)
           /\ \A h \in Hosts : ~NeverSeen(h) /\ ~ChildLost(h)
  <1> USE LaunchTimes
  <1>1. ASSUME NEW j \in Programs PROVE ~Expired(j) /\ ~Cut(j)
    <2>1. ~Cut(j)
      BY DEF Cut, Neighbours, Timely, NothingFails
    <2>2. timer[j] \in Nat
      BY DEF TimesTyped
    <2>3. Running(j) /\ ~Ending(j) => timer[j] < IF place[j] = "connect" THEN Retries ELSE IoTimeout
      BY DEF Timely, Punctual
    <2>4. ~Expired(j)
      BY <2>2, <2>3 DEF Expired, Running, Ending
    <2> QED BY <2>1, <2>4
  <1>2. ASSUME NEW h \in Hosts, NeverSeen(h) PROVE FALSE
    <2>0. phase[h] \in Phases /\ waited[h] \in Nat
      BY DEF Typed, TimesTyped
    <2>1. /\ FirstOf(h, phase[h]) \in Programs /\ SecondOf(h, phase[h]) \in Programs
      BY <2>0, ProgramsOfHost
    <2>2. /\ FirstOf(h, phase[h])[2] # "sender" /\ SecondOf("B", phase[h])[2] # "sender"
      BY DEF FirstOf, SecondOf
    <2>3. CASE script[h] = "ready1"
      <3>1. PICK f \in Programs : f = FirstOf(h, phase[h])
        BY <2>1
      <3>2. f \notin ready /\ (~Running(f) \/ waited[h] >= ReadyTimeout) /\ f[2] # "sender"
        BY <1>2, <2>2, <2>3, <3>1 DEF NeverSeen
      <3>3. place[f] # "off"
        BY <2>3, <3>1 DEF Timely, InStep
      <3>4. place[f] = "connect"
        BY <3>2, <3>3 DEF Timely, Logged
      <3>5. waited[h] <= timer[f] /\ timer[f] < Retries /\ timer[f] \in Nat
        <4>1. waited[h] <= timer[f]
          BY <2>3, <3>1, <3>4 DEF Timely, Patient
        <4>2. Running(f) /\ ~Ending(f)
          BY <3>4 DEF Running, Ending
        <4>3. timer[f] < Retries
          BY <3>4, <4>2 DEF Timely, Punctual
        <4> QED BY <4>1, <4>3 DEF TimesTyped
      <3>6. Running(f)
        BY <3>4 DEF Running
      <3> QED BY <2>0, <3>2, <3>5, <3>6 DEF Tolerable, Ample
    <2>4. CASE script[h] = "ready2"
      <3>1. PICK f \in Programs : f = SecondOf(h, phase[h])
        BY <2>1
      <3>2. h = "B" /\ waited[h] = 0
        BY <2>4 DEF Timely, InStep, Patient
      <3>3. f \notin ready /\ ~Running(f) /\ f[2] # "sender"
        BY <1>2, <2>2, <2>4, <3>1, <3>2 DEF NeverSeen
      <3>4. place[f] # "off"
        BY <2>4, <3>1 DEF Timely, InStep
      <3>5. place[f] = "connect"
        BY <3>3, <3>4 DEF Timely, Logged
      <3> QED BY <3>3, <3>5 DEF Running
    <2> QED BY <1>2, <2>3, <2>4 DEF NeverSeen
  <1>3. ASSUME NEW h \in Hosts, ChildLost(h) PROVE FALSE
    <2>1. Children(h) \subseteq Programs
      BY ProgramsOfHost DEF Children, Typed
    <2>2. script[h] = "wait" /\ waited[h] >= ChildTimeout
      BY <1>3, <2>1 DEF ChildLost, Timely, NothingFails
    <2>3. waited[h] \in Nat /\ waited[h] <= (IF h = "B" THEN IoTimeout - 1 ELSE 0) + MaxLag
      BY <2>2 DEF Timely, Patient, TimesTyped
    <2> QED BY <2>2, <2>3 DEF Tolerable, Ample
  <1> QED BY <1>1, <1>2, <1>3

\* When a tick passes, a phase that has begun and not been delivered waits
\* for Party A to start it (its firewall listens) or for Party B (A's firewall
\* connects).
Spots(ph) ==
    \/ /\ place[<<ph, "receiver">>] = "talk" /\ place[<<ph, "rrf">>] = "accept"
       /\ place[<<ph, "srf">>] = "off" /\ place[<<ph, "sender">>] = "off"
    \/ /\ place[<<ph, "receiver">>] = "off" /\ place[<<ph, "rrf">>] = "off"
       /\ place[<<ph, "srf">>] \in {"off", "connect"} /\ place[<<ph, "sender">>] = "off"

\* If all four programs of a phase have met and nobody can hand on anything, the
\* phase is delivered.
LEMMA NobodyStuck ==
    ASSUME Typed, Supervision, Waiting, NEW ph \in Phases,
           \A r \in Roles : place[<<ph, r>>] \in {"talk", "done"}
    PROVE  ph \in Delivered
  <1>1. \A j \in Programs :
          /\ passed[j] \in {0, 1, 2}
          /\ place[j] = "done" => passed[j] = 2
    BY DEF Typed, Supervision, Relayed
  <1>2. ASSUME NEW j \in Programs, place[j] \in {"talk", "done"}, passed[j] # 2
        PROVE  \E n \in Sources(j, passed[j] + 1) : ~(passed[n] > passed[j])
    BY <1>1, <1>2 DEF Waiting, CanPass
  <1>3. ASSUME NEW j \in Programs, j[1] = ph, NEW d \in {0, 1}, passed[j] = d
        PROVE  \E n \in Sources(j, d + 1) : ~(passed[n] > d)
    BY <1>2, <1>3, Everyone
  <1>4. {<<ph, r>> : r \in Roles} \subseteq Programs /\ ph \in {1, 2}
    BY DEF Programs, Phases
  <1>5. ASSUME NEW r \in Roles, NEW d \in {0, 1}, passed[<<ph, r>>] = d
        PROVE  \E n \in Sources(<<ph, r>>, d + 1) : ~(passed[n] > d)
    <2>1. <<ph, r>> \in Programs /\ <<ph, r>>[1] = ph
      BY <1>4
    <2> QED BY <1>3, <1>5, <2>1
  <1>6. /\ passed[<<ph, "receiver">>] \in {0, 1, 2} /\ passed[<<ph, "rrf">>] \in {0, 1, 2}
        /\ passed[<<ph, "srf">>] \in {0, 1, 2} /\ passed[<<ph, "sender">>] \in {0, 1, 2}
    BY <1>1, <1>4 DEF Roles
  <1>7. CASE ph = 1
    <2>1. /\ passed[<<1, "receiver">>] # 0
          /\ passed[<<1, "rrf">>] = 0 => ~(passed[<<1, "receiver">>] > 0)
          /\ passed[<<1, "srf">>] = 0 => ~(passed[<<1, "rrf">>] > 0)
          /\ passed[<<1, "sender">>] = 0 => ~(passed[<<1, "srf">>] > 0)
      BY <1>5, <1>7, Route DEF Roles
    <2>2. /\ passed[<<1, "sender">>] # 1
          /\ passed[<<1, "srf">>] = 1 => ~(passed[<<1, "sender">>] > 1)
          /\ passed[<<1, "rrf">>] = 1 => ~(passed[<<1, "srf">>] > 1)
          /\ passed[<<1, "receiver">>] = 1 => ~(passed[<<1, "rrf">>] > 1)
      BY <1>5, <1>7, Route DEF Roles
    <2> QED BY <1>6, <1>7, <2>1, <2>2 DEF Delivered, Roles
  <1>8. CASE ph = 2
    <2>1. /\ passed[<<2, "sender">>] # 0
          /\ passed[<<2, "srf">>] = 0 => ~(passed[<<2, "sender">>] > 0)
          /\ passed[<<2, "rrf">>] = 0 => ~(passed[<<2, "srf">>] > 0)
          /\ passed[<<2, "receiver">>] = 0 => ~(passed[<<2, "rrf">>] > 0)
      BY <1>5, <1>8, Route DEF Roles
    <2>2. /\ passed[<<2, "receiver">>] # 1
          /\ passed[<<2, "rrf">>] = 1 => ~(passed[<<2, "receiver">>] > 1)
          /\ passed[<<2, "srf">>] = 1 => ~(passed[<<2, "rrf">>] > 1)
          /\ passed[<<2, "sender">>] = 1 => ~(passed[<<2, "srf">>] > 1)
      BY <1>5, <1>8, Route DEF Roles
    <2> QED BY <1>6, <1>8, <2>1, <2>2 DEF Delivered, Roles
  <1> QED BY <1>4, <1>7, <1>8

LEMMA TickSpots ==
    ASSUME Typed, Supervision, Timely, Waiting, NEW ph \in Phases, ph \notin Delivered
    PROVE  Spots(ph)
  <1> DEFINE r == place[<<ph, "receiver">>]
             f == place[<<ph, "rrf">>]
             g == place[<<ph, "srf">>]
             s == place[<<ph, "sender">>]
  <1>1. \/ r = "off" /\ f = "off" /\ g \in {"off", "connect"} /\ s = "off"
        \/ r = "accept" /\ f \in {"off", "connect"}
        \/ r = "talk" /\ f = "accept" /\ g \in {"off", "connect"} /\ s = "off"
        \/ f = "talk" /\ g = "accept" /\ s \in {"off", "connect"}
        \/ \A q \in Roles : place[<<ph, q>>] \in {"talk", "done"}
    BY DEF Timely, Chain
  <1>2. /\ <<ph, "receiver">> \in Programs /\ <<ph, "rrf">> \in Programs
        /\ <<ph, "srf">> \in Programs /\ <<ph, "sender">> \in Programs
        /\ FirstOf("B", ph) = <<ph, "receiver">> /\ SecondOf("B", ph) = <<ph, "rrf">>
        /\ FirstOf("A", ph) = <<ph, "srf">> /\ SecondOf("A", ph) = <<ph, "sender">>
        /\ Host(<<ph, "receiver">>) = "B" /\ Host(<<ph, "srf">>) = "A"
        /\ ConnectsTo(<<ph, "rrf">>) = <<ph, "receiver">>
        /\ ConnectsTo(<<ph, "srf">>) = <<ph, "rrf">>
        /\ ConnectsTo(<<ph, "sender">>) = <<ph, "srf">>
        /\ <<ph, "receiver">>[1] = ph /\ <<ph, "srf">>[1] = ph
        /\ <<ph, "receiver">>[2] # "sender" /\ <<ph, "srf">>[2] # "sender"
        /\ "A" \in Hosts /\ "B" \in Hosts
    BY Cast DEF Roles, Hosts
  <1>3. ~(f = "connect" /\ r = "accept") /\ ~(g = "connect" /\ f = "accept")
        /\ ~(s = "connect" /\ g = "accept")
    BY <1>2 DEF Waiting, CanConnect
  <1>4. ~(\A q \in Roles : place[<<ph, q>>] \in {"talk", "done"})
    BY NobodyStuck
  <1>5. ~(r = "accept" /\ f = "off")
    <2> SUFFICES ASSUME r = "accept", f = "off" PROVE FALSE
      OBVIOUS
    <2>1. phase["B"] = ph
      BY <1>2, PhaseOf
    <2>2. script["B"] = "ready1"
      BY <1>2, <2>1 DEF Timely, InStep
    <2>3. <<ph, "receiver">> \in ready
      BY <1>2 DEF Timely, Logged
    <2> QED BY <1>2, <2>1, <2>2, <2>3 DEF Waiting, FirstSeen
  <1>6. ~(g = "accept" /\ s = "off")
    <2> SUFFICES ASSUME g = "accept", s = "off" PROVE FALSE
      OBVIOUS
    <2>1. phase["A"] = ph
      BY <1>2, PhaseOf
    <2>2. script["A"] = "ready1"
      BY <1>2, <2>1 DEF Timely, InStep
    <2>3. <<ph, "srf">> \in ready
      BY <1>2 DEF Timely, Logged
    <2> QED BY <1>2, <2>1, <2>2, <2>3 DEF Waiting, FirstSeen
  <1> QED BY <1>1, <1>3, <1>4, <1>5, <1>6 DEF Spots

\* When a tick passes, nobody has begun the second phase before the first one is
\* delivered.
LEMMA TickDelivered ==
    ASSUME Typed, Supervision, Timely, Waiting, NEW j \in Programs, j[1] = 2, place[j] # "off"
    PROVE  1 \in Delivered
  <1> SUFFICES ASSUME 1 \notin Delivered PROVE FALSE
    OBVIOUS
  <1>1. 1 \in Phases
    BY DEF Phases
  <1>2. Spots(1)
    BY <1>1, TickSpots
  <1>3. PICK h \in Hosts : h = Host(j)
    BY Everyone
  <1>4. phase[h] = 2
    BY <1>3, PhaseOf
  <1>5. FirstOf(h, 1) \in Programs /\ Host(FirstOf(h, 1)) = h /\ FirstOf(h, 1)[1] = 1
    BY <1>1, ProgramsOfHost
  <1>6. place[FirstOf(h, 1)] = "done"
    BY <1>4, <1>5, PhaseOf
  <1>7. FirstOf(h, 1) \in {<<1, "receiver">>, <<1, "srf">>}
    BY DEF FirstOf
  <1> QED BY <1>2, <1>6, <1>7 DEF Spots

\* A host whose first program of a phase is off has not begun that phase.
LEMMA NotBegun ==
    ASSUME Typed, Supervision, Timely, NEW h \in Hosts, NEW ph \in Phases,
           place[FirstOf(h, ph)] = "off"
    PROVE  script[h] = "off" \/ ph > phase[h]
  <1>1. /\ FirstOf(h, ph) \in Programs /\ Host(FirstOf(h, ph)) = h /\ FirstOf(h, ph)[1] = ph
    BY ProgramsOfHost
  <1>2. phase[h] \in {1, 2} /\ ph \in {1, 2}
    BY DEF Typed, Phases
  <1>3. ~(ph < phase[h])
    BY <1>1, PhaseOf
  <1>4. ph = phase[h] => script[h] = "off"
    BY DEF Timely, InStep
  <1> QED BY <1>2, <1>3, <1>4

\* When a tick passes, a host that waits for its programs of a delivered phase
\* waits for one that is about to end.
LEMMA StillEnding ==
    ASSUME Typed, Supervision, Timely, Waiting, NEW h \in Hosts,
           phase[h] \in Delivered, script[h] # "ok"
    PROVE  \E i \in Children(h) : Ending(i) /\ i \in Programs /\ i[1] = phase[h]
  <1>0. PICK ph \in Phases : ph = phase[h]
    BY DEF Typed
  <1>1. /\ FirstOf(h, ph) \in Programs /\ SecondOf(h, ph) \in Programs
        /\ FirstOf(h, ph)[1] = ph /\ SecondOf(h, ph)[1] = ph
        /\ FirstOf(h, ph)[2] # "sender" /\ SecondOf("B", ph)[2] # "sender"
    BY ProgramsOfHost DEF FirstOf, SecondOf
  <1>2. PICK p, q : p = FirstOf(h, ph) /\ q = SecondOf(h, ph)
    OBVIOUS
  <1>3. p \in Programs /\ q \in Programs /\ p[1] = ph /\ q[1] = ph /\ Children(h) = {p, q}
    BY <1>0, <1>1, <1>2 DEF Children
  <1>4. /\ place[p] \in {"talk", "done"} /\ place[q] \in {"talk", "done"}
        /\ passed[p] = 2 /\ passed[q] = 2
    BY <1>0, <1>3, Everywhere
  <1>5. CASE place[p] = "talk" \/ place[q] = "talk"
    BY <1>0, <1>3, <1>4, <1>5 DEF Ending
  <1>6. CASE place[p] = "done" /\ place[q] = "done"
    <2>1. script[h] \notin {"off", "ready1", "failed"}
      <3>1. script[h] # "failed"
        BY DEF Timely, NothingFails
      <3>2. Host(p) = h
        BY <1>2, ProgramsOfHost
      <3>3. script[h] # "off"
        BY <1>3, <1>6, <3>2, PhaseOf
      <3>4. script[h] # "ready1"
        BY <1>0, <1>2, <1>6 DEF Timely, InStep
      <3> QED BY <3>1, <3>3, <3>4
    <2>2. script[h] # "wait"
      BY <1>3, <1>6 DEF Waiting, AllReturned
    <2>3. script[h] = "ready2"
      BY <2>1, <2>2 DEF Typed
    <2>4. h = "B"
      BY <2>3 DEF Timely, InStep
    <2>5. q \in ready
      BY <1>1, <1>2, <1>3, <1>6, <2>4 DEF Timely, Logged
    <2> QED BY <1>0, <1>2, <2>3, <2>5 DEF Waiting, SecondSeen
  <1> QED BY <1>4, <1>5, <1>6

\* What a tick changes.
LEMMA TickChanges ==
    ASSUME Typed, TimesTyped, Tick
    PROVE  /\ Waiting /\ UNCHANGED <<delay, script, phase, place, ready, passed, crashes>>
           /\ clock' = IF clock < MaxDelay THEN clock + 1 ELSE clock
           /\ \A j \in Programs : /\ timer[j] \in Nat
                                  /\ timer'[j] = IF Running(j) THEN timer[j] + 1 ELSE timer[j]
                                  /\ Ending(j) => timer[j] < MaxLag
           /\ \A h \in Hosts : /\ waited[h] \in Nat /\ waited'[h] \in Nat
                               /\ waited'[h] <= waited[h] + 1
  <1>1. ASSUME NEW h \in Hosts
        PROVE  waited[h] \in Nat /\ waited'[h] \in Nat /\ waited'[h] <= waited[h] + 1
    <2>1. waited[h] \in Nat
      BY DEF TimesTyped
    <2>2. waited'[h] \in {0, waited[h], waited[h] + 1}
      BY DEF Tick
    <2> QED BY <2>1, <2>2
  <1> QED BY <1>1 DEF Tick, TimesTyped

\* A program of a phase that another host has not begun is not overdue when a
\* tick passes: that host is not started yet, or one of its programs of the
\* earlier phase is about to end.
LEMMA LateTick ==
    ASSUME Typed, TimesTyped, Supervision, Tolerable, Timely, Tick,
           NEW j \in Programs, Running(j), NEW g \in Hosts
    PROVE  /\ script[g] = "off" => /\ timer[j] + 1 + delay[Host(j)] <= delay[g]
                                   /\ clock' = clock + 1
           /\ j[1] > phase[g] /\ script[g] # "off" => timer[j] < MaxLag
  <1> USE LaunchTimes
  <1>0. /\ Waiting /\ timer[j] \in Nat
        /\ \A i \in Programs : Ending(i) => timer[i] < MaxLag /\ timer[i] \in Nat
        /\ clock' = IF clock < MaxDelay THEN clock + 1 ELSE clock
    BY TickChanges
  <1>1. Host(j) \in Hosts /\ j[1] \in {1, 2} /\ phase[g] \in {1, 2}
    BY Everyone DEF Typed, Phases
  <1>2. delay[g] \in 0..MaxDelay /\ delay[Host(j)] \in Nat /\ clock \in Nat
    BY <1>1 DEF TimesTyped
  <1>3. CASE script[g] = "off"
    <2>1. timer[j] + delay[Host(j)] <= clock
      BY <1>3 DEF Timely, Punctual
    <2>2. clock < delay[g]
      BY <1>0, <1>2, <1>3 DEF Waiting, CanBoot
    <2> QED BY <1>0, <1>2, <1>3, <2>1, <2>2
  <1>4. CASE j[1] > phase[g] /\ script[g] # "off"
    <2>1. j[1] = 2 /\ phase[g] = 1 /\ 1 \in Phases
      BY <1>1, <1>4 DEF Phases
    <2>2. place[j] # "off"
      BY DEF Running
    <2>3. 1 \in Delivered
      BY <1>0, <2>1, <2>2, TickDelivered
    <2>4. script[g] # "ok"
      BY <2>1 DEF Timely, InStep
    <2>5. PICK i \in Programs : Ending(i) /\ i[1] = 1
      BY <1>0, <2>1, <2>3, <2>4, StillEnding
    <2>6. timer[j] <= timer[i]
      BY <2>1, <2>5 DEF Timely, Punctual
    <2> QED BY <1>0, <1>3, <2>5, <2>6
  <1> QED BY <1>3, <1>4

\* Nobody is overdue after a tick.
LEMMA TickLimits ==
    ASSUME Typed, TimesTyped, Supervision, Tolerable, Timely, Tick,
           NEW j \in Programs, Running(j), ~Ending(j)
    PROVE  timer[j] + 1 < IF place[j] = "connect" THEN Retries ELSE IoTimeout
  <1> USE LaunchTimes
  <1>1. PICK ph \in Phases : ph = j[1]
    BY Everyone
  <1>2. Waiting /\ timer[j] \in Nat /\ "A" \in Hosts /\ "B" \in Hosts
    BY TickChanges DEF Hosts
  <1>3. CASE ph \in Delivered
    <2>1. place[j] \in {"talk", "done"} /\ passed[j] = 2
      BY <1>1, <1>3, Everywhere
    <2> QED BY <2>1 DEF Running, Ending
  <1>4. CASE ph \notin Delivered
    <2>1. Spots(ph)
      BY <1>2, <1>4, TickSpots
    <2>2. j \in {<<ph, "receiver">>, <<ph, "rrf">>, <<ph, "srf">>, <<ph, "sender">>}
      BY <1>1, Everyone DEF Roles
    <2>3. /\ FirstOf("B", ph) = <<ph, "receiver">> /\ FirstOf("A", ph) = <<ph, "srf">>
          /\ Host(<<ph, "receiver">>) = "B" /\ Host(<<ph, "rrf">>) = "B"
          /\ Host(<<ph, "srf">>) = "A"
      BY Cast
    <2>4. /\ delay["A"] \in Nat /\ delay["B"] \in Nat
          /\ delay["A"] < delay["B"] + IoTimeout /\ delay["B"] < delay["A"] + Retries
          /\ MaxLag < IoTimeout /\ MaxLag < Retries
      BY <1>2 DEF Tolerable, Ample, TimesTyped
    <2>5. CASE /\ place[<<ph, "receiver">>] = "talk" /\ place[<<ph, "rrf">>] = "accept"
               /\ place[<<ph, "srf">>] = "off" /\ place[<<ph, "sender">>] = "off"
      <3>1. j \in {<<ph, "receiver">>, <<ph, "rrf">>}
        BY <2>2, <2>5 DEF Running
      <3>2. Host(j) = "B" /\ place[j] # "connect"
        BY <2>3, <2>5, <3>1
      <3>3. script["A"] = "off" \/ ph > phase["A"]
        BY <1>2, <2>3, <2>5, NotBegun
      <3>4. CASE script["A"] = "off"
        BY <1>2, <2>4, <3>2, <3>4, LateTick
      <3>5. CASE script["A"] # "off"
        BY <1>1, <1>2, <2>4, <3>2, <3>3, <3>5, LateTick
      <3> QED BY <3>4, <3>5
    <2>6. CASE /\ place[<<ph, "receiver">>] = "off" /\ place[<<ph, "rrf">>] = "off"
               /\ place[<<ph, "srf">>] \in {"off", "connect"} /\ place[<<ph, "sender">>] = "off"
      <3>1. j = <<ph, "srf">> /\ place[j] = "connect"
        BY <2>2, <2>6 DEF Running
      <3>2. Host(j) = "A"
        BY <2>3, <3>1
      <3>3. script["B"] = "off" \/ ph > phase["B"]
        BY <1>2, <2>3, <2>6, NotBegun
      <3>4. CASE script["B"] = "off"
        BY <1>2, <2>4, <3>1, <3>2, <3>4, LateTick
      <3>5. CASE script["B"] # "off"
        BY <1>1, <1>2, <2>4, <3>1, <3>2, <3>3, <3>5, LateTick
      <3> QED BY <3>4, <3>5
    <2> QED BY <2>1, <2>5, <2>6 DEF Spots
  <1> QED BY <1>3, <1>4

\* A tick keeps everybody punctual.
LEMMA TickPunctual ==
    ASSUME Typed, TimesTyped, Supervision, Tolerable, Timely, Tick
    PROVE  Punctual'
  <1> USE LaunchTimes
  <1>0. /\ Waiting /\ UNCHANGED <<delay, script, phase, place, ready, passed, crashes>>
        /\ clock' = IF clock < MaxDelay THEN clock + 1 ELSE clock
        /\ \A j \in Programs : /\ timer[j] \in Nat
                               /\ timer'[j] = IF Running(j) THEN timer[j] + 1 ELSE timer[j]
                               /\ Ending(j) => timer[j] < MaxLag
    BY TickChanges
  <1>1. \A j \in Programs : (Running(j)' <=> Running(j)) /\ (Ending(j)' <=> Ending(j))
                            /\ (Ending(j) => Running(j))
    BY <1>0 DEF Running, Ending
  <1>2. ASSUME NEW h \in Hosts
        PROVE  IF script[h] = "off" THEN clock' <= delay[h] ELSE delay[h] <= clock'
    <2>1. IF script[h] = "off" THEN clock <= delay[h] ELSE delay[h] <= clock
      BY DEF Timely, Punctual
    <2>2. clock \in Nat /\ delay[h] \in Nat
      BY DEF TimesTyped
    <2>3. script[h] = "off" => clock < delay[h]
      BY <1>0, <2>2 DEF Waiting, CanBoot
    <2> QED BY <1>0, <2>1, <2>2, <2>3
  <1>3. ASSUME NEW j \in Programs, Running(j)
        PROVE  /\ Ending(j) => timer'[j] <= MaxLag
               /\ ~Ending(j) => timer'[j] < IF place[j] = "connect" THEN Retries ELSE IoTimeout
               /\ \A g \in Hosts : script[g] = "off" => timer'[j] + delay[Host(j)] <= clock'
               /\ j[1] = 2 /\ 1 \notin Delivered => timer'[j] = 0
               /\ \A i \in Programs : Ending(i) /\ j[1] > i[1] => timer'[j] <= timer'[i]
               /\ \A g \in Hosts : j[1] > phase[g] => timer'[j] <= MaxLag
    <2>1. timer'[j] = timer[j] + 1 /\ timer[j] \in Nat
      BY <1>0, <1>3
    <2>2. Ending(j) => timer'[j] <= MaxLag
      BY <1>0, <2>1
    <2>3. ~Ending(j) => timer'[j] < IF place[j] = "connect" THEN Retries ELSE IoTimeout
      BY <1>3, <2>1, TickLimits
    <2>4. ASSUME NEW g \in Hosts, script[g] = "off" PROVE timer'[j] + delay[Host(j)] <= clock'
      <3>1. timer[j] + delay[Host(j)] <= clock
        BY <1>3, <2>4 DEF Timely, Punctual
      <3>2. clock' = clock + 1
        BY <1>3, <2>4, LateTick
      <3>3. clock \in Nat /\ delay[Host(j)] \in Nat
        BY Everyone DEF TimesTyped
      <3> QED BY <2>1, <3>1, <3>2, <3>3
    <2>5. ASSUME NEW i \in Programs, Ending(i), j[1] > i[1] PROVE timer'[j] <= timer'[i]
      <3>1. timer[j] <= timer[i]
        BY <1>3, <2>5 DEF Timely, Punctual
      <3> QED BY <1>0, <1>1, <2>1, <2>5, <3>1
    <2>6. ASSUME NEW g \in Hosts, j[1] > phase[g] PROVE timer'[j] <= MaxLag
      <3>1. CASE script[g] # "off"
        BY <1>3, <2>1, <2>6, <3>1, LateTick
      <3>2. CASE script[g] = "off"
        <4>1. phase[g] = 1 /\ j[1] \in {1, 2}
          BY <3>2, Everyone DEF Timely, InStep
        <4>2. 1 \in Phases
          BY DEF Phases
        <4>3. 1 \in Delivered
          BY <1>0, <1>3, <2>6, <4>1, TickDelivered DEF Running
        <4>4. /\ FirstOf(g, 1) \in Programs /\ FirstOf(g, 1)[1] = 1
              /\ Host(FirstOf(g, 1)) = g
          BY <4>2, ProgramsOfHost
        <4>5. place[FirstOf(g, 1)] \in {"talk", "done"}
          BY <4>2, <4>3, <4>4, Everywhere
        <4> QED BY <3>2, <4>4, <4>5, PhaseOf
      <3> QED BY <3>1, <3>2
    <2>7. j[1] = 2 => 1 \in Delivered
      BY <1>0, <1>3, TickDelivered DEF Running
    <2> QED BY <2>2, <2>3, <2>4, <2>5, <2>6, <2>7
  <1>4. \A h \in Hosts : IF script'[h] = "off" THEN clock' <= delay'[h] ELSE delay'[h] <= clock'
    BY <1>0, <1>2
  <1>5. Delivered' = Delivered
    BY <1>0 DEF Delivered
  <1> QED BY <1>0, <1>1, <1>3, <1>4, <1>5 DEF Punctual

\* A tick does not exhaust the patience of a script.
LEMMA TickPatient ==
    ASSUME Typed, TimesTyped, Supervision, Tolerable, Timely, Tick
    PROVE  \A h \in Hosts : Patient(h)'
  <1> USE LaunchTimes
  <1>0. /\ Waiting /\ UNCHANGED <<delay, script, phase, place, ready, passed, crashes>>
        /\ \A j \in Programs : /\ timer[j] \in Nat
                               /\ timer'[j] = IF Running(j) THEN timer[j] + 1 ELSE timer[j]
                               /\ Ending(j) => timer[j] < MaxLag
        /\ \A h \in Hosts : /\ waited[h] \in Nat /\ waited'[h] \in Nat
                            /\ waited'[h] <= waited[h] + 1
    BY TickChanges
  <1>1. \A j \in Programs : (Running(j)' <=> Running(j)) /\ (Ending(j)' <=> Ending(j))
                            /\ (Ending(j) => Running(j))
    BY <1>0 DEF Running, Ending
  <1>2. ASSUME NEW h \in Hosts
        PROVE  LET first == FirstOf(h, phase[h])
                   allowance == IF h = "B" THEN IoTimeout - 1 ELSE 0
               IN
               /\ script[h] = "ready1" /\ place[first] = "connect" => waited'[h] <= timer'[first]
               /\ script[h] = "ready2" => waited'[h] = 0
               /\ script[h] = "wait" =>
                    /\ phase[h] \notin Delivered => waited'[h] <= allowance
                    /\ waited'[h] <= allowance + MaxLag
                    /\ \A j \in Children(h) :
                         /\ Ending(j) => waited'[h] <= allowance + timer'[j]
                         /\ place[j] = "accept" /\ h = "B" => waited'[h] <= timer'[j]
    <2>0. PICK ph \in Phases : ph = phase[h]
      BY DEF Typed
    <2>1. PICK p, q : p = FirstOf(h, ph) /\ q = SecondOf(h, ph)
      OBVIOUS
    <2>2. /\ p \in Programs /\ q \in Programs /\ p[1] = ph /\ q[1] = ph /\ Children(h) = {p, q}
      BY <2>0, <2>1, ProgramsOfHost DEF Children
    <2>3. /\ h = "B" => p = <<ph, "receiver">> /\ q = <<ph, "rrf">>
          /\ h = "A" => p = <<ph, "srf">> /\ q = <<ph, "sender">>
          /\ h \in {"A", "B"}
      BY <2>1, Cast DEF Hosts
    <2>4. PICK allowance : allowance = IF h = "B" THEN IoTimeout - 1 ELSE 0
      OBVIOUS
    <2>5. allowance \in Nat
      BY <2>4
    <2>6. /\ script[h] # "off" => place[p] # "off"
          /\ script[h] = "ready1" <=> place[p] # "off" /\ place[q] = "off"
          /\ script[h] = "ready2" => h = "B"
      BY <2>0, <2>1 DEF Timely, InStep
    <2>7. script[h] = "ready1" /\ place[p] = "connect" => waited'[h] <= timer'[p]
      <3> SUFFICES ASSUME script[h] = "ready1", place[p] = "connect"
                   PROVE  waited'[h] <= timer'[p]
        OBVIOUS
      <3>1. waited[h] <= timer[p]
        BY <2>0, <2>1 DEF Timely, Patient
      <3>2. Running(p)
        BY DEF Running
      <3> QED BY <1>0, <2>2, <3>1, <3>2
    <2>8. script[h] # "ready2"
      <3> SUFFICES ASSUME script[h] = "ready2" PROVE FALSE
        OBVIOUS
      <3>1. h = "B" /\ place[p] # "off"
        BY <2>6
      <3>2. place[q] \notin {"off", "connect"}
        <4>1. CASE ph \in Delivered
          BY <2>2, <4>1, Everywhere
        <4>2. CASE ph \notin Delivered
          BY <1>0, <2>3, <3>1, <4>2, TickSpots DEF Spots
        <4> QED BY <4>1, <4>2
      <3>3. q[2] # "sender"
        BY <2>3, <3>1
      <3>4. q \in ready
        BY <2>2, <3>2, <3>3 DEF Timely, Logged
      <3> QED BY <1>0, <2>0, <2>1, <3>4 DEF Waiting, SecondSeen
    <2>9. ASSUME script[h] = "wait"
          PROVE  /\ ph \notin Delivered => waited'[h] <= allowance
                 /\ waited'[h] <= allowance + MaxLag
                 /\ \A j \in {p, q} :
                      /\ Ending(j) => waited'[h] <= allowance + timer'[j]
                      /\ place[j] = "accept" /\ h = "B" => waited'[h] <= timer'[j]
      <3>1. \A j \in {p, q} :
              /\ Ending(j) => waited[h] <= allowance + timer[j]
              /\ place[j] = "accept" /\ h = "B" => waited[h] <= timer[j]
        BY <2>2, <2>4, <2>9 DEF Timely, Patient
      <3>2. \A j \in {p, q} :
              /\ Ending(j) => waited'[h] <= allowance + timer'[j]
              /\ place[j] = "accept" /\ h = "B" => waited'[h] <= timer'[j]
        BY <1>0, <1>1, <2>2, <2>5, <3>1 DEF Running
      <3>3. CASE ph \in Delivered
        <4>1. PICK i \in {p, q} : Ending(i)
          BY <1>0, <2>0, <2>2, <2>9, <3>3, StillEnding
        <4>2. timer'[i] <= MaxLag /\ timer'[i] \in Nat
          BY <1>0, <1>1, <2>2, <4>1
        <4> QED BY <1>0, <2>5, <3>2, <3>3, <4>1, <4>2
      <3>4. CASE ph \notin Delivered
        <4>1. Spots(ph)
          BY <1>0, <3>4, TickSpots
        <4>2. place[p] # "off" /\ place[q] # "off"
          BY <2>6, <2>9
        <4>3. h = "B" /\ place[q] = "accept"
          BY <2>3, <4>1, <4>2 DEF Spots
        <4>4. Running(q) /\ ~Ending(q) /\ place[q] # "connect"
          BY <4>3 DEF Running, Ending
        <4>5. timer[q] + 1 < IoTimeout
          BY <2>2, <4>4, TickLimits
        <4>6. waited'[h] <= allowance
          BY <1>0, <2>2, <2>4, <3>1, <4>3, <4>5
        <4> QED BY <1>0, <2>5, <3>2, <4>6
      <3> QED BY <3>3, <3>4
    <2> QED BY <2>0, <2>1, <2>2, <2>4, <2>7, <2>8, <2>9
  <1>3. \A h \in Hosts : Children(h)' = Children(h) /\ Children(h) \subseteq Programs
    BY <1>0, ProgramsOfHost DEF Children, Typed
  <1>4. Delivered' = Delivered
    BY <1>0 DEF Delivered
  <1> QED BY <1>0, <1>1, <1>2, <1>3, <1>4 DEF Patient

\* A tick keeps everything on time.
LEMMA TickTimely ==
    ASSUME Typed, TimesTyped, Supervision, Tolerable, Timely, Tick
    PROVE  Timely'
  <1>1. UNCHANGED <<script, phase, place, ready, passed>>
    BY TickChanges
  <1>2. NothingFails' /\ Logged' /\ (\A h \in Hosts : InStep(h)') /\ (\A ph \in Phases : Chain(ph)')
    BY <1>1 DEF Timely, NothingFails, Logged, InStep, Chain
  <1> QED BY <1>2, TickPunctual, TickPatient DEF Timely

\* What takes no time keeps everybody punctual: a program keeps its timer or
\* starts it again, and is about to end with the timer it had or a new one.
LEMMA InstantPunctual ==
    ASSUME Typed, TimesTyped, Supervision, Supervision', Tolerable, Timely,
           UNCHANGED <<delay, clock>>, Delivered \subseteq Delivered',
           \A j \in Programs : passed[j] = 2 => passed'[j] = 2,
           \A h \in Hosts : /\ script'[h] = "off" => script[h] = "off"
                            /\ script'[h] # "off" => delay[h] <= clock
                            /\ phase[h] \in {1, 2} /\ phase'[h] \in {1, 2}
                            /\ phase'[h] >= phase[h],
           \A j \in Programs : (place'[j] = place[j] /\ timer'[j] = timer[j]) \/ timer'[j] = 0,
           \A j \in Programs : Ending(j)' =>
               \/ Ending(j) /\ timer'[j] = timer[j]
               \/ j[1] \notin Delivered /\ timer'[j] = 0
    PROVE  Punctual'
  <1> USE LaunchTimes
  <1>1. \A h \in Hosts : IF script'[h] = "off" THEN clock' <= delay'[h] ELSE delay'[h] <= clock'
    BY DEF Timely, Punctual
  <1>2. ASSUME NEW j \in Programs, Running(j)'
        PROVE  /\ Ending(j)' => timer'[j] <= MaxLag
               /\ ~Ending(j)' => timer'[j] < IF place'[j] = "connect" THEN Retries ELSE IoTimeout
               /\ \A g \in Hosts : script'[g] = "off" => timer'[j] + delay[Host(j)] <= clock
               /\ j[1] = 2 /\ 1 \notin Delivered' => timer'[j] = 0
               /\ \A i \in Programs : Ending(i)' /\ j[1] > i[1] => timer'[j] <= timer'[i]
               /\ \A g \in Hosts : j[1] > phase'[g] => timer'[j] <= MaxLag
    <2>0. /\ timer[j] \in Nat /\ Host(j) \in Hosts /\ j[1] \in {1, 2}
          /\ delay[Host(j)] \in Nat /\ clock \in Nat
      BY Everyone DEF TimesTyped
    <2>1. delay[Host(j)] <= clock
      <3>1. script'[Host(j)] # "off"
        BY <1>2, <2>0 DEF Supervision, Supervised, Running
      <3> QED BY <2>0, <3>1
    <2>2. CASE place'[j] = place[j] /\ timer'[j] = timer[j]
      <3>1. Running(j)
        BY <1>2, <2>2 DEF Running
      <3>2. ~Ending(j)' => ~Ending(j)
        BY <2>2 DEF Ending
      <3>3. /\ Ending(j) => timer[j] <= MaxLag
            /\ ~Ending(j) => timer[j] < IF place[j] = "connect" THEN Retries ELSE IoTimeout
            /\ \A g \in Hosts : script[g] = "off" => timer[j] + delay[Host(j)] <= clock
            /\ j[1] = 2 /\ 1 \notin Delivered => timer[j] = 0
            /\ \A i \in Programs : Ending(i) /\ j[1] > i[1] => timer[j] <= timer[i]
            /\ \A g \in Hosts : j[1] > phase[g] => timer[j] <= MaxLag
        BY <3>1 DEF Timely, Punctual
      <3>4. Ending(j)' => timer'[j] <= MaxLag
        BY <2>0, <2>2, <3>3
      <3>5. ~Ending(j)' => timer'[j] < IF place'[j] = "connect" THEN Retries ELSE IoTimeout
        BY <2>2, <3>2, <3>3
      <3>6. \A g \in Hosts : script'[g] = "off" => timer'[j] + delay[Host(j)] <= clock
        BY <2>2, <3>3
      <3>7. ASSUME NEW i \in Programs, Ending(i)', j[1] > i[1] PROVE timer'[j] <= timer'[i]
        <4>1. CASE Ending(i) /\ timer'[i] = timer[i]
          BY <2>2, <3>3, <3>7, <4>1
        <4>2. CASE i[1] \notin Delivered /\ timer'[i] = 0
          <5>1. i[1] = 1 /\ j[1] = 2
            BY <2>0, <3>7, Everyone
          <5> QED BY <2>2, <3>3, <4>2, <5>1
        <4> QED BY <3>7, <4>1, <4>2
      <3>8. \A g \in Hosts : j[1] > phase'[g] => timer'[j] <= MaxLag
        BY <2>0, <2>2, <3>3
      <3>9. j[1] = 2 /\ 1 \notin Delivered' => timer'[j] = 0
        BY <2>2, <3>3
      <3> QED BY <3>4, <3>5, <3>6, <3>7, <3>8, <3>9
    <2>3. CASE timer'[j] = 0
      <3>1. ASSUME NEW i \in Programs, Ending(i)' PROVE timer'[i] \in Nat
        BY <3>1 DEF TimesTyped
      <3> QED BY <2>0, <2>1, <2>3, <3>1
    <2> QED BY <2>2, <2>3
  <1> QED BY <1>1, <1>2 DEF Punctual

\* A host whose script does not move stays in step and patient.
LEMMA OthersSteps ==
    ASSUME Typed, TimesTyped, Timely, NEW h \in Hosts,
           script'[h] = script[h], phase'[h] = phase[h], waited'[h] = waited[h],
           Delivered \subseteq Delivered',
           \A j \in Programs : Host(j) = h =>
             /\ place'[j] = "off" <=> place[j] = "off"
             /\ place'[j] = "connect" => place[j] = "connect" /\ timer'[j] = timer[j]
             /\ place'[j] = "accept" =>
                  (place[j] = "accept" /\ timer'[j] = timer[j]) \/ place[j] = "connect"
             /\ Ending(j)' => (Ending(j) /\ timer'[j] = timer[j])
                              \/ (j[1] \notin Delivered /\ timer'[j] = 0)
    PROVE  InStep(h)' /\ Patient(h)'
  <1> USE LaunchTimes
  <1>0. PICK ph \in Phases : ph = phase[h]
    BY DEF Typed
  <1>1. PICK p, q : p = FirstOf(h, ph) /\ q = SecondOf(h, ph)
    OBVIOUS
  <1>2. /\ p \in Programs /\ q \in Programs /\ Host(p) = h /\ Host(q) = h
        /\ p[1] = ph /\ q[1] = ph
    BY <1>1, ProgramsOfHost
  <1>3. Children(h) = {p, q} /\ Children(h)' = {p, q}
    BY <1>0, <1>1 DEF Children
  <1>4. InStep(h) /\ Patient(h)
    BY DEF Timely
  <1>5. InStep(h)'
    <2>1. /\ place'[p] = "off" <=> place[p] = "off"
          /\ place'[q] = "off" <=> place[q] = "off"
          /\ place'[q] = "connect" => place[q] = "connect"
      BY <1>2
    <2> QED BY <1>0, <1>1, <1>4, <2>1 DEF InStep
  <1>6. PICK allowance : allowance = IF h = "B" THEN IoTimeout - 1 ELSE 0
    OBVIOUS
  <1>7. /\ script[h] = "ready1" /\ place'[p] = "connect" => waited[h] <= timer'[p]
        /\ script[h] = "ready2" => waited[h] = 0
    BY <1>0, <1>1, <1>2, <1>4 DEF Patient
  <1>8. ASSUME script[h] = "wait"
        PROVE  /\ ph \notin Delivered' => waited[h] <= allowance
               /\ waited[h] <= allowance + MaxLag
               /\ \A j \in {p, q} :
                    /\ Ending(j)' => waited[h] <= allowance + timer'[j]
                    /\ place'[j] = "accept" /\ h = "B" => waited[h] <= timer'[j]
    <2>1. /\ ph \notin Delivered => waited[h] <= allowance
          /\ waited[h] <= allowance + MaxLag
          /\ \A j \in {p, q} :
               /\ Ending(j) => waited[h] <= allowance + timer[j]
               /\ place[j] = "accept" /\ h = "B" => waited[h] <= timer[j]
      BY <1>0, <1>3, <1>4, <1>6, <1>8 DEF Patient
    <2>2. waited[h] \in Nat /\ allowance \in Nat
      BY <1>6 DEF TimesTyped
    <2>3. h = "B" => place[p] # "connect" /\ place[q] # "connect"
      <3>1. h = "B" => place[q] # "connect"
        BY <1>0, <1>1, <1>4, <1>8 DEF InStep
      <3>2. h = "B" => p[2] = "receiver"
        BY <1>1 DEF FirstOf
      <3> QED BY <1>2, <3>1, <3>2 DEF Typed
    <2>4. ASSUME NEW j \in {p, q}, Ending(j)' PROVE waited[h] <= allowance + timer'[j]
      <3>1. CASE Ending(j) /\ timer'[j] = timer[j]
        BY <2>1, <3>1
      <3>2. CASE j[1] \notin Delivered /\ timer'[j] = 0
        BY <1>2, <2>1, <2>2, <3>2
      <3> QED BY <1>2, <2>4, <3>1, <3>2
    <2>5. ASSUME NEW j \in {p, q}, place'[j] = "accept", h = "B" PROVE waited[h] <= timer'[j]
      BY <1>2, <2>1, <2>3, <2>5
    <2> QED BY <2>1, <2>4, <2>5
  <1>9. Patient(h)'
    BY <1>0, <1>1, <1>3, <1>6, <1>7, <1>8 DEF Patient
  <1> QED BY <1>5, <1>9

\* Two programs meet.
LEMMA ConnectTimely ==
    ASSUME Typed, TimesTyped, Supervision, Supervision', Tolerable, Timely,
           NEW j \in Programs, Connect(j)
    PROVE  Timely'
  <1> USE LaunchTimes
  <1>1. PICK ph \in Phases : ph = j[1]
    BY Everyone
  <1>2. PICK i : i = ConnectsTo(j)
    OBVIOUS
  <1>3. /\ place[j] = "connect" /\ place[i] = "accept"
        /\ UNCHANGED <<delay, clock, script, phase, waited, passed>>
        /\ ready' = IF j[2] # "sender" THEN ready \cup {j} ELSE ready
    BY <1>2 DEF Connect, CanConnect, Scripts
  <1>4. /\ j = <<ph, j[2]>> /\ j[2] \in {"rrf", "srf", "sender"}
        /\ j[2] = "rrf" => i = <<ph, "receiver">>
        /\ j[2] = "srf" => i = <<ph, "rrf">>
        /\ j[2] = "sender" => i = <<ph, "srf">>
        /\ i \in Programs /\ i # j /\ i[1] = ph /\ i[2] # "sender"
    <2>1. j[2] # "receiver"
      BY <1>3 DEF Typed
    <2>2. j = <<ph, j[2]>> /\ j[2] \in Roles
      BY <1>1, Everyone
    <2>3. j[2] \in {"rrf", "srf", "sender"}
      BY <2>1, <2>2 DEF Roles
    <2>4. /\ <<ph, "receiver">> \in Programs /\ <<ph, "rrf">> \in Programs
          /\ <<ph, "srf">> \in Programs
          /\ ConnectsTo(<<ph, "rrf">>) = <<ph, "receiver">>
          /\ ConnectsTo(<<ph, "srf">>) = <<ph, "rrf">>
          /\ ConnectsTo(<<ph, "sender">>) = <<ph, "srf">>
      BY Cast
    <2>5. CASE j[2] = "rrf"
      <3>1. i = <<ph, "receiver">>
        BY <1>2, <2>2, <2>4, <2>5
      <3> QED BY <2>2, <2>3, <2>4, <2>5, <3>1
    <2>6. CASE j[2] = "srf"
      <3>1. i = <<ph, "rrf">>
        BY <1>2, <2>2, <2>4, <2>6
      <3> QED BY <2>2, <2>3, <2>4, <2>6, <3>1
    <2>7. CASE j[2] = "sender"
      <3>1. i = <<ph, "srf">>
        BY <1>2, <2>2, <2>4, <2>7
      <3> QED BY <2>2, <2>3, <2>4, <2>7, <3>1
    <2> QED BY <2>3, <2>5, <2>6, <2>7
  <1>5. \A k \in Programs :
          /\ place'[k] = IF k = j THEN IF j[2] # "sender" THEN "accept" ELSE "talk"
                         ELSE IF k = i THEN "talk" ELSE place[k]
          /\ timer'[k] = IF k \in {i, j} THEN 0 ELSE timer[k]
    BY <1>2, <1>4 DEF Connect, Move
  <1>6. \A k \in Programs : k[1] = ph => passed[k] < 2
    <2>1. j[2] \in Roles /\ place[<<ph, j[2]>>] = "connect"
      BY <1>3, <1>4, Everyone
    <2>2. \A r \in Roles : passed[<<ph, r>>] < 2
      BY <2>1 DEF Timely, Chain
    <2> QED BY <2>2, Everyone
  <1>7. NothingFails'
    BY <1>3, <1>5 DEF Timely, NothingFails
  <1>8. Logged'
    BY <1>3, <1>4, <1>5 DEF Timely, Logged
  <1>9. ASSUME NEW x \in Phases PROVE Chain(x)'
    <2>0. /\ <<x, "receiver">> \in Programs /\ <<x, "rrf">> \in Programs
          /\ <<x, "srf">> \in Programs /\ <<x, "sender">> \in Programs
          /\ Chain(x)
      BY Cast DEF Timely
    <2>1. CASE x # ph
      <3>1. ASSUME NEW r \in Roles
            PROVE  <<x, r>> \in Programs /\ place'[<<x, r>>] = place[<<x, r>>]
        <4>1. PICK k : k = <<x, r>>
          OBVIOUS
        <4>2. k \in Programs /\ k[1] = x
          BY <4>1 DEF Programs
        <4>3. k # i /\ k # j
          BY <1>1, <1>4, <2>1, <4>2
        <4> QED BY <1>5, <4>1, <4>2, <4>3
      <3> QED BY <1>3, <2>0, <3>1 DEF Chain, Roles
    <2>2. CASE x = ph
      <3>1. CASE j[2] = "rrf"
        BY <1>3, <1>4, <1>5, <2>0, <2>2, <3>1 DEF Chain, Roles
      <3>2. CASE j[2] = "srf"
        BY <1>3, <1>4, <1>5, <2>0, <2>2, <3>2 DEF Chain, Roles
      <3>3. CASE j[2] = "sender"
        BY <1>3, <1>4, <1>5, <2>0, <2>2, <3>3 DEF Chain, Roles
      <3> QED BY <1>4, <3>1, <3>2, <3>3
    <2> QED BY <2>1, <2>2
  <1>10. \A k \in Programs : Ending(k)' => Ending(k) /\ timer'[k] = timer[k]
    <2> SUFFICES ASSUME NEW k \in Programs, Ending(k)' PROVE Ending(k) /\ timer'[k] = timer[k]
      OBVIOUS
    <2>1. place'[k] = "talk" /\ passed[k] = 2
      BY <1>3 DEF Ending
    <2>2. k \notin {i, j}
      BY <1>1, <1>4, <1>6, <2>1
    <2> QED BY <1>5, <2>1, <2>2 DEF Ending
  <1>11. Punctual'
    <2>1. \A h \in Hosts : /\ script'[h] = "off" => script[h] = "off"
                           /\ script'[h] # "off" => delay[h] <= clock
                           /\ phase[h] \in {1, 2} /\ phase'[h] \in {1, 2}
                           /\ phase'[h] >= phase[h]
      BY <1>3 DEF Timely, Punctual, Typed, Phases
    <2>2. \A k \in Programs : (place'[k] = place[k] /\ timer'[k] = timer[k]) \/ timer'[k] = 0
      BY <1>5
    <2>3. /\ Delivered \subseteq Delivered' /\ UNCHANGED <<delay, clock>>
          /\ \A k \in Programs : passed[k] = 2 => passed'[k] = 2
      BY <1>3 DEF Delivered
    <2> QED BY <1>10, <2>1, <2>2, <2>3, InstantPunctual
  <1>12. ASSUME NEW h \in Hosts PROVE InStep(h)' /\ Patient(h)'
    <2>1. \A k \in Programs : Host(k) = h =>
             /\ place'[k] = "off" <=> place[k] = "off"
             /\ place'[k] = "connect" => place[k] = "connect" /\ timer'[k] = timer[k]
             /\ place'[k] = "accept" =>
                  (place[k] = "accept" /\ timer'[k] = timer[k]) \/ place[k] = "connect"
             /\ Ending(k)' => (Ending(k) /\ timer'[k] = timer[k])
                              \/ (k[1] \notin Delivered /\ timer'[k] = 0)
      BY <1>3, <1>5, <1>10
    <2>2. /\ script'[h] = script[h] /\ phase'[h] = phase[h] /\ waited'[h] = waited[h]
          /\ Delivered \subseteq Delivered'
      BY <1>3 DEF Delivered
    <2> QED BY <2>1, <2>2, OthersSteps
  <1> QED BY <1>7, <1>8, <1>9, <1>11, <1>12 DEF Timely

\* Data are handed on, or a program ends after that.
LEMMA PassTimely ==
    ASSUME Typed, TimesTyped, Supervision, Supervision', Tolerable, Timely,
           NEW j \in Programs, Pass(j)
    PROVE  Timely'
  <1> USE LaunchTimes
  <1>1. /\ place[j] = "talk" /\ passed[j] < 2
        /\ \A n \in Sources(j, passed[j] + 1) : passed[n] > passed[j]
        /\ UNCHANGED <<delay, clock, script, phase, waited, place, ready>>
    BY DEF Pass, CanPass, Scripts
  <1>2. /\ \A k \in Programs : passed'[k] = IF k = j THEN passed[j] + 1 ELSE passed[k]
        /\ \A k \in Programs : timer'[k] = IF k = j THEN 0 ELSE timer[k]
        /\ \A k \in Programs : passed[k] \in {0, 1, 2}
    BY DEF Pass, Typed, TimesTyped
  <1>3. PICK ph \in Phases : ph = j[1]
    BY Everyone
  <1>4. j = <<ph, j[2]>> /\ j[2] \in Roles /\ ph \in {1, 2}
    BY <1>3, Everyone DEF Phases
  <1>5. ph \notin Delivered
    BY <1>1, <1>4 DEF Delivered
  <1>6. /\ Delivered \subseteq Delivered'
        /\ \A k \in Programs : passed[k] = 2 => passed'[k] = 2
    <2>1. \A k \in Programs : passed[k] = 2 => passed'[k] = 2
      BY <1>1, <1>2
    <2>2. \A x \in Phases : \A r \in Roles : <<x, r>> \in Programs
      BY DEF Programs
    <2> QED BY <2>1, <2>2 DEF Delivered
  <1>7. NothingFails' /\ Logged'
    BY <1>1 DEF Timely, NothingFails, Logged
  <1>8. ASSUME NEW x \in Phases PROVE Chain(x)'
    <2>0. Chain(x) /\ \A r \in Roles : <<x, r>> \in Programs /\ <<x, r>>[1] = x
      BY Cast DEF Timely
    <2>1. CASE \A r \in Roles : place[<<x, r>>] \in {"talk", "done"}
      BY <1>1, <2>1 DEF Chain
    <2>2. CASE x # ph
      <3>1. \A r \in Roles : passed'[<<x, r>>] = passed[<<x, r>>]
        BY <1>2, <1>3, <2>0, <2>2
      <3> QED BY <1>1, <2>0, <3>1 DEF Chain
    <2>3. CASE x = ph /\ ~\A r \in Roles : place[<<x, r>>] \in {"talk", "done"}
      <3>1. /\ \A r \in Roles : passed[<<ph, r>>] < 2
            /\ place[<<ph, "srf">>] # "talk" /\ place[<<ph, "sender">>] \in {"off", "connect"}
        BY <2>0, <2>3 DEF Chain
      <3>2. j[2] \in {"receiver", "rrf"}
        BY <1>1, <1>4, <3>1 DEF Roles
      <3>3. passed[<<ph, "sender">>] = 0
        BY <2>0, <2>3, <3>1 DEF Supervision, Relayed, Roles
      <3>4. passed[j] # 1
        <4> SUFFICES ASSUME passed[j] = 1 PROVE FALSE
          OBVIOUS
        <4>1. \A n \in Sources(j, 2) : passed[n] > 1
          BY <1>1
        <4>2. CASE ph = 1
          <5>1. passed[<<1, "rrf">>] > 1 \/ passed[<<1, "srf">>] > 1
            BY <1>4, <3>2, <4>1, <4>2, Route
          <5>2. passed[<<1, "rrf">>] \in {0, 1} /\ passed[<<1, "srf">>] \in {0, 1}
            BY <1>2, <2>0, <2>3, <3>1, <4>2 DEF Roles
          <5> QED BY <5>1, <5>2
        <4>3. CASE ph = 2
          <5>1. passed[<<2, "receiver">>] >= 1 \/ passed[<<2, "rrf">>] >= 1
            BY <1>4, <3>2, <4>3
          <5> QED BY <3>3, <4>3, <5>1, Relays
        <4> QED BY <1>4, <4>2, <4>3
      <3>5. passed'[j] = 1
        BY <1>1, <1>2, <3>4
      <3>6. \A r \in Roles : passed'[<<ph, r>>] < 2
        BY <1>2, <2>0, <2>3, <3>1, <3>5
      <3> QED BY <1>1, <2>0, <2>3, <3>6 DEF Chain
    <2> QED BY <2>1, <2>2, <2>3
  <1>9. \A k \in Programs : Ending(k)' =>
          \/ Ending(k) /\ timer'[k] = timer[k]
          \/ k[1] \notin Delivered /\ timer'[k] = 0
    BY <1>1, <1>2, <1>3, <1>5 DEF Ending
  <1>10. Punctual'
    <2>1. \A h \in Hosts : /\ script'[h] = "off" => script[h] = "off"
                           /\ script'[h] # "off" => delay[h] <= clock
                           /\ phase[h] \in {1, 2} /\ phase'[h] \in {1, 2}
                           /\ phase'[h] >= phase[h]
      BY <1>1 DEF Timely, Punctual, Typed, Phases
    <2>2. \A k \in Programs : (place'[k] = place[k] /\ timer'[k] = timer[k]) \/ timer'[k] = 0
      BY <1>1, <1>2
    <2>3. UNCHANGED <<delay, clock>>
      BY <1>1
    <2> QED BY <1>6, <1>9, <2>1, <2>2, <2>3, InstantPunctual
  <1>11. ASSUME NEW h \in Hosts PROVE InStep(h)' /\ Patient(h)'
    <2>1. \A k \in Programs : Host(k) = h =>
             /\ place'[k] = "off" <=> place[k] = "off"
             /\ place'[k] = "connect" => place[k] = "connect" /\ timer'[k] = timer[k]
             /\ place'[k] = "accept" =>
                  (place[k] = "accept" /\ timer'[k] = timer[k]) \/ place[k] = "connect"
             /\ Ending(k)' => (Ending(k) /\ timer'[k] = timer[k])
                              \/ (k[1] \notin Delivered /\ timer'[k] = 0)
      BY <1>1, <1>2, <1>9
    <2>2. script'[h] = script[h] /\ phase'[h] = phase[h] /\ waited'[h] = waited[h]
      BY <1>1
    <2> QED BY <1>6, <2>1, <2>2, OthersSteps
  <1> QED BY <1>7, <1>8, <1>10, <1>11 DEF Timely

LEMMA EndTimely ==
    ASSUME Typed, TimesTyped, Supervision, Supervision', Tolerable, Timely,
           NEW j \in Programs, EndProgram(j)
    PROVE  Timely'
  <1> USE LaunchTimes
  <1>1. /\ place[j] = "talk" /\ passed[j] = 2
        /\ UNCHANGED <<delay, clock, script, phase, waited, passed, ready>>
        /\ \A k \in Programs : /\ place'[k] = IF k = j THEN "done" ELSE place[k]
                               /\ timer'[k] = IF k = j THEN 0 ELSE timer[k]
    BY DEF EndProgram, Move, Scripts
  <1>2. NothingFails' /\ Logged'
    BY <1>1 DEF Timely, NothingFails, Logged
  <1>3. ASSUME NEW x \in Phases PROVE Chain(x)'
    <2>1. Chain(x) /\ \A r \in Roles : <<x, r>> \in Programs /\ <<x, r>>[1] = x
      BY Cast DEF Timely
    <2>2. CASE x = j[1]
      <3>1. j = <<x, j[2]>> /\ j[2] \in Roles
        BY <2>2, Everyone
      <3>2. \A r \in Roles : place[<<x, r>>] \in {"talk", "done"}
        BY <1>1, <2>1, <3>1 DEF Chain
      <3> QED BY <1>1, <2>1, <3>2 DEF Chain
    <2>3. CASE x # j[1]
      <3>1. \A r \in Roles : place'[<<x, r>>] = place[<<x, r>>]
        BY <1>1, <2>1, <2>3
      <3> QED BY <1>1, <2>1, <3>1 DEF Chain, Roles
    <2> QED BY <2>2, <2>3
  <1>4. \A k \in Programs : Ending(k)' => Ending(k) /\ timer'[k] = timer[k]
    BY <1>1 DEF Ending
  <1>5. Punctual'
    <2>1. \A h \in Hosts : /\ script'[h] = "off" => script[h] = "off"
                           /\ script'[h] # "off" => delay[h] <= clock
                           /\ phase[h] \in {1, 2} /\ phase'[h] \in {1, 2}
                           /\ phase'[h] >= phase[h]
      BY <1>1 DEF Timely, Punctual, Typed, Phases
    <2>2. \A k \in Programs : (place'[k] = place[k] /\ timer'[k] = timer[k]) \/ timer'[k] = 0
      BY <1>1
    <2>3. /\ Delivered \subseteq Delivered' /\ UNCHANGED <<delay, clock>>
          /\ \A k \in Programs : passed[k] = 2 => passed'[k] = 2
      BY <1>1 DEF Delivered
    <2> QED BY <1>4, <2>1, <2>2, <2>3, InstantPunctual
  <1>6. ASSUME NEW h \in Hosts PROVE InStep(h)' /\ Patient(h)'
    <2>1. \A k \in Programs : Host(k) = h =>
             /\ place'[k] = "off" <=> place[k] = "off"
             /\ place'[k] = "connect" => place[k] = "connect" /\ timer'[k] = timer[k]
             /\ place'[k] = "accept" =>
                  (place[k] = "accept" /\ timer'[k] = timer[k]) \/ place[k] = "connect"
             /\ Ending(k)' => (Ending(k) /\ timer'[k] = timer[k])
                              \/ (k[1] \notin Delivered /\ timer'[k] = 0)
      BY <1>1, <1>4
    <2>2. /\ script'[h] = script[h] /\ phase'[h] = phase[h] /\ waited'[h] = waited[h]
          /\ Delivered \subseteq Delivered'
      BY <1>1 DEF Delivered
    <2> QED BY <2>1, <2>2, OthersSteps
  <1> QED BY <1>2, <1>3, <1>5, <1>6 DEF Timely

\* A program is started in its turn.
LEMMA BeginChain ==
    ASSUME Typed, Timely, NEW i \in Programs, Begin(i), place[i] = "off",
           passed' = passed,
           i[2] = "rrf" => place[<<i[1], "receiver">>] # "off",
           i[2] = "sender" => place[<<i[1], "srf">>] = "accept"
    PROVE  /\ Logged' /\ \A x \in Phases : Chain(x)'
           /\ \A j \in Programs :
                \/ place'[j] = place[j] /\ timer'[j] = timer[j]
                \/ j = i /\ timer'[j] = 0 /\ place'[j] \in {"accept", "connect"}
           /\ place'[i] # "off"
  <1>1. PICK ph \in Phases : ph = i[1]
    BY Everyone
  <1>2. \A j \in Programs :
          /\ place'[j] = IF j = i THEN IF i[2] = "receiver" THEN "accept" ELSE "connect"
                         ELSE place[j]
          /\ timer'[j] = IF j = i THEN 0 ELSE timer[j]
    BY DEF Begin, Move
  <1>3. ready' = IF i[2] = "receiver" THEN ready \cup {i} ELSE ready
    BY DEF Begin
  <1>4. Logged'
    BY <1>2, <1>3 DEF Timely, Logged
  <1>5. i = <<ph, i[2]>> /\ i[2] \in Roles
    BY <1>1, Everyone
  <1>6. ASSUME NEW x \in Phases PROVE Chain(x)'
    <2>0. /\ <<x, "receiver">> \in Programs /\ <<x, "rrf">> \in Programs
          /\ <<x, "srf">> \in Programs /\ <<x, "sender">> \in Programs
          /\ Chain(x)
      BY Cast DEF Timely
    <2>1. CASE x # ph
      <3>1. ASSUME NEW r \in Roles
            PROVE  <<x, r>> \in Programs /\ place'[<<x, r>>] = place[<<x, r>>]
        <4>1. PICK k : k = <<x, r>>
          OBVIOUS
        <4>2. k \in Programs /\ k[1] = x
          BY <4>1 DEF Programs
        <4>3. k # i
          BY <1>1, <2>1, <4>2
        <4> QED BY <1>2, <4>1, <4>2, <4>3
      <3> QED BY <2>0, <3>1 DEF Chain, Roles
    <2>2. CASE x = ph
      <3>1. ~\A r \in Roles : place[<<ph, r>>] \in {"talk", "done"}
        BY <1>5
      <3>2. CASE i[2] = "receiver"
        BY <1>1, <1>2, <1>5, <2>0, <2>2, <3>1, <3>2 DEF Chain
      <3>3. CASE i[2] = "rrf"
        BY <1>1, <1>2, <1>5, <2>0, <2>2, <3>1, <3>3 DEF Chain
      <3>4. CASE i[2] = "srf"
        BY <1>1, <1>2, <1>5, <2>0, <2>2, <3>1, <3>4 DEF Chain
      <3>5. CASE i[2] = "sender"
        BY <1>1, <1>2, <1>5, <2>0, <2>2, <3>1, <3>5 DEF Chain
      <3> QED BY <1>5, <3>2, <3>3, <3>4, <3>5 DEF Roles
    <2> QED BY <2>1, <2>2
  <1>7. /\ \A j \in Programs :
             \/ place'[j] = place[j] /\ timer'[j] = timer[j]
             \/ j = i /\ timer'[j] = 0 /\ place'[j] \in {"accept", "connect"}
        /\ place'[i] # "off"
    BY <1>2
  <1> QED BY <1>4, <1>6, <1>7

\* A script goes on, and may start a program.
LEMMA ScriptTimely ==
    ASSUME Typed, TimesTyped, TimesTyped', Supervision, Supervision', Tolerable, Timely,
           NEW h \in Hosts, NEW s \in {"ready1", "ready2", "wait", "ok"}, NEW ph \in Phases,
           ScriptTo(h, s, ph), ph >= phase[h], delay[h] <= clock,
           \A j \in Programs :
             \/ place'[j] = place[j] /\ timer'[j] = timer[j]
             \/ Host(j) = h /\ timer'[j] = 0 /\ place'[j] \in {"accept", "connect"},
           InStep(h)', Logged', \A x \in Phases : Chain(x)'
    PROVE  Timely'
  <1> USE LaunchTimes
  <1>1. /\ script' = [script EXCEPT ![h] = s] /\ phase' = [phase EXCEPT ![h] = ph]
        /\ waited' = [waited EXCEPT ![h] = 0] /\ UNCHANGED <<delay, clock, passed, crashes>>
    BY DEF ScriptTo
  <1>2. /\ script'[h] = s /\ phase'[h] = ph /\ waited'[h] = 0
        /\ \A g \in Hosts : g # h =>
             script'[g] = script[g] /\ phase'[g] = phase[g] /\ waited'[g] = waited[g]
    BY <1>1 DEF Typed, TimesTyped
  <1>3. NothingFails'
    <2>1. \A g \in Hosts : script'[g] # "failed"
      BY <1>2 DEF Timely, NothingFails
    <2>2. \A j \in Programs : place'[j] # "failed"
      BY DEF Timely, NothingFails
    <2> QED BY <2>1, <2>2 DEF NothingFails
  <1>4. \A j \in Programs : Ending(j)' => Ending(j) /\ timer'[j] = timer[j]
    BY <1>1 DEF Ending
  <1>5. Punctual'
    <2>1. \A g \in Hosts : /\ script'[g] = "off" => script[g] = "off"
                           /\ script'[g] # "off" => delay[g] <= clock
                           /\ phase[g] \in {1, 2} /\ phase'[g] \in {1, 2}
                           /\ phase'[g] >= phase[g]
      <3> TAKE g \in Hosts
      <3>1. phase[g] \in {1, 2} /\ ph \in {1, 2}
        BY DEF Typed, Phases
      <3>2. CASE g = h
        BY <1>2, <3>1, <3>2
      <3>3. CASE g # h
        BY <1>2, <3>1, <3>3 DEF Timely, Punctual
      <3> QED BY <3>2, <3>3
    <2>2. \A k \in Programs : (place'[k] = place[k] /\ timer'[k] = timer[k]) \/ timer'[k] = 0
      OBVIOUS
    <2>3. /\ Delivered \subseteq Delivered' /\ UNCHANGED <<delay, clock>>
          /\ \A k \in Programs : passed[k] = 2 => passed'[k] = 2
      BY <1>1 DEF Delivered
    <2> QED BY <1>4, <2>1, <2>2, <2>3, InstantPunctual
  <1>6. Patient(h)'
    <2>1. \A k \in Programs : timer'[k] \in Nat
      BY DEF TimesTyped
    <2>2. FirstOf(h, ph) \in Programs /\ SecondOf(h, ph) \in Programs
      BY ProgramsOfHost
    <2>3. Children(h)' = {FirstOf(h, ph), SecondOf(h, ph)}
      BY <1>2 DEF Children
    <2> QED BY <1>2, <2>1, <2>2, <2>3 DEF Patient
  <1>7. ASSUME NEW g \in Hosts, g # h PROVE InStep(g)' /\ Patient(g)'
    <2>1. \A k \in Programs : Host(k) = g =>
             /\ place'[k] = "off" <=> place[k] = "off"
             /\ place'[k] = "connect" => place[k] = "connect" /\ timer'[k] = timer[k]
             /\ place'[k] = "accept" =>
                  (place[k] = "accept" /\ timer'[k] = timer[k]) \/ place[k] = "connect"
             /\ Ending(k)' => (Ending(k) /\ timer'[k] = timer[k])
                              \/ (k[1] \notin Delivered /\ timer'[k] = 0)
      BY <1>4, <1>7
    <2>2. /\ script'[g] = script[g] /\ phase'[g] = phase[g] /\ waited'[g] = waited[g]
          /\ Delivered \subseteq Delivered'
      BY <1>1, <1>2, <1>7 DEF Delivered
    <2> QED BY <2>1, <2>2, OthersSteps
  <1> QED BY <1>3, <1>5, <1>6, <1>7 DEF Timely

\* The scripts' steps, if nothing fails.
LEMMA ScriptsTimely ==
    ASSUME Typed, TimesTyped, TimesTyped', Supervision, Supervision', Tolerable, Timely,
           NEW h \in Hosts,
           Boot(h) \/ FirstReady(h) \/ SecondReady(h) \/ ChildrenDone(h)
    PROVE  Timely'
  <1>0. PICK ph \in Phases : ph = phase[h]
    BY DEF Typed
  <1>1. /\ \A x \in Phases : /\ FirstOf(h, x) \in Programs /\ SecondOf(h, x) \in Programs
                             /\ Host(FirstOf(h, x)) = h /\ Host(SecondOf(h, x)) = h
                             /\ FirstOf(h, x)[1] = x /\ SecondOf(h, x)[1] = x
                             /\ FirstOf(h, x) # SecondOf(h, x)
        /\ ph \in {1, 2} /\ 1 \in Phases /\ 2 \in Phases
    <2>1. ASSUME NEW x \in Phases PROVE FirstOf(h, x) # SecondOf(h, x)
      BY DEF FirstOf, SecondOf, Hosts
    <2> QED BY <2>1, ProgramsOfHost DEF Phases
  <1>2. InStep(h)
    BY DEF Timely
  <1>3. script[h] # "off" => delay[h] <= clock
    BY DEF Timely, Punctual
  <1>b. ASSUME NEW x \in Phases, StartPhase(h, x), x >= phase[h], delay[h] <= clock,
               place[FirstOf(h, x)] = "off", place[SecondOf(h, x)] = "off"
        PROVE  Timely'
    <2>1. ScriptTo(h, "ready1", x) /\ Begin(FirstOf(h, x))
      BY <1>b DEF StartPhase
    <2>2. FirstOf(h, x)[2] # "rrf" /\ FirstOf(h, x)[2] # "sender"
      BY DEF FirstOf
    <2>3. PICK i \in Programs : i = FirstOf(h, x)
      BY <1>1
    <2>4. /\ script' = [script EXCEPT ![h] = "ready1"] /\ phase' = [phase EXCEPT ![h] = x]
          /\ passed' = passed
      BY <2>1 DEF ScriptTo
    <2>5. /\ Logged' /\ \A y \in Phases : Chain(y)'
          /\ \A j \in Programs :
               \/ place'[j] = place[j] /\ timer'[j] = timer[j]
               \/ j = i /\ timer'[j] = 0 /\ place'[j] \in {"accept", "connect"}
          /\ place'[i] # "off"
      BY <1>b, <2>1, <2>2, <2>3, <2>4, BeginChain
    <2>6. script'[h] = "ready1" /\ phase'[h] = x
      BY <2>4 DEF Typed
    <2>7. InStep(h)'
      <3>1. place'[SecondOf(h, x)] = "off"
        BY <1>1, <1>b, <2>3, <2>5
      <3> QED BY <2>3, <2>5, <2>6, <3>1 DEF InStep
    <2>8. \A j \in Programs :
             \/ place'[j] = place[j] /\ timer'[j] = timer[j]
             \/ Host(j) = h /\ timer'[j] = 0 /\ place'[j] \in {"accept", "connect"}
      BY <1>1, <2>3, <2>5
    <2> QED BY <1>b, <2>1, <2>5, <2>7, <2>8, ScriptTimely
  <1>4. CASE Boot(h)
    <2>1. script[h] = "off" /\ clock >= delay[h] /\ StartPhase(h, 1)
      BY <1>4 DEF Boot, CanBoot
    <2>2. phase[h] = 1
      BY <1>2, <2>1 DEF InStep
    <2>3. place[FirstOf(h, 1)] = "off" /\ place[SecondOf(h, 1)] = "off"
      BY <1>1, <2>1 DEF Supervision, Supervised
    <2>4. delay[h] <= clock
      BY <2>1 DEF TimesTyped
    <2> QED BY <1>1, <1>b, <2>1, <2>2, <2>3, <2>4
  <1>5. CASE ChildrenDone(h) /\ phase[h] = 1
    <2>1. script[h] = "wait" /\ StartPhase(h, 2)
      BY <1>5 DEF ChildrenDone, AllReturned
    <2>2. place[FirstOf(h, 2)] = "off" /\ place[SecondOf(h, 2)] = "off"
      BY <1>1, <1>5 DEF Supervision, Supervised
    <2> QED BY <1>1, <1>3, <1>5, <1>b, <2>1, <2>2
  <1>6. CASE ChildrenDone(h) /\ phase[h] # 1
    <2>1. /\ script[h] = "wait" /\ ScriptTo(h, "ok", 2) /\ UNCHANGED <<place, timer, ready>>
          /\ phase[h] = 2
      BY <1>0, <1>1, <1>6 DEF ChildrenDone, AllReturned
    <2>2. /\ script' = [script EXCEPT ![h] = "ok"] /\ phase' = [phase EXCEPT ![h] = 2]
          /\ passed' = passed
      BY <2>1 DEF ScriptTo
    <2>3. script'[h] = "ok" /\ phase'[h] = 2
      BY <2>2 DEF Typed
    <2>4. InStep(h)'
      BY <1>2, <2>1, <2>3 DEF InStep
    <2>5. Logged' /\ \A x \in Phases : Chain(x)'
      BY <2>1, <2>2 DEF Timely, Logged, Chain
    <2> QED BY <1>1, <1>3, <2>1, <2>4, <2>5, ScriptTimely
  <1>7. CASE SecondReady(h)
    <2>1. /\ script[h] = "ready2" /\ ScriptTo(h, "wait", ph) /\ UNCHANGED <<place, timer, ready>>
          /\ SecondOf(h, ph) \in ready
      BY <1>0, <1>7 DEF SecondReady, SecondSeen
    <2>2. /\ script' = [script EXCEPT ![h] = "wait"] /\ phase' = [phase EXCEPT ![h] = ph]
          /\ passed' = passed
      BY <2>1 DEF ScriptTo
    <2>3. script'[h] = "wait" /\ phase'[h] = ph
      BY <2>2 DEF Typed
    <2>4. place[SecondOf(h, ph)] # "connect"
      BY <1>1, <2>1 DEF Timely, Logged
    <2>5. InStep(h)'
      BY <1>0, <1>2, <2>1, <2>3, <2>4 DEF InStep
    <2>6. Logged' /\ \A x \in Phases : Chain(x)'
      BY <2>1, <2>2 DEF Timely, Logged, Chain
    <2> QED BY <1>0, <1>1, <1>3, <2>1, <2>5, <2>6, ScriptTimely
  <1>8. CASE FirstReady(h)
    <2>0. PICK s : s = IF h = "B" THEN "ready2" ELSE "wait"
      OBVIOUS
    <2>1. /\ script[h] = "ready1" /\ ScriptTo(h, s, ph) /\ Begin(SecondOf(h, ph))
          /\ FirstOf(h, ph) \in ready /\ s \in {"ready2", "wait"}
      BY <1>0, <1>8, <2>0 DEF FirstReady, FirstSeen
    <2>2. /\ script' = [script EXCEPT ![h] = s] /\ phase' = [phase EXCEPT ![h] = ph]
          /\ passed' = passed
      BY <2>1 DEF ScriptTo
    <2>3. script'[h] = s /\ phase'[h] = ph
      BY <2>2 DEF Typed
    <2>4. PICK i \in Programs : i = SecondOf(h, ph)
      BY <1>1
    <2>5. place[i] = "off" /\ place[FirstOf(h, ph)] \notin {"off", "connect"}
      BY <1>0, <1>1, <1>2, <2>1, <2>4 DEF InStep, Timely, Logged
    <2>6. i[2] = "rrf" => place[<<i[1], "receiver">>] # "off"
      BY <2>4, <2>5 DEF SecondOf, FirstOf
    <2>7. i[2] = "sender" => place[<<i[1], "srf">>] = "accept"
      <3> SUFFICES ASSUME i[2] = "sender" PROVE place[<<ph, "srf">>] = "accept"
        BY <1>1, <2>4
      <3>1. i = <<ph, "sender">> /\ FirstOf(h, ph) = <<ph, "srf">>
        BY <2>4 DEF SecondOf, FirstOf
      <3> QED BY <2>5, <3>1 DEF Timely, Chain, Roles
    <2>8. /\ Logged' /\ \A y \in Phases : Chain(y)'
          /\ \A j \in Programs :
               \/ place'[j] = place[j] /\ timer'[j] = timer[j]
               \/ j = i /\ timer'[j] = 0 /\ place'[j] \in {"accept", "connect"}
          /\ place'[i] # "off"
      BY <2>1, <2>2, <2>4, <2>5, <2>6, <2>7, BeginChain
    <2>9. InStep(h)'
      <3>1. place'[FirstOf(h, ph)] # "off"
        BY <1>1, <2>4, <2>5, <2>8
      <3>2. script'[h] = "ready2" => h = "B"
        BY <2>0, <2>3
      <3>3. script'[h] = "wait" => h # "B"
        BY <2>0, <2>3
      <3> QED BY <2>1, <2>3, <2>4, <2>8, <3>1, <3>2, <3>3 DEF InStep
    <2>10. \A j \in Programs :
             \/ place'[j] = place[j] /\ timer'[j] = timer[j]
             \/ Host(j) = h /\ timer'[j] = 0 /\ place'[j] \in {"accept", "connect"}
      BY <1>1, <2>4, <2>8
    <2>11. ph >= phase[h] /\ delay[h] <= clock
      BY <1>0, <1>1, <1>3, <2>1
    <2> QED BY <2>1, <2>8, <2>9, <2>10, <2>11, ScriptTimely
  <1> QED BY <1>4, <1>5, <1>6, <1>7, <1>8

\* If the other party is not too late, nothing is.
LEMMA TimelyStep ==
    ASSUME TypeOK, Supervision, TypeOK', Supervision', Tolerable => Timely, Tolerable', [Next]_vars
    PROVE  Timely'
  <1>0. Typed /\ TimesTyped /\ TimesTyped'
    BY DEF TypeOK
  <1>1. Tolerable /\ crashes' = crashes
    <2>1. delay' = delay /\ (crashes' = crashes \/ crashes' = crashes + 1)
      BY DEF Next, Progress, Instant, Connect, GiveUp, Dies, Pass, EndProgram, Crash, Boot,
             StartPhase, FirstReady, SecondReady, NotReady, ChildFailed, ChildrenDone,
             ScriptFails, ScriptTo, Tick, Finished, vars, Scripts
    <2>2. crashes \in Nat
      BY <1>0, LaunchTimes DEF TimesTyped
    <2> QED BY <2>1, <2>2 DEF Tolerable
  <1>2. Timely
    BY <1>1
  <1>3. /\ \A j \in Programs : ~GiveUp(j) /\ ~Crash(j)
        /\ \A h \in Hosts : ~NotReady(h) /\ ~ChildFailed(h)
    <2>1. \A j \in Programs : ~Crash(j)
      BY <1>0, <1>1, LaunchTimes DEF Crash, TimesTyped
    <2> QED BY <1>0, <1>1, <1>2, <2>1, NoFailureStep DEF GiveUp, NotReady, ChildFailed
  <1>4. CASE \E j \in Programs : Connect(j) \/ EndProgram(j)
    BY <1>0, <1>1, <1>2, <1>4, ConnectTimely, EndTimely
  <1>5. CASE \E j \in Programs : Pass(j)
    BY <1>0, <1>1, <1>2, <1>5, PassTimely
  <1>6. CASE \E h \in Hosts : Boot(h) \/ FirstReady(h) \/ SecondReady(h) \/ ChildrenDone(h)
    BY <1>0, <1>1, <1>2, <1>6, ScriptsTimely
  <1>7. CASE Tick
    BY <1>0, <1>1, <1>2, <1>7, TickTimely
  <1>8. CASE Finished \/ UNCHANGED vars
    BY <1>2, <1>8 DEF Finished, vars, Timely, NothingFails, Logged, Punctual, Chain, InStep,
                      Patient, Running, Ending, Children, Delivered
  <1> QED BY <1>3, <1>4, <1>5, <1>6, <1>7, <1>8 DEF Next, Progress, Instant

\* The type invariant of the launch.
THEOREM LaunchTypes == Spec => []TypeOK
  <1>1. Init => TimesTyped
    BY LaunchTimes DEF Init, TimesTyped
  <1>2. Typed /\ TimesTyped /\ [Next]_vars => TimesTyped'
    BY TimesStep
  <1>3. Spec => []Typed
    BY ScriptsSupervise, PTL
  <1>4. Typed /\ TimesTyped => TypeOK
    BY DEF TypeOK
  <1> QED BY <1>1, <1>2, <1>3, <1>4, PTL DEF Spec

\* For every choice of timeouts that leave room for one another and of start
\* times that differ by less than the I/O timeout (A late) or all the retries (B
\* late): unless a program dies by itself, no listener or connector gives up,
\* no script misses a program, and neither script fails, in both phases.
THEOREM LateStartsTolerated == Spec => []InTime
  <1>1. Init => (Tolerable => Timely)
    <2> SUFFICES ASSUME Init PROVE Timely
      OBVIOUS
    <2> USE LaunchTimes
    <2>0. /\ \A ph \in Phases : \A r \in Roles : place[<<ph, r>>] = "off"
          /\ \A j \in Programs : place[j] = "off" /\ timer[j] = 0
          /\ \A h \in Hosts : /\ script[h] = "off" /\ phase[h] = 1 /\ waited[h] = 0
                              /\ delay[h] \in Nat
          /\ \A ph \in Phases : \A r \in Roles : passed[<<ph, r>>] = 0
          /\ ready = {} /\ clock = 0
      <3>1. \A ph \in Phases : \A r \in Roles : <<ph, r>> \in Programs
        BY DEF Programs
      <3> QED BY <3>1 DEF Init
    <2>1. NothingFails /\ Logged
      BY <2>0 DEF NothingFails, Logged
    <2>2. Punctual
      BY <2>0 DEF Punctual, Running
    <2>3. ASSUME NEW ph \in Phases PROVE Chain(ph)
      <3>1. \A r \in Roles : place[<<ph, r>>] = "off" /\ passed[<<ph, r>>] < 2
        BY <2>0
      <3> QED BY <3>1 DEF Chain, Roles
    <2>4. ASSUME NEW h \in Hosts PROVE InStep(h) /\ Patient(h)
      <3>1. FirstOf(h, 1) \in Programs /\ SecondOf(h, 1) \in Programs
        BY ProgramsOfHost DEF Phases
      <3> QED BY <2>0, <3>1 DEF InStep, Patient
    <2> QED BY <2>1, <2>2, <2>3, <2>4 DEF Timely
  <1>2. /\ TypeOK /\ Supervision /\ TypeOK' /\ Supervision' /\ (Tolerable => Timely) /\ [Next]_vars
        => (Tolerable => Timely)'
    BY TimelyStep
  <1>3. Spec => []Supervision
    BY ScriptsSupervise, PTL
  <1>4. (Tolerable => Timely) => InTime
    BY DEF InTime, Timely
  <1> QED BY <1>1, <1>2, <1>3, <1>4, LaunchTypes, PTL DEF Spec
=============================================================================
