--------------------------- MODULE LaneLinkProofs ---------------------------
(***************************************************************************)
(* Lane setup and parallel lane I/O, for any settings of the two sides,    *)
(* numbers of lanes and items, buffer sizes, failures and strays.          *)
(* ArithmeticProofs brings the modulus Q along, which nothing here uses.   *)
(***************************************************************************)
EXTENDS LaneLink, ArithmeticProofs, FiniteSetTheorems

-----------------------------------------------------------------------------
(***************************************************************************)
(* Sides, connections and ranges.                                          *)
(***************************************************************************)
\* The two sides.
LEMMA SideFacts ==
    /\ Sides = {Acceptor, Connector} /\ Acceptor # Connector
    /\ Other(Acceptor) = Connector /\ Other(Connector) = Acceptor
    /\ \A s \in Sides : Other(s) \in Sides /\ Other(s) # s /\ Other(Other(s)) = s
  BY DEF Sides, Acceptor, Connector, Other

\* Lane numbers are natural; neither Foreign nor None is one.
LEMMA ConnFacts ==
    /\ LaneIds \subseteq Nat /\ Foreign \notin LaneIds /\ None \notin Conns
    /\ LaneIds \subseteq Conns /\ Foreign \in Conns /\ Conns \subseteq Int
    /\ Items \subseteq Nat /\ Foreign \notin Items /\ None \notin Items
    /\ Foreign # None /\ Foreign \notin Params
    /\ \A k \in Conns : k \in LaneIds \/ k = Foreign
  <1>1. LaneIds \subseteq Nat /\ Items \subseteq Nat
    BY LinkSettings DEF LaneIds, Items
  <1> QED BY <1>1, LinkSettings DEF Conns, Foreign, None

\* The lanes and indexes of a side.
LEMMA LaneFacts ==
    ASSUME TypeOK, NEW s \in Sides
    PROVE  /\ lanes[s] \in Nat \ {0} /\ count[s] \in Nat \ {0}
           /\ Lanes(s) \subseteq LaneIds /\ 0..(count[s] - 1) \subseteq Items
           /\ \A l \in Lanes(s) :
                /\ l \in Nat /\ l < lanes[s]
                /\ First(s, l) \in Nat /\ Last(s, l) \in Nat
                /\ First(s, l) <= Last(s, l) /\ Last(s, l) <= count[s]
  <1>1. lanes[s] \in LaneCounts /\ count[s] \in Counts
    BY DEF TypeOK
  <1>2. lanes[s] \in Nat \ {0} /\ count[s] \in Nat \ {0}
    <2>1. lanes[s] \in 1..MaxLanes
      BY <1>1, LinkSettings
    <2>2. count[s] \in Nat \ {0}
      BY <1>1, LinkSettings
    <2> QED BY <2>1, <2>2 DEF MaxLanes
  <1>3. Lanes(s) \subseteq LaneIds /\ 0..(count[s] - 1) \subseteq Items
    BY <1>1 DEF Lanes, LaneIds, Items
  <1>4. ASSUME NEW l \in Lanes(s)
        PROVE  /\ l \in Nat /\ l < lanes[s]
               /\ First(s, l) \in Nat /\ Last(s, l) \in Nat
               /\ First(s, l) <= Last(s, l) /\ Last(s, l) <= count[s]
    <2>1. l \in 0..(lanes[s] - 1)
      BY <1>4 DEF Lanes
    <2>2. count[s] \in Nat
      BY <1>2
    <2>3. LET b == RfLaneBegin(count[s], lanes[s], l)
              e == RfLaneEnd(count[s], lanes[s], l)
          IN  b \in Nat /\ e \in Nat /\ b <= e /\ e <= count[s]
      BY <1>2, <2>1, <2>2, LaneBounds
    <2> QED BY <1>2, <2>1, <2>3 DEF First, Last
  <1> QED BY <1>2, <1>3, <1>4

\* The last lane of a side is never empty.
LEMMA LastLaneActive ==
    ASSUME TypeOK, NEW s \in Sides
    PROVE  lanes[s] - 1 \in Lanes(s) /\ First(s, lanes[s] - 1) < Last(s, lanes[s] - 1)
  <1> DEFINE n == count[s]
             m == lanes[s]
             b == RfLaneBegin(n, m, m - 1)
  <1>1. n \in Nat \ {0} /\ m \in Nat \ {0} /\ m - 1 \in Nat
    BY LaneFacts
  <1>2. Last(s, m - 1) = n
    BY <1>1, LanesCoverEnds DEF Last
  <1>3. b \in Nat /\ b * m <= n * (m - 1)
    BY <1>1, LaneBeginIsFloor
  <1>4. First(s, m - 1) = b
    BY DEF First
  <1>5. m - 1 \in Lanes(s)
    BY <1>1 DEF Lanes
  <1> HIDE DEF n, m, b
  <1>6. n * (m - 1) < n * m
    BY <1>1
  <1>7. b * m < n * m
    BY <1>1, <1>3, <1>6
  <1>8. b < n
    BY <1>1, <1>3, <1>7
  <1> QED BY <1>2, <1>4, <1>5, <1>8 DEF n, m

\* One entry of a table by side and connection is replaced.
LEMMA UpdateFacts ==
    ASSUME NEW W, NEW w \in [Sides -> [Conns -> W]], NEW s \in Sides, NEW k \in Conns,
           NEW v \in W, NEW u, u = [w EXCEPT ![s][k] = v]
    PROVE  /\ u \in [Sides -> [Conns -> W]] /\ u[s][k] = v
           /\ \A t \in Sides : \A j \in Conns : t # s \/ j # k => u[t][j] = w[t][j]
  OBVIOUS

-----------------------------------------------------------------------------
(***************************************************************************)
(* The wire.                                                               *)
(***************************************************************************)
\* Everywhere but at s and k the wire is u as it was w.
SameElsewhere(w, u, s, k) ==
    \A t \in Sides : \A j \in Conns : t # s \/ j # k => u[t][j] = w[t][j]

\* A message is taken from the wire.
LEMMA TakeFacts ==
    ASSUME TypeOK, NEW s \in Sides, NEW k \in Conns, Arrived(s, k)
    PROVE  /\ WireTyped(Take(s, k)) /\ SameElsewhere(wire, Take(s, k), Other(s), k)
           /\ Take(s, k)[Other(s)][k] = Tail(wire[Other(s)][k])
           /\ Message(s, k) \in Messages /\ Message(s, k) = wire[Other(s)][k][1]
           /\ Len(wire[Other(s)][k]) \in Nat \ {0}
           /\ Len(Tail(wire[Other(s)][k])) = Len(wire[Other(s)][k]) - 1
           /\ \A j \in 1..(Len(wire[Other(s)][k]) - 1) :
                Tail(wire[Other(s)][k])[j] = wire[Other(s)][k][j + 1]
  <1> DEFINE t == Other(s)
             q == wire[t][k]
  <1>1. t \in Sides
    BY SideFacts
  <1>2. wire \in [Sides -> [Conns -> Seq(Messages)]] /\ q \in Seq(Messages) /\ q # <<>>
    BY <1>1 DEF TypeOK, WireTyped, Arrived
  <1>3. Take(s, k) = [wire EXCEPT ![t][k] = Tail(q)]
    BY <1>1, <1>2 DEF Take
  <1>4. Tail(q) \in Seq(Messages) /\ Len(Tail(q)) = Len(q) - 1 /\ Len(q) \in Nat \ {0}
    BY <1>2
  <1>5. Head(q) \in Messages /\ Head(q) = q[1]
    BY <1>2
  <1>6. \A j \in 1..(Len(q) - 1) : Tail(q)[j] = q[j + 1]
    BY <1>2
  <1>7. Message(s, k) = Head(q)
    BY DEF Message
  <1>8. \A p \in Sides : \A j \in Conns : Len(wire[p][j]) <= Cap + 2
    BY DEF TypeOK, WireTyped
  <1> HIDE DEF q, t
  <1>9. /\ Take(s, k) \in [Sides -> [Conns -> Seq(Messages)]]
        /\ Take(s, k)[t][k] = Tail(q)
        /\ SameElsewhere(wire, Take(s, k), t, k)
    BY <1>1, <1>2, <1>3, <1>4, UpdateFacts DEF SameElsewhere
  <1>10. \A p \in Sides : \A j \in Conns : Len(Take(s, k)[p][j]) <= Cap + 2
    <2> SUFFICES ASSUME NEW p \in Sides, NEW j \in Conns
                 PROVE  Len(Take(s, k)[p][j]) <= Cap + 2
      OBVIOUS
    <2>1. CASE p = t /\ j = k
      <3>1. Len(q) <= Cap + 2
        BY <1>1, <1>8 DEF q
      <3> QED BY <1>4, <1>9, <2>1, <3>1, LinkBounds
    <2>2. CASE p # t \/ j # k
      BY <1>8, <1>9, <2>2 DEF SameElsewhere
    <2> QED BY <2>1, <2>2
  <1> QED BY <1>4, <1>5, <1>6, <1>7, <1>9, <1>10 DEF WireTyped, q, t

\* A sequence is put on the wire.
Put(w, u, s, k, v) ==
    WireTyped(u) /\ u[s][k] = v /\ SameElsewhere(w, u, s, k)

LEMMA PutFacts ==
    ASSUME NEW w, WireTyped(w), NEW s \in Sides, NEW k \in Conns,
           NEW v \in Seq(Messages), Len(v) <= Cap + 2
    PROVE  Put(w, [w EXCEPT ![s][k] = v], s, k, v)
  <1> DEFINE u == [w EXCEPT ![s][k] = v]
  <1>1. w \in [Sides -> [Conns -> Seq(Messages)]]
    BY DEF WireTyped
  <1>2. /\ u \in [Sides -> [Conns -> Seq(Messages)]] /\ u[s][k] = v
        /\ SameElsewhere(w, u, s, k)
    BY <1>1, UpdateFacts DEF SameElsewhere
  <1> HIDE DEF u
  <1>3. ASSUME NEW p \in Sides, NEW j \in Conns
        PROVE  Len(u[p][j]) <= Cap + 2
    BY <1>2 DEF SameElsewhere, WireTyped
  <1>4. Put(w, u, s, k, v)
    BY <1>2, <1>3 DEF WireTyped, Put
  <1> QED BY <1>4 DEF u

\* The messages of a side.
LEMMA MessageTypes ==
    ASSUME TypeOK
    PROVE  /\ \A k \in LaneIds : [kind |-> "id", is |-> k] \in Messages
           /\ \A s \in Sides : [kind |-> "meta", is |-> Metadata(s)] \in Messages
           /\ \A i \in Items \cup {Foreign} : [kind |-> "ct", is |-> i] \in Messages
           /\ [kind |-> "meta", is |-> [Metadata(Acceptor) EXCEPT !.param = Foreign]] \in Messages
           /\ \A x \in Messages :
                /\ x.kind = "id" => x.is \in LaneIds
                /\ x.kind = "ct" => x.is \in Items \cup {Foreign}
                /\ x.kind \in {"id", "meta", "ct"}
  <1>1. \A k \in LaneIds : [kind |-> "id", is |-> k] \in Messages
    BY DEF Messages
  <1>2. \A i \in Items \cup {Foreign} : [kind |-> "ct", is |-> i] \in Messages
    BY DEF Messages
  <1>3. \A s \in Sides : lanes[s] \in LaneCounts /\ count[s] \in Counts /\ param[s] \in Params
    BY DEF TypeOK
  <1>4. \A s \in Sides : [kind |-> "meta", is |-> Metadata(s)] \in Messages
    BY <1>3 DEF Messages, Metadata
  <1>5. [kind |-> "meta", is |-> [Metadata(Acceptor) EXCEPT !.param = Foreign]] \in Messages
    BY <1>3, SideFacts DEF Messages, Metadata
  <1>6. ASSUME NEW x \in Messages
        PROVE  /\ x.kind = "id" => x.is \in LaneIds
               /\ x.kind = "ct" => x.is \in Items \cup {Foreign}
               /\ x.kind \in {"id", "meta", "ct"}
    BY <1>6 DEF Messages
  <1> QED BY <1>1, <1>2, <1>4, <1>5, <1>6

-----------------------------------------------------------------------------
(***************************************************************************)
(* Types.                                                                  *)
(***************************************************************************)
\* A process ends.
LEMMA TypeEnd ==
    ASSUME TypeOK, WireTyped(wire'), NEW s \in Sides, NEW place \in {"done", "failed"}, EndAs(s, place),
           UNCHANGED <<settings, made, fds, io, bounds>>
    PROVE  TypeOK'
  <1>1. pc' \in [Sides -> Places] /\ down' \in [Sides -> SUBSET Conns]
    BY DEF TypeOK, EndAs, Places
  <1>2. listening' \in BOOLEAN /\ backlog' \in Seq(Conns)
        /\ current' \in (Conns \cup {None}) \X (Conns \cup {None})
    <2>1. CASE s = Acceptor
      <3>1. backlog' = <<>> /\ listening' = FALSE /\ current' = <<None, None>>
        BY <2>1 DEF EndAs, Nothing
      <3>2. <<>> \in Seq(Conns)
        OBVIOUS
      <3>3. <<None, None>> \in (Conns \cup {None}) \X (Conns \cup {None})
        OBVIOUS
      <3> QED BY <3>1, <3>2, <3>3
    <2>2. CASE s # Acceptor
      BY <2>2 DEF TypeOK, EndAs
    <2> QED BY <2>1, <2>2
  <1> QED BY <1>1, <1>2 DEF TypeOK, settings, io, bounds, Lanes

\* Steps of the setup that go on.
LEMMA TypeSetup ==
    ASSUME TypeOK, WireTyped(wire'), NEW s \in Sides, NEW place \in Places, pc' = [pc EXCEPT ![s] = place],
           listening' \in BOOLEAN, backlog' \in Seq(Conns), made' \in 0..lanes[Connector],
           current' \in (Conns \cup {None}) \X (Conns \cup {None}),
           fds' \in [Lanes(Acceptor) -> Conns \cup {None}],
           down' \in [Sides -> SUBSET Conns],
           UNCHANGED <<settings, io, bounds>>
    PROVE  TypeOK'
  <1>1. pc' \in [Sides -> Places]
    BY DEF TypeOK
  <1> QED BY <1>1 DEF TypeOK, settings, io, bounds, Lanes

\* Steps of the lane threads.
LEMMA TypeThread ==
    ASSUME TypeOK, WireTyped(wire'), pc' \in [Sides -> Places], down' \in [Sides -> SUBSET Conns],
           failure' \in [Sides -> BOOLEAN],
           DOMAIN thread' = Sides, DOMAIN pos' = Sides,
           \A s \in Sides : thread'[s] \in [Lanes(s) -> {"none", "run", "end"}],
           \A s \in Sides : pos'[s] \in [Lanes(s) -> 0..count[s]],
           values' \in [Items -> Items \cup {None, Foreign}],
           failures' \in 0..MaxTroubles,
           UNCHANGED <<settings, link, strays>>
    PROVE  TypeOK'
  BY DEF TypeOK, settings, link, Lanes

-----------------------------------------------------------------------------
(***************************************************************************)
(* Lane threads.                                                           *)
(***************************************************************************)
\* What does not depend on the wire and on the threads stays true while they
\* start and run.
LEMMA LinkSame ==
    ASSUME TypeOK, Accepting, Connecting, Compared,
           UNCHANGED <<settings, link, strays>>,
           pc' = pc \/ \E s \in Sides : pc[s] = "up" /\ pc' = [pc EXCEPT ![s] = "io"]
    PROVE  Accepting' /\ Connecting' /\ Compared'
  <1>1. /\ pc'[Acceptor] = pc[Acceptor] \/ (pc[Acceptor] = "up" /\ pc'[Acceptor] = "io")
        /\ pc'[Connector] = pc[Connector] \/ (pc[Connector] = "up" /\ pc'[Connector] = "io")
    BY SideFacts DEF TypeOK
  <1>2. /\ lanes' = lanes /\ count' = count /\ param' = param /\ validate' = validate
        /\ listening' = listening /\ backlog' = backlog /\ made' = made /\ current' = current
        /\ fds' = fds /\ strays' = strays
    BY DEF settings, link
  <1>3. Accepting'
    BY <1>1, <1>2 DEF Accepting, SettingUp, Queued, Stored, Made, Lanes
  <1>4. Connecting'
    BY <1>1, <1>2 DEF Connecting
  <1>5. Compared'
    BY <1>1, <1>2 DEF Compared, Passed, Stored, Made, Lanes, Metadata
  <1> QED BY <1>3, <1>4, <1>5

\* The streams and what has been read do not depend on threads and failures.
LEMMA StreamsSame ==
    ASSUME TypeOK, Streams, Read, UNCHANGED <<settings, link, wire, pos, values>>,
           pc' = pc \/ \E s \in Sides : pc[s] = "up" /\ pc' = [pc EXCEPT ![s] = "io"]
    PROVE  Streams' /\ Read'
  <1>1. /\ pc'[Acceptor] = pc[Acceptor] \/ (pc[Acceptor] = "up" /\ pc'[Acceptor] = "io")
        /\ pc'[Connector] = pc[Connector] \/ (pc[Connector] = "up" /\ pc'[Connector] = "io")
    BY SideFacts DEF TypeOK
  <1>2. /\ lanes' = lanes /\ count' = count /\ param' = param /\ validate' = validate
        /\ writer' = writer /\ backlog' = backlog /\ made' = made /\ current' = current
        /\ fds' = fds /\ wire' = wire /\ pos' = pos /\ values' = values
    BY DEF settings, link
  <1>3. \A s \in Sides : Lanes(s)' = Lanes(s)
    BY <1>2 DEF Lanes
  <1>4. \A s \in Sides : \A k : First(s, k)' = First(s, k) /\ Hello(s)' = Hello(s)
                                  /\ Metadata(s)' = Metadata(s)
    BY <1>2 DEF First, Hello, Metadata
  <1>5. \A k : Stored(k)' <=> Stored(k)
    BY <1>2, <1>3, SideFacts DEF Stored
  <1>6. \A k : (Queued(k)' <=> Queued(k)) /\ (Passed(k)' <=> Passed(k))
    BY <1>1, <1>2 DEF Queued, Passed
  <1>7. \A k : (Examined(k, "meta")' <=> Examined(k, "meta"))
               /\ (Examined(k, "id")' <=> Examined(k, "id"))
    BY <1>1, <1>2 DEF Examined
  <1>8. \A s \in Sides : \A k : Given(s, k)' = Given(s, k) /\ Taken(s, k)' = Taken(s, k)
    BY <1>2, <1>4, <1>5, <1>6, <1>7 DEF Given, Taken, Greeted, Reader
  <1>9. \A s \in Sides : \A k : Reads(s, k)' => Reads(s, k)
    BY <1>1, <1>2, <1>5, <1>6, SideFacts DEF Reads
  <1>10. \A s \in Sides : \A k, n, x : IsMessage(s, k, n, x)' <=> IsMessage(s, k, n, x)
    BY <1>2, <1>4 DEF IsMessage
  <1>11. \A s \in Sides : \A k : Aligned(s, k) => Aligned(s, k)'
    BY <1>2, <1>8, <1>10, SideFacts DEF Aligned
  <1>12. Streams'
    BY <1>2, <1>3, <1>5, <1>6, <1>7, <1>9, <1>11, SideFacts DEF Streams, Made
  <1>13. Read'
    BY <1>2, <1>3, <1>4, <1>5, SideFacts DEF Read, Reader, Conn, TypeOK
  <1> QED BY <1>12, <1>13

\* The threads of s are started, or one of them ends, or a lane of s fails and
\* all its lanes are cancelled.
LEMMA ControlStep ==
    ASSUME TypeOK, Flow, NEW s \in Sides, pc[s] \in {"up", "io"},
           pc' = [pc EXCEPT ![s] = "io"],
           NEW th \in [Lanes(s) -> {"none", "run", "end"}],
           thread' = [thread EXCEPT ![s] = th],
           \/ /\ UNCHANGED <<failure, down>>
              /\ \A l \in Lanes(s) : ~failure[s] /\ pos[s][l] < Last(s, l) => th[l] = "run"
           \/ failure' = [failure EXCEPT ![s] = TRUE] /\ Cancel(s),
           UNCHANGED <<settings, link, wire, pos, values, strays>>,
           failures' \in 0..MaxTroubles
    PROVE  TypeOK' /\ Flow'
  <1>1. /\ lanes' = lanes /\ count' = count /\ param' = param /\ validate' = validate
        /\ writer' = writer /\ listening' = listening /\ made' = made /\ fds' = fds
        /\ wire' = wire /\ pos' = pos /\ values' = values /\ strays' = strays
    BY DEF settings, link
  <1>2. pc' \in [Sides -> Places] /\ pc'[s] = "io" /\ \A t \in Sides : t # s => pc'[t] = pc[t]
    BY DEF TypeOK, Places
  <1>3. pc' = pc \/ \E t \in Sides : pc[t] = "up" /\ pc' = [pc EXCEPT ![t] = "io"]
    BY DEF TypeOK
  <1>4. \A t \in Sides : Lanes(t)' = Lanes(t)
    BY <1>1 DEF Lanes
  <1>5. \A l \in Lanes(s) : Conn(s, l) \in Conns \cup {None}
    BY LaneFacts, ConnFacts, SideFacts DEF Conn, TypeOK
  <1>6. MyConns(s) \subseteq Conns
    BY <1>5 DEF MyConns
  <1>7. down' \in [Sides -> SUBSET Conns] /\ failure' \in [Sides -> BOOLEAN]
    <2>1. CASE UNCHANGED <<failure, down>>
      BY <2>1 DEF TypeOK
    <2>2. CASE failure' = [failure EXCEPT ![s] = TRUE] /\ Cancel(s)
      <3>1. failure' \in [Sides -> BOOLEAN]
        BY <2>2 DEF TypeOK
      <3>2. down \in [Sides -> SUBSET Conns] /\ down' = [down EXCEPT ![s] = down[s] \cup MyConns(s)]
        BY <2>2 DEF TypeOK, Cancel
      <3>3. down' \in [Sides -> SUBSET Conns]
        BY <1>6, <3>2
      <3> QED BY <3>1, <3>3
    <2> QED BY <2>1, <2>2
  <1>8. /\ DOMAIN thread' = Sides /\ thread'[s] = th
        /\ \A t \in Sides : t # s => thread'[t] = thread[t]
    BY DEF TypeOK
  <1>9. TypeOK'
    <2>1. \A t \in Sides : thread'[t] \in [Lanes(t) -> {"none", "run", "end"}]
      BY <1>8 DEF TypeOK
    <2>2. /\ DOMAIN pos' = Sides /\ WireTyped(wire')
          /\ \A t \in Sides : pos'[t] \in [Lanes(t) -> 0..count[t]]
          /\ values' \in [Items -> Items \cup {None, Foreign}]
      BY <1>1 DEF TypeOK
    <2> QED BY <1>2, <1>7, <1>8, <2>1, <2>2, TypeThread
  <1>10. Accepting' /\ Connecting' /\ Compared'
    BY <1>3, LinkSame DEF Flow
  <1>11. Streams' /\ Read'
    BY <1>3, StreamsSame DEF Flow
  <1>12. MyConns(s)' = MyConns(s) /\ \A t \in Sides : MyConns(t)' = MyConns(t)
    BY <1>1, <1>4 DEF MyConns, Conn
  <1>13. \A t \in Sides : t # s => down'[t] = down[t] /\ failure'[t] = failure[t]
    BY DEF TypeOK, Cancel
  <1>14. \/ down'[s] = down[s] /\ failure'[s] = failure[s]
         \/ down'[s] = down[s] \cup MyConns(s) /\ failure'[s]
    BY DEF TypeOK, Cancel
  <1>15. Threads'
    <2> SUFFICES ASSUME NEW t \in Sides
                 PROVE  (/\ pc[t] \notin {"io", "done", "failed"} => ~failure[t]
                         /\ failure[t] /\ pc[t] = "io" => MyConns(t) \subseteq down[t]
                         /\ pc[t] = "done" => ~failure[t]
                         /\ \A l \in Lanes(t) :
                             /\ First(t, l) <= pos[t][l] /\ pos[t][l] <= Last(t, l)
                             /\ pc[t] \notin {"io", "done", "failed"} => pos[t][l] = First(t, l)
                             /\ pc[t] = "io" /\ ~failure[t] /\ pos[t][l] < Last(t, l) => thread[t][l] = "run"
                             /\ pc[t] = "done" => pos[t][l] = Last(t, l))'
      BY DEF Threads
    <2>1. \A l \in Lanes(t) : First(t, l)' = First(t, l) /\ Last(t, l)' = Last(t, l)
      BY <1>1 DEF First, Last
    <2>2. CASE t # s
      BY <1>1, <1>2, <1>4, <1>8, <1>12, <1>13, <2>1, <2>2 DEF Flow, Threads
    <2>3. CASE t = s
      <3>1. /\ pc[s] = "up" => ~failure[s]
            /\ failure[s] => MyConns(s) \subseteq down[s]
            /\ \A l \in Lanes(s) : First(s, l) <= pos[s][l] /\ pos[s][l] <= Last(s, l)
        BY DEF Flow, Threads
      <3>2. failure'[s] => MyConns(s) \subseteq down'[s]
        BY <1>14, <3>1
      <3>3. \A l \in Lanes(s) : ~failure'[s] /\ pos[s][l] < Last(s, l) => th[l] = "run"
        <4>1. CASE UNCHANGED <<failure, down>>
          BY <4>1 DEF TypeOK
        <4>2. CASE failure' = [failure EXCEPT ![s] = TRUE]
          BY <4>2 DEF TypeOK
        <4> QED BY <4>1, <4>2
      <3> QED BY <1>1, <1>2, <1>4, <1>8, <1>12, <2>1, <2>3, <3>1, <3>2, <3>3
    <2> QED BY <2>2, <2>3
  <1>16. Closing'
    <2>1. \A t \in Sides : Ended(t)' => down'[t] = Conns
      BY <1>2, <1>13 DEF Flow, Closing, Ended
    <2>2. listening' => down'[Acceptor] = {}
      <3>1. CASE s = Acceptor
        BY <1>1, <3>1 DEF Flow, Accepting, SettingUp
      <3>2. CASE s # Acceptor
        BY <1>1, <1>13, <3>2, SideFacts DEF Flow, Closing
      <3> QED BY <3>1, <3>2
    <2>3. pc'[Acceptor] = "failed" => pc[Acceptor] = "failed"
      BY <1>2, SideFacts
    <2>4. pc'[Connector] = "failed" => pc[Connector] = "failed"
      BY <1>2, SideFacts
    <2>5. (Matched /\ strays = 0)' => Matched /\ strays = 0
      BY <1>1 DEF Matched, Metadata
    <2> QED BY <1>1, <1>4, <2>1, <2>2, <2>3, <2>4, <2>5, SideFacts DEF Flow, Closing
  <1> QED BY <1>9, <1>10, <1>11, <1>15, <1>16 DEF Flow

LEMMA StartIoStep ==
    ASSUME TypeOK, Flow, NEW s \in Sides, StartIo(s)
    PROVE  TypeOK' /\ Flow'
  <1> DEFINE th == [l \in Lanes(s) |-> IF l \in ActiveLanes(s) THEN "run" ELSE "none"]
  <1>1. /\ pc[s] = "up" /\ pc' = [pc EXCEPT ![s] = "io"] /\ thread' = [thread EXCEPT ![s] = th]
        /\ UNCHANGED <<failure, down>> /\ UNCHANGED <<settings, link, wire, pos, values, strays>>
        /\ failures' = failures
    BY DEF StartIo, bounds
  <1>2. th \in [Lanes(s) -> {"none", "run", "end"}]
    OBVIOUS
  <1>3. ASSUME NEW l \in Lanes(s), pos[s][l] < Last(s, l) PROVE th[l] = "run"
    <2>1. pos[s][l] = First(s, l)
      BY <1>1 DEF Flow, Threads
    <2> QED BY <1>3, <2>1 DEF ActiveLanes, First
  <1>4. failures' \in 0..MaxTroubles
    BY <1>1 DEF TypeOK
  <1> HIDE DEF th
  <1> QED BY <1>1, <1>2, <1>3, <1>4, ControlStep

LEMMA StartIoFailsStep ==
    ASSUME TypeOK, Flow, NEW s \in Sides, StartIoFails(s)
    PROVE  TypeOK' /\ Flow'
  <1>1. PICK n \in ActiveLanes(s) :
          thread' = [thread EXCEPT ![s] =
            [l \in Lanes(s) |-> IF l \in ActiveLanes(s) /\ l < n THEN "run" ELSE "none"]]
    BY DEF StartIoFails
  <1> DEFINE th == [l \in Lanes(s) |-> IF l \in ActiveLanes(s) /\ l < n THEN "run" ELSE "none"]
  <1>2. /\ pc[s] = "up" /\ pc' = [pc EXCEPT ![s] = "io"] /\ thread' = [thread EXCEPT ![s] = th]
        /\ failure' = [failure EXCEPT ![s] = TRUE] /\ Cancel(s)
        /\ UNCHANGED <<settings, link, wire, pos, values, strays>>
        /\ failures' = failures + 1 /\ failures + strays < MaxTroubles
    BY <1>1 DEF StartIoFails
  <1>3. th \in [Lanes(s) -> {"none", "run", "end"}]
    OBVIOUS
  <1>4. failures' \in 0..MaxTroubles
    BY <1>2, LinkBounds DEF TypeOK
  <1> HIDE DEF th
  <1> QED BY <1>2, <1>3, <1>4, ControlStep

LEMMA LaneEndsStep ==
    ASSUME TypeOK, Flow, NEW s \in Sides, NEW l \in Lanes(s), LaneEnds(s, l)
    PROVE  TypeOK' /\ Flow'
  <1> DEFINE th == [thread[s] EXCEPT ![l] = "end"]
  <1>1. /\ pc[s] = "io" /\ pc' = pc /\ pos[s][l] = Last(s, l)
        /\ UNCHANGED <<failure, down>> /\ UNCHANGED <<settings, link, wire, pos, values, strays>>
        /\ failures' = failures
    BY DEF LaneEnds, Running, bounds
  <1>2. pc' = [pc EXCEPT ![s] = "io"]
    BY <1>1 DEF TypeOK
  <1>3. thread' = [thread EXCEPT ![s] = th]
    BY DEF LaneEnds, TypeOK
  <1>4. th \in [Lanes(s) -> {"none", "run", "end"}]
    BY DEF TypeOK
  <1>5. ASSUME NEW j \in Lanes(s), ~failure[s], pos[s][j] < Last(s, j) PROVE th[j] = "run"
    <2>1. thread[s][j] = "run"
      BY <1>1, <1>5 DEF Flow, Threads
    <2>2. Last(s, l) \in Nat /\ j # l
      BY <1>1, <1>5, LaneFacts
    <2> QED BY <2>1, <2>2 DEF TypeOK
  <1>6. failures' \in 0..MaxTroubles
    BY <1>1 DEF TypeOK
  <1> HIDE DEF th
  <1> QED BY <1>1, <1>2, <1>3, <1>4, <1>5, <1>6, ControlStep

LEMMA CaughtStep ==
    ASSUME TypeOK, Flow, NEW s \in Sides, NEW l \in Lanes(s), pc[s] = "io", Caught(s, l),
           failures' \in 0..MaxTroubles
    PROVE  TypeOK' /\ Flow'
  <1> DEFINE th == [thread[s] EXCEPT ![l] = "end"]
  <1>1. /\ pc' = pc /\ failure' = [failure EXCEPT ![s] = TRUE] /\ Cancel(s)
        /\ UNCHANGED <<settings, link, wire, pos, values, strays>>
    BY DEF Caught
  <1>2. pc' = [pc EXCEPT ![s] = "io"]
    BY <1>1 DEF TypeOK
  <1>3. thread' = [thread EXCEPT ![s] = th]
    BY DEF Caught, TypeOK
  <1>4. th \in [Lanes(s) -> {"none", "run", "end"}]
    BY DEF TypeOK
  <1> HIDE DEF th
  <1> QED BY <1>1, <1>2, <1>3, <1>4, ControlStep

LEMMA LaneFailsStep ==
    ASSUME TypeOK, Flow, NEW s \in Sides, NEW l \in Lanes(s),
           LaneFails(s, l) \/ LaneBreaks(s, l)
    PROVE  TypeOK' /\ Flow'
  <1>1. pc[s] = "io" /\ Caught(s, l)
    BY DEF LaneFails, LaneBreaks, Running
  <1>2. failures' = failures \/ (failures' = failures + 1 /\ failures + strays < MaxTroubles)
    BY DEF LaneFails, LaneBreaks
  <1>3. failures' \in 0..MaxTroubles
    BY <1>2, LinkBounds DEF TypeOK
  <1> QED BY <1>1, <1>3, CaughtStep

\* A lane of s goes on by one item.
Moved(s, l) ==
    /\ Running(s, l) /\ pos[s][l] < Last(s, l)
    /\ pos' = [pos EXCEPT ![s][l] = @ + 1]
    /\ UNCHANGED <<settings, pc, link, down, thread, failure, bounds>>

LEMMA MovedFacts ==
    ASSUME TypeOK, Flow, NEW s \in Sides, NEW l \in Lanes(s), Moved(s, l)
    PROVE  /\ DOMAIN pos' = Sides /\ pos[s][l] \in Nat /\ First(s, l) \in Nat
           /\ pos'[s][l] = pos[s][l] + 1 /\ pos[s][l] \in 0..(count[s] - 1)
           /\ pos[s][l] \in Items
           /\ \A t \in Sides : pos'[t] \in [Lanes(t) -> 0..count[t]]
           /\ \A t \in Sides : \A j : t # s \/ j # l => pos'[t][j] = pos[t][j]
           /\ Accepting' /\ Connecting' /\ Compared' /\ Threads' /\ Closing'
  <1>1. /\ lanes' = lanes /\ count' = count /\ param' = param /\ validate' = validate
        /\ writer' = writer /\ listening' = listening /\ made' = made /\ fds' = fds
        /\ pc' = pc /\ down' = down /\ thread' = thread /\ failure' = failure
        /\ strays' = strays
    BY DEF Moved, settings, link, bounds
  <1>2. pc[s] = "io" /\ thread[s][l] = "run" /\ pos[s][l] < Last(s, l)
    BY DEF Moved, Running
  <1>3. pos[s] \in [Lanes(s) -> 0..count[s]] /\ DOMAIN pos = Sides
    BY DEF TypeOK
  <1>4. pos[s][l] \in Nat /\ First(s, l) \in Nat /\ Last(s, l) \in Nat /\ Last(s, l) <= count[s]
        /\ count[s] \in Nat
    BY <1>3, LaneFacts
  <1>5. pos[s][l] \in 0..(count[s] - 1) /\ pos[s][l] \in Items
    BY <1>2, <1>4, LaneFacts
  <1>6. pos' = [pos EXCEPT ![s][l] = pos[s][l] + 1]
    BY DEF Moved
  <1>7. DOMAIN pos' = Sides /\ pos'[s][l] = pos[s][l] + 1
    BY <1>3, <1>6
  <1>8. \A t \in Sides : \A j : t # s \/ j # l => pos'[t][j] = pos[t][j]
    <2> SUFFICES ASSUME NEW t \in Sides, NEW j, t # s \/ j # l PROVE pos'[t][j] = pos[t][j]
      OBVIOUS
    <2>1. CASE t # s
      BY <1>3, <1>6, <2>1
    <2>2. CASE t = s
      <3>1. pos'[s] = [pos[s] EXCEPT ![l] = pos[s][l] + 1] /\ j # l
        BY <1>3, <1>6, <2>2
      <3> QED BY <1>3, <2>2, <3>1
    <2> QED BY <2>1, <2>2
  <1>9. \A t \in Sides : pos'[t] \in [Lanes(t) -> 0..count[t]]
    <2> SUFFICES ASSUME NEW t \in Sides PROVE pos'[t] \in [Lanes(t) -> 0..count[t]]
      OBVIOUS
    <2>1. CASE t # s
      <3>1. pos'[t] = pos[t]
        BY <1>3, <1>6, <2>1
      <3> QED BY <3>1 DEF TypeOK
    <2>2. CASE t = s
      <3>1. pos'[s] = [pos[s] EXCEPT ![l] = pos[s][l] + 1]
        BY <1>3, <1>6
      <3>2. pos[s][l] + 1 \in 0..count[s]
        BY <1>4, <1>5
      <3> QED BY <1>3, <2>2, <3>1, <3>2
    <2> QED BY <2>1, <2>2
  <1>10. Accepting' /\ Connecting' /\ Compared'
    BY <1>1, LinkSame DEF Flow, Moved, bounds
  <1>11. Threads'
    <2>1. \A t \in Sides : Lanes(t)' = Lanes(t) /\ MyConns(t)' = MyConns(t)
      BY <1>1 DEF Lanes, MyConns, Conn
    <2>2. \A t \in Sides : \A j : First(t, j)' = First(t, j) /\ Last(t, j)' = Last(t, j)
      BY <1>1 DEF First, Last
    <2>3. ASSUME NEW t \in Sides, NEW j \in Lanes(t)
          PROVE  /\ First(t, j) <= pos'[t][j] /\ pos'[t][j] <= Last(t, j)
                 /\ pc[t] \notin {"io", "done", "failed"} => pos'[t][j] = First(t, j)
                 /\ pc[t] = "io" /\ ~failure[t] /\ pos'[t][j] < Last(t, j) => thread[t][j] = "run"
                 /\ pc[t] = "done" => pos'[t][j] = Last(t, j)
      <3>1. CASE t = s /\ j = l
        <4>1. First(s, l) <= pos[s][l]
          BY DEF Flow, Threads
        <4> QED BY <1>2, <1>4, <1>7, <3>1, <4>1
      <3>2. CASE t # s \/ j # l
        BY <1>8, <2>3, <3>2 DEF Flow, Threads
      <3> QED BY <3>1, <3>2
    <2> QED BY <1>1, <2>1, <2>2, <2>3 DEF Flow, Threads
  <1>12. Closing'
    BY <1>1 DEF Flow, Closing, Ended, Matched, Metadata, Lanes
  <1> QED BY <1>4, <1>5, <1>7, <1>8, <1>9, <1>10, <1>11, <1>12

\* What the wire's alignment depends on besides positions and contents.
LEMMA SameSetup ==
    ASSUME TypeOK, UNCHANGED <<settings, pc, link>>
    PROVE  /\ writer' = writer /\ Reader' = Reader /\ Made' = Made
           /\ \A s \in Sides : Lanes(s)' = Lanes(s) /\ Hello(s)' = Hello(s)
           /\ \A s \in Sides : \A k : First(s, k)' = First(s, k) /\ Conn(s, k)' = Conn(s, k)
           /\ \A s \in Sides : \A k : Greeted(s, k)' = Greeted(s, k)
           /\ \A s \in Sides : \A k : Reads(s, k)' <=> Reads(s, k)
           /\ \A k : (Stored(k)' <=> Stored(k)) /\ (Queued(k)' <=> Queued(k))
           /\ \A k : Examined(k, "id")' <=> Examined(k, "id")
           /\ \A s \in Sides : \A k, n, x : IsMessage(s, k, n, x)' <=> IsMessage(s, k, n, x)
  <1>1. /\ lanes' = lanes /\ count' = count /\ param' = param /\ validate' = validate
        /\ writer' = writer /\ backlog' = backlog /\ made' = made /\ current' = current
        /\ fds' = fds /\ pc' = pc
    BY DEF settings, link
  <1>2. writer' = writer /\ Reader' = Reader /\ Made' = Made
    BY <1>1 DEF Reader, Made
  <1>3. \A s \in Sides : Lanes(s)' = Lanes(s) /\ Hello(s)' = Hello(s) /\ Metadata(s)' = Metadata(s)
    BY <1>1 DEF Lanes, Hello, Metadata
  <1>4. \A s \in Sides : \A k : First(s, k)' = First(s, k) /\ Conn(s, k)' = Conn(s, k)
    BY <1>1 DEF First, Conn
  <1>5. \A k : (Stored(k)' <=> Stored(k)) /\ (Queued(k)' <=> Queued(k)) /\ (Passed(k)' <=> Passed(k))
    BY <1>1, <1>3, SideFacts DEF Stored, Queued, Passed
  <1>6. \A k : (Examined(k, "id")' <=> Examined(k, "id")) /\ (Examined(k, "meta")' <=> Examined(k, "meta"))
    BY <1>1 DEF Examined
  <1>7. \A s \in Sides : \A k : Greeted(s, k)' = Greeted(s, k)
    BY <1>1, <1>5, <1>6 DEF Greeted
  <1>8. \A s \in Sides : \A k : Reads(s, k)' <=> Reads(s, k)
    BY <1>1, <1>5 DEF Reads
  <1>9. \A s \in Sides : \A k, n, x : IsMessage(s, k, n, x)' <=> IsMessage(s, k, n, x)
    BY <1>1, <1>3, <1>4 DEF IsMessage
  <1> QED BY <1>2, <1>3, <1>4, <1>5, <1>6, <1>7, <1>8, <1>9

\* The connections that have been made, and the numbers of messages on them.
LEMMA MadeFacts ==
    ASSUME TypeOK
    PROVE  /\ made \in Nat /\ made <= lanes[Connector]
           /\ Made \subseteq Lanes(Connector) /\ Made \subseteq LaneIds /\ Foreign \notin Made
  <1>1. made \in 0..lanes[Connector] /\ lanes[Connector] \in Nat
    BY LaneFacts, SideFacts DEF TypeOK
  <1>2. Made \subseteq Lanes(Connector)
    BY <1>1 DEF Made, Lanes
  <1> QED BY <1>1, <1>2, LaneFacts, SideFacts, ConnFacts

LEMMA NumberFacts ==
    ASSUME TypeOK, Flow, NEW s \in Sides, NEW k \in Made
    PROVE  /\ Given(s, k) \in Nat /\ Taken(s, k) \in Nat /\ Greeted(s, k) \in {0, 1, 2}
           /\ Hello(s) \in 0..2 /\ (s = Connector => Hello(s) > 0)
           /\ Len(wire[s][k]) \in Nat
  <1>1. Greeted(s, k) \in {0, 1, 2} /\ Hello(s) \in 0..2 /\ (s = Connector => Hello(s) > 0)
    BY DEF Greeted, Hello
  <1>2. k \in Lanes(s) => First(s, k) \in Nat /\ pos[s][k] \in Nat /\ First(s, k) <= pos[s][k]
    BY LaneFacts DEF Flow, Threads, TypeOK
  <1>3. s = Connector => k \in Lanes(s)
    BY MadeFacts
  <1>4. Stored(k) /\ s = Acceptor => k \in Lanes(s)
    BY DEF Stored
  <1>5. s = Acceptor \/ s = Connector
    BY SideFacts
  <1>6. Given(s, k) \in Nat
    BY <1>1, <1>2, <1>3, <1>4, <1>5 DEF Given
  <1>7. Taken(s, k) \in Nat
    BY <1>1, <1>2, <1>3, <1>4, <1>5 DEF Taken
  <1>8. k \in Conns
    BY MadeFacts, ConnFacts
  <1> QED BY <1>1, <1>6, <1>7, <1>8 DEF TypeOK, WireTyped

LEMMA LaneWriteStep ==
    ASSUME TypeOK, Flow, NEW s \in Sides, NEW l \in Lanes(s), LaneWrite(s, l)
    PROVE  TypeOK' /\ Flow'
  <1>a. PICK k : k = Conn(s, l)
    OBVIOUS
  <1>b. PICK p : p = pos[s][l]
    OBVIOUS
  <1> DEFINE x == [kind |-> "ct", is |-> p]
  <1>1. /\ Moved(s, l) /\ s = writer /\ Len(wire[s][k]) < Cap
        /\ UNCHANGED values /\ wire' = [wire EXCEPT ![s][k] = Append(@, x)]
    BY <1>a, <1>b DEF LaneWrite, Moved
  <1>2. /\ DOMAIN pos' = Sides /\ pos[s][l] \in Nat /\ First(s, l) \in Nat
        /\ pos'[s][l] = pos[s][l] + 1 /\ pos[s][l] \in Items
        /\ \A t \in Sides : pos'[t] \in [Lanes(t) -> 0..count[t]]
        /\ \A t \in Sides : \A j : t # s \/ j # l => pos'[t][j] = pos[t][j]
        /\ Accepting' /\ Connecting' /\ Compared' /\ Threads' /\ Closing'
    BY <1>1, MovedFacts
  <1>3. pc[s] = "io" /\ l \in LaneIds /\ l # Foreign
    BY <1>1, LaneFacts, ConnFacts DEF Moved, Running
  <1>4. /\ s = Connector => k = l /\ l \in Made
        /\ s = Acceptor => fds[l] = k /\ k \in {l, Foreign} /\ (k = l <=> Stored(l))
    <2>1. ASSUME s = Connector PROVE k = l /\ l \in Made
      <3>1. made = lanes[Connector]
        BY <1>3, <2>1 DEF Flow, Connecting
      <3>2. Made = Lanes(Connector)
        BY <3>1 DEF Made, Lanes
      <3> QED BY <1>a, <2>1, <3>2, SideFacts DEF Conn
    <2>2. ASSUME s = Acceptor PROVE fds[l] = k /\ k \in {l, Foreign} /\ (k = l <=> Stored(l))
      BY <1>3, <1>a, <2>2 DEF Flow, Accepting, Conn, Stored
    <2> QED BY <2>1, <2>2
  <1>5. k \in Conns
    BY <1>3, <1>4, ConnFacts, SideFacts
  <1>c. PICK q : q = wire[s][k]
    OBVIOUS
  <1>6. x \in Messages /\ q \in Seq(Messages) /\ WireTyped(wire)
    BY <1>2, <1>5, <1>b, <1>c, MessageTypes DEF TypeOK, WireTyped
  <1> DEFINE v == Append(q, x)
  <1>7. /\ v \in Seq(Messages) /\ Len(v) = Len(q) + 1 /\ v[Len(q) + 1] = x /\ Len(q) \in Nat
        /\ \A j \in 1..Len(q) : v[j] = q[j]
    BY <1>6
  <1>8. wire' = [wire EXCEPT ![s][k] = v]
    BY <1>1, <1>5, <1>c DEF TypeOK, WireTyped
  <1> HIDE DEF v, x
  <1>9. Len(v) <= Cap + 2
    BY <1>1, <1>7, <1>c, LinkBounds
  <1>10. WireTyped(wire') /\ wire'[s][k] = v /\ SameElsewhere(wire, wire', s, k)
    <2>1. v \in Seq(Messages)
      BY <1>7
    <2>2. WireTyped(wire)
      BY <1>6
    <2>3. Put(wire, [wire EXCEPT ![s][k] = v], s, k, v)
      BY <1>5, <1>9, <2>1, <2>2, PutFacts
    <2> QED BY <1>8, <2>3 DEF Put
  <1>11. /\ UNCHANGED <<settings, link, strays>> /\ pc' = pc /\ down' = down
         /\ thread' = thread /\ failure' = failure /\ failures' = failures
    BY <1>1 DEF Moved, bounds
  <1>12. TypeOK'
    <2>1. /\ pc' \in [Sides -> Places] /\ down' \in [Sides -> SUBSET Conns]
          /\ failure' \in [Sides -> BOOLEAN] /\ DOMAIN thread' = Sides
          /\ failures' \in 0..MaxTroubles
          /\ \A t \in Sides : thread'[t] \in [Lanes(t) -> {"none", "run", "end"}]
          /\ values' \in [Items -> Items \cup {None, Foreign}]
      BY <1>1, <1>11 DEF TypeOK
    <2> QED BY <1>2, <1>10, <1>11, <2>1, TypeThread
  <1>13. /\ writer' = writer /\ Reader' = Reader /\ Made' = Made
         /\ \A t \in Sides : Lanes(t)' = Lanes(t) /\ Hello(t)' = Hello(t)
         /\ \A t \in Sides : \A j : First(t, j)' = First(t, j) /\ Conn(t, j)' = Conn(t, j)
         /\ \A t \in Sides : \A j : Greeted(t, j)' = Greeted(t, j)
         /\ \A t \in Sides : \A j : Reads(t, j)' <=> Reads(t, j)
         /\ \A j : (Stored(j)' <=> Stored(j)) /\ (Queued(j)' <=> Queued(j))
         /\ \A j : Examined(j, "id")' <=> Examined(j, "id")
         /\ \A t \in Sides : \A j, n, y : IsMessage(t, j, n, y)' <=> IsMessage(t, j, n, y)
    BY <1>11, SameSetup
  <1>14. Reader \in Sides /\ Reader # s /\ Reader = Other(s) /\ Other(Reader) = s
    BY <1>1, SideFacts DEF Reader
  <1>15. \A t \in Sides : \A j : Taken(t, j)' = Taken(t, j)
    BY <1>2, <1>13, <1>14 DEF Taken
  <1>16. \A j \in Made : Given(Other(s), j)' = Given(Other(s), j)
    BY <1>1, <1>13, <1>14 DEF Given
  <1>17. \A j \in Made : j # k => Given(s, j)' = Given(s, j)
    BY <1>1, <1>2, <1>4, <1>13, SideFacts DEF Given
  <1>18. k \in Made => k = l /\ Given(s, k)' = Given(s, k) + 1
         /\ Given(s, k) = Hello(s) + (pos[s][l] - First(s, l))
    <2> SUFFICES ASSUME k \in Made
                 PROVE  k = l /\ Given(s, k)' = Given(s, k) + 1
                        /\ Given(s, k) = Hello(s) + (pos[s][l] - First(s, l))
      OBVIOUS
    <2>1. k = l /\ (s = Acceptor => Stored(k))
      BY <1>4, MadeFacts, SideFacts
    <2>2. Given(s, k) = Hello(s) + (pos[s][l] - First(s, l))
      BY <1>1, <2>1 DEF Given
    <2>3. Given(s, k)' = Hello(s) + (pos'[s][l] - First(s, l))
      BY <1>1, <1>13, <2>1 DEF Given
    <2>4. Hello(s) \in Int
      BY NumberFacts
    <2> QED BY <1>2, <2>1, <2>2, <2>3, <2>4
  <1>19. ASSUME NEW t \in Sides, NEW j \in Made, Reads(t, j) PROVE Aligned(t, j)'
    <2>1. Aligned(t, j)
      BY <1>19 DEF Flow, Streams
    <2>2. j \in Conns /\ Other(t) \in Sides
      BY MadeFacts, ConnFacts, SideFacts
    <2>3. CASE Other(t) # s \/ j # k
      <3>1. wire'[Other(t)][j] = wire[Other(t)][j]
        BY <1>10, <2>2, <2>3 DEF SameElsewhere
      <3>2. Given(Other(t), j)' = Given(Other(t), j)
        BY <1>14, <1>16, <1>17, <2>2, <2>3, SideFacts
      <3> QED BY <1>13, <1>15, <2>1, <2>2, <3>1, <3>2 DEF Aligned
    <2>4. CASE Other(t) = s /\ j = k
      <3>1. Given(s, k) = Taken(t, k) + Len(q)
            /\ \A i \in 1..Len(q) : IsMessage(s, k, Taken(t, k) + i, q[i])
        BY <1>c, <2>1, <2>4 DEF Aligned
      <3>2. Taken(t, k) \in Nat /\ Given(s, k) \in Nat /\ Hello(s) \in Nat
            /\ (s = Connector => Hello(s) > 0)
        BY <2>4, NumberFacts
      <3>3. Given(s, k)' = Taken(t, k) + Len(v)
        BY <1>7, <1>18, <2>4, <3>1, <3>2
      <3>4. IsMessage(s, k, Taken(t, k) + (Len(q) + 1), x)
        <4> DEFINE n == Taken(t, k) + (Len(q) + 1)
        <4>1. n = Hello(s) + (pos[s][l] - First(s, l)) + 1 /\ k = l
          BY <1>7, <1>18, <2>4, <3>1, <3>2
        <4>2. First(s, l) <= pos[s][l]
          BY DEF Flow, Threads
        <4> HIDE DEF n
        <4>3. n \in Nat /\ n > Hello(s) /\ (s = Connector => n > 1)
              /\ First(s, l) + (n - 1 - Hello(s)) = pos[s][l]
          BY <1>2, <3>2, <4>1, <4>2
        <4>4. IsMessage(s, k, n, x)
          BY <1>b, <3>2, <4>1, <4>3 DEF IsMessage, x
        <4> QED BY <4>4 DEF n
      <3>5. \A i \in 1..Len(v) : IsMessage(s, k, Taken(t, k) + i, v[i])
        <4> SUFFICES ASSUME NEW i \in 1..Len(v) PROVE IsMessage(s, k, Taken(t, k) + i, v[i])
          OBVIOUS
        <4>1. CASE i = Len(q) + 1
          BY <1>7, <3>4, <4>1
        <4>2. CASE i # Len(q) + 1
          <5>1. i \in 1..Len(q)
            BY <1>7, <4>2
          <5> QED BY <1>7, <3>1, <5>1
        <4> QED BY <4>1, <4>2
      <3> QED BY <1>10, <1>13, <1>15, <2>4, <3>3, <3>5 DEF Aligned
    <2> QED BY <2>3, <2>4
  <1>20. Streams'
    <2>1. ASSUME NEW j \in LaneIds
          PROVE  /\ ~Stored(j) => wire'[Acceptor][j] = <<>>
                 /\ j \notin Made => wire'[Connector][j] = <<>>
      <3>1. j \in Conns /\ (~Stored(j) => wire[Acceptor][j] = <<>>)
            /\ (j \notin Made => wire[Connector][j] = <<>>)
        BY <2>1, ConnFacts DEF Flow, Streams
      <3>2. ~Stored(j) => s # Acceptor \/ j # k
        BY <1>4, ConnFacts
      <3>3. j \notin Made => s # Connector \/ j # k
        BY <1>4
      <3> QED BY <1>10, <3>1, <3>2, <3>3, SideFacts DEF SameElsewhere
    <2>2. wire'[Connector][Foreign] = wire[Connector][Foreign]
      <3>1. s # Connector \/ Foreign # k
        BY <1>3, <1>4
      <3> QED BY <1>10, <3>1, SideFacts, ConnFacts DEF SameElsewhere
    <2>3. (\A j \in Lanes(Acceptor) : fds[j] # Foreign) => wire'[Acceptor][Foreign] = <<>>
      <3> SUFFICES ASSUME \A j \in Lanes(Acceptor) : fds[j] # Foreign
                   PROVE  wire'[Acceptor][Foreign] = <<>>
        OBVIOUS
      <3>1. s # Acceptor \/ Foreign # k
        BY <1>4
      <3>2. wire'[Acceptor][Foreign] = wire[Acceptor][Foreign]
        BY <1>10, <3>1, SideFacts, ConnFacts DEF SameElsewhere
      <3> QED BY <3>2 DEF Flow, Streams
    <2>4. fds' = fds
      BY <1>11 DEF link
    <2> QED BY <1>13, <1>19, <2>1, <2>2, <2>3, <2>4, SideFacts DEF Flow, Streams
  <1>21. Read'
    <2>1. \A j : pos'[Reader][j] = pos[Reader][j]
      BY <1>2, <1>14
    <2>2. /\ UNCHANGED <<values, validate>> /\ writer \in Sides
      BY <1>1, <1>11 DEF settings, TypeOK
    <2> QED BY <1>13, <1>14, <2>1, <2>2 DEF Flow, Read
  <1> QED BY <1>2, <1>12, <1>20, <1>21 DEF Flow

\* Lanes share no index.
LEMMA LanesDisjoint ==
    ASSUME TypeOK, NEW s \in Sides, NEW l \in Lanes(s), NEW j \in Lanes(s), NEW i \in Nat,
           First(s, l) <= i, i < Last(s, l), First(s, j) <= i, i < Last(s, j)
    PROVE  l = j
  <1>1. count[s] \in Nat \ {0} /\ lanes[s] \in Nat \ {0} /\ i \in 0..(count[s] - 1)
    BY LaneFacts
  <1>2. l \in 0..(lanes[s] - 1) /\ j \in 0..(lanes[s] - 1)
    BY DEF Lanes
  <1>3. l = LaneOf(count[s], lanes[s], i)
    BY <1>1, <1>2, LanesPartition DEF First, Last
  <1>4. j = LaneOf(count[s], lanes[s], i)
    BY <1>1, <1>2, LanesPartition DEF First, Last
  <1> QED BY <1>3, <1>4

\* A ciphertext that comes next on the reader's connection is the one of the
\* writer's lane, and both sides have exchanged the same greetings.
LEMMA NextCiphertext ==
    ASSUME TypeOK, Flow, NEW s \in Sides, s = Reader, pc[s] = "io", NEW l \in Lanes(s),
           Conn(s, l) = l, Arrived(s, l), Message(s, l).kind = "ct"
    PROVE  /\ l \in Made /\ Reads(s, l) /\ (s = Acceptor => Stored(l))
           /\ Taken(s, l) = Greeted(s, l) + (pos[s][l] - First(s, l))
           /\ Stored(l) /\ l \in Lanes(writer) /\ validate[Acceptor] = validate[Connector]
           /\ Message(s, l).is = First(writer, l) + (pos[s][l] - First(s, l))
  <1>1. writer = Other(s) /\ writer \in Sides
    BY SideFacts DEF Reader, TypeOK
  <1>2. l \in LaneIds /\ l \in Nat /\ First(s, l) \in Nat /\ pos[s][l] \in Nat
        /\ First(s, l) <= pos[s][l]
    BY LaneFacts DEF Flow, Threads, TypeOK
  <1>3. l \in Made /\ (s = Acceptor => Stored(l))
    <2>1. CASE s = Acceptor
      <3>1. Stored(l)
        BY <2>1 DEF Conn, Stored
      <3> QED BY <1>2, <2>1, <3>1 DEF Flow, Accepting
    <2>2. CASE s = Connector
      <3>1. made = lanes[Connector]
        BY <2>2 DEF Flow, Connecting
      <3> QED BY <2>2, <3>1, SideFacts DEF Made, Lanes
    <2> QED BY <2>1, <2>2, SideFacts
  <1>4. Reads(s, l)
    BY <1>3 DEF Reads
  <1>5. Aligned(s, l)
    BY <1>3, <1>4 DEF Flow, Streams
  <1>6. l \in Conns
    BY <1>2, ConnFacts
  <1>7. /\ Message(s, l) = wire[writer][l][1] /\ Len(wire[writer][l]) \in Nat \ {0}
    BY <1>1, <1>6, TakeFacts
  <1>8. /\ Given(writer, l) = Taken(s, l) + Len(wire[writer][l])
        /\ IsMessage(writer, l, Taken(s, l) + 1, Message(s, l))
    <2>1. 1 \in 1..Len(wire[writer][l])
      BY <1>7
    <2> QED BY <1>1, <1>5, <1>7, <2>1 DEF Aligned
  <1>9. /\ Taken(s, l) \in Nat /\ Given(writer, l) \in Nat /\ Greeted(s, l) \in {0, 1, 2}
        /\ Hello(writer) \in 0..2
    BY <1>1, <1>3, NumberFacts
  <1>10. Taken(s, l) = Greeted(s, l) + (pos[s][l] - First(s, l))
    BY <1>3 DEF Taken
  <1>11. Stored(l) /\ l \in Lanes(writer)
    <2>1. CASE s = Acceptor
      BY <1>1, <1>3, <2>1, MadeFacts, SideFacts
    <2>2. CASE s = Connector
      <3>1. Given(writer, l) > 0
        BY <1>7, <1>8, <1>9
      <3>2. Stored(l)
        BY <1>1, <2>2, <3>1, SideFacts DEF Given
      <3> QED BY <1>1, <2>2, <3>2, SideFacts DEF Stored
    <2> QED BY <2>1, <2>2, SideFacts
  <1>12. /\ Taken(s, l) + 1 > Hello(writer)
         /\ Message(s, l).is = First(writer, l) + (Taken(s, l) + 1 - 1 - Hello(writer))
    <2>1. PICK n : n = Taken(s, l) + 1
      OBVIOUS
    <2>2. PICK x : x = Message(s, l)
      OBVIOUS
    <2>3. IsMessage(writer, l, n, x) /\ x.kind = "ct"
      BY <1>8, <2>1, <2>2
    <2>4. x # [kind |-> "id", is |-> l] /\ x # [kind |-> "meta", is |-> Metadata(writer)]
      BY <2>3
    <2>5. ~(n <= Hello(writer))
          /\ x = [kind |-> "ct", is |-> First(writer, l) + (n - 1 - Hello(writer))]
      BY <2>3, <2>4 DEF IsMessage
    <2>6. x.is = First(writer, l) + (n - 1 - Hello(writer))
      BY <2>5
    <2> QED BY <1>9, <2>1, <2>2, <2>5, <2>6
  <1>13. validate[Acceptor] \in BOOLEAN /\ validate[Connector] \in BOOLEAN
    BY SideFacts, LinkSettings DEF TypeOK
  <1>14. Greeted(s, l) = Hello(writer) /\ validate[Acceptor] = validate[Connector]
    <2>1. pos[s][l] > First(s, l) => validate[Acceptor] = validate[Connector]
      BY DEF Flow, Read
    <2>2. pos[s][l] = First(s, l) => Greeted(s, l) + 1 > Hello(writer)
      BY <1>2, <1>9, <1>10, <1>12
    <2>3. CASE s = Acceptor
      <3>1. validate[Acceptor] => validate[Connector]
        BY <1>11, ConnFacts, <1>6 DEF Flow, Compared, Stored
      <3>2. Greeted(s, l) = IF validate[Acceptor] THEN 2 ELSE 1
        BY <1>11, <2>3, SideFacts DEF Greeted
      <3>3. Hello(writer) = IF validate[Connector] THEN 2 ELSE 1
        BY <1>1, <2>3, SideFacts DEF Hello
      <3>4. pos[s][l] = First(s, l) => (validate[Connector] => validate[Acceptor])
        BY <2>2, <3>2, <3>3
      <3>5. validate[Acceptor] = validate[Connector]
        BY <1>2, <1>13, <2>1, <3>1, <3>4
      <3> QED BY <3>2, <3>3, <3>5
    <2>4. CASE s = Connector
      <3>1. Passed(l)
        BY <2>4 DEF Passed
      <3>2. validate[Connector] => validate[Acceptor]
        BY <1>3, <2>4, <3>1 DEF Flow, Compared
      <3>3. Greeted(s, l) = IF validate[Connector] THEN 1 ELSE 0
        BY <2>4, <3>1 DEF Greeted
      <3>4. Hello(writer) = IF validate[Acceptor] THEN 1 ELSE 0
        BY <1>1, <2>4, SideFacts DEF Hello
      <3>5. pos[s][l] = First(s, l) => (validate[Acceptor] => validate[Connector])
        BY <2>2, <3>3, <3>4
      <3>6. validate[Acceptor] = validate[Connector]
        BY <1>2, <1>13, <2>1, <3>2, <3>5
      <3> QED BY <3>3, <3>4, <3>6
    <2> QED BY <2>3, <2>4, SideFacts
  <1>15. First(writer, l) \in Nat
    BY <1>1, <1>11, LaneFacts
  <1>16. Message(s, l).is = First(writer, l) + (pos[s][l] - First(s, l))
    BY <1>2, <1>9, <1>10, <1>12, <1>14, <1>15
  <1> QED BY <1>3, <1>4, <1>10, <1>11, <1>14, <1>16

\* One message has been taken: the rest is aligned one further.
LEMMA AlignedTail ==
    ASSUME TypeOK, Flow, NEW s \in Sides, NEW k \in Made, Reads(s, k), Arrived(s, k),
           wire'[Other(s)][k] = Tail(wire[Other(s)][k]),
           Given(Other(s), k)' = Given(Other(s), k), Taken(s, k)' = Taken(s, k) + 1,
           \A n, x : IsMessage(Other(s), k, n, x)' <=> IsMessage(Other(s), k, n, x)
    PROVE  Aligned(s, k)'
  <1>1. PICK q : q = wire[Other(s)][k]
    OBVIOUS
  <1>2. PICK n : n = Taken(s, k)
    OBVIOUS
  <1>3. k \in Conns
    BY MadeFacts, ConnFacts
  <1>4. /\ Len(q) \in Nat \ {0} /\ Len(Tail(q)) = Len(q) - 1
        /\ \A j \in 1..(Len(q) - 1) : Tail(q)[j] = q[j + 1]
    BY <1>1, <1>3, TakeFacts
  <1>5. Aligned(s, k)
    BY DEF Flow, Streams
  <1>6. /\ Given(Other(s), k) = n + Len(q)
        /\ \A j \in 1..Len(q) : IsMessage(Other(s), k, n + j, q[j])
    BY <1>1, <1>2, <1>5 DEF Aligned
  <1>7. n \in Nat
    BY <1>2, NumberFacts
  <1>8. Given(Other(s), k)' = (n + 1) + Len(Tail(q))
    BY <1>4, <1>6, <1>7
  <1>9. \A j \in 1..Len(Tail(q)) : IsMessage(Other(s), k, (n + 1) + j, Tail(q)[j])'
    <2> SUFFICES ASSUME NEW j \in 1..Len(Tail(q))
                 PROVE  IsMessage(Other(s), k, (n + 1) + j, Tail(q)[j])
      OBVIOUS
    <2>1. j + 1 \in 1..Len(q) /\ Tail(q)[j] = q[j + 1] /\ (n + 1) + j = n + (j + 1)
      BY <1>4, <1>7
    <2> QED BY <1>6, <2>1
  <1>10. Taken(s, k)' = n + 1
    BY <1>2
  <1> QED BY <1>1, <1>8, <1>9, <1>10 DEF Aligned

LEMMA LaneReadStep ==
    ASSUME TypeOK, Flow, NEW s \in Sides, NEW l \in Lanes(s), LaneRead(s, l)
    PROVE  TypeOK' /\ Flow'
  <1>a. PICK k : k = Conn(s, l)
    OBVIOUS
  <1>b. PICK p : p = pos[s][l]
    OBVIOUS
  <1>c. PICK x : x = Message(s, k)
    OBVIOUS
  <1>1. /\ Moved(s, l) /\ s = Reader /\ Arrived(s, k) /\ x.kind = "ct"
        /\ values' = [values EXCEPT ![p] = x.is] /\ wire' = Take(s, k)
    BY <1>a, <1>b, <1>c DEF LaneRead, Moved
  <1>2. /\ DOMAIN pos' = Sides /\ p \in Nat /\ First(s, l) \in Nat
        /\ pos'[s][l] = p + 1 /\ p \in Items
        /\ \A t \in Sides : pos'[t] \in [Lanes(t) -> 0..count[t]]
        /\ \A t \in Sides : \A j : t # s \/ j # l => pos'[t][j] = pos[t][j]
        /\ Accepting' /\ Connecting' /\ Compared' /\ Threads' /\ Closing'
    BY <1>1, <1>b, MovedFacts
  <1>3. /\ pc[s] = "io" /\ p < Last(s, l) /\ l \in LaneIds /\ l # Foreign
    BY <1>1, <1>b, LaneFacts, ConnFacts DEF Moved, Running
  <1>4. k \in {l, Foreign} /\ (s = Connector => k = l)
        /\ (s = Acceptor => fds[l] = k /\ (k = l <=> Stored(l)))
    <2>1. CASE s = Connector
      BY <1>a, <2>1, SideFacts DEF Conn
    <2>2. CASE s = Acceptor
      BY <1>3, <1>a, <2>2, SideFacts DEF Flow, Accepting, Conn, Stored
    <2> QED BY <2>1, <2>2, SideFacts
  <1>5. k \in Conns
    BY <1>3, <1>4, ConnFacts
  <1>6. /\ WireTyped(wire') /\ SameElsewhere(wire, wire', Other(s), k)
        /\ wire'[Other(s)][k] = Tail(wire[Other(s)][k]) /\ x \in Messages
    BY <1>1, <1>5, <1>c, TakeFacts
  <1>7. x.is \in Items \cup {Foreign}
    BY <1>1, <1>6, MessageTypes
  <1>8. /\ UNCHANGED <<settings, link, strays>> /\ pc' = pc /\ down' = down
        /\ thread' = thread /\ failure' = failure /\ failures' = failures
    BY <1>1 DEF Moved, bounds
  <1>9. /\ values' \in [Items -> Items \cup {None, Foreign}] /\ values'[p] = x.is
        /\ \A i \in Items : i # p => values'[i] = values[i]
    <2>1. values \in [Items -> Items \cup {None, Foreign}]
      BY DEF TypeOK
    <2> QED BY <1>1, <1>2, <1>7, <2>1
  <1>10. TypeOK'
    <2>1. /\ pc' \in [Sides -> Places] /\ down' \in [Sides -> SUBSET Conns]
          /\ failure' \in [Sides -> BOOLEAN] /\ DOMAIN thread' = Sides
          /\ failures' \in 0..MaxTroubles
          /\ \A t \in Sides : thread'[t] \in [Lanes(t) -> {"none", "run", "end"}]
      BY <1>8 DEF TypeOK
    <2> QED BY <1>2, <1>6, <1>8, <1>9, <2>1, TypeThread
  <1>11. /\ writer' = writer /\ Reader' = Reader /\ Made' = Made
         /\ \A t \in Sides : Lanes(t)' = Lanes(t) /\ Hello(t)' = Hello(t)
         /\ \A t \in Sides : \A j : First(t, j)' = First(t, j) /\ Conn(t, j)' = Conn(t, j)
         /\ \A t \in Sides : \A j : Greeted(t, j)' = Greeted(t, j)
         /\ \A t \in Sides : \A j : Reads(t, j)' <=> Reads(t, j)
         /\ \A j : (Stored(j)' <=> Stored(j)) /\ (Queued(j)' <=> Queued(j))
         /\ \A j : Examined(j, "id")' <=> Examined(j, "id")
         /\ \A t \in Sides : \A j, n, y : IsMessage(t, j, n, y)' <=> IsMessage(t, j, n, y)
    BY <1>8, SameSetup
  <1>12. writer \in Sides /\ writer # s /\ writer = Other(s)
    BY <1>1, SideFacts DEF Reader, TypeOK
  <1>13. \A t \in Sides : \A j \in Made : Given(t, j)' = Given(t, j)
    BY <1>2, <1>11, <1>12 DEF Given
  <1>14. \A j : Taken(Other(s), j)' = Taken(Other(s), j)
    BY <1>1, <1>11, <1>12 DEF Taken
  <1>15. \A j \in Made : j # k => Taken(s, j)' = Taken(s, j)
    BY <1>1, <1>2, <1>4, <1>11, SideFacts DEF Taken
  <1>16. ASSUME k = l
         PROVE  /\ k \in Made /\ Reads(s, k) /\ (s = Acceptor => Stored(l))
                /\ Taken(s, k) = Greeted(s, k) + (p - First(s, k))
                /\ Stored(l) /\ l \in Lanes(writer) /\ validate[Acceptor] = validate[Connector]
                /\ x.is = First(writer, l) + (p - First(s, l))
    BY <1>1, <1>3, <1>16, <1>a, <1>b, <1>c, NextCiphertext
  <1>17. ASSUME k = l PROVE Taken(s, k)' = Taken(s, k) + 1
    <2>1. Taken(s, k)' = Greeted(s, k) + (pos'[s][l] - First(s, k))
      BY <1>1, <1>11, <1>16, <1>17 DEF Taken
    <2>2. Greeted(s, k) \in {0, 1, 2} /\ First(s, k) \in Nat
      BY <1>2, <1>16, <1>17, NumberFacts
    <2> QED BY <1>2, <1>16, <1>17, <2>1, <2>2
  <1>18. ASSUME NEW t \in Sides, NEW j \in Made, Reads(t, j) PROVE Aligned(t, j)'
    <2>1. Aligned(t, j)
      BY <1>18 DEF Flow, Streams
    <2>2. j \in Conns /\ Other(t) \in Sides /\ j # Foreign
      BY MadeFacts, ConnFacts, SideFacts
    <2>3. CASE t # s \/ j # k
      <3>1. wire'[Other(t)][j] = wire[Other(t)][j]
        BY <1>6, <2>2, <2>3, SideFacts DEF SameElsewhere
      <3>2. Taken(t, j)' = Taken(t, j)
        BY <1>14, <1>15, <2>2, <2>3, SideFacts
      <3> QED BY <1>11, <1>13, <2>1, <2>2, <3>1, <3>2 DEF Aligned
    <2>4. CASE t = s /\ j = k
      <3>1. k = l
        BY <1>4, <2>2, <2>4
      <3>2. Taken(s, k)' = Taken(s, k) + 1
        BY <1>17, <3>1
      <3>3. Given(Other(s), k)' = Given(Other(s), k)
        BY <1>13, <2>2, <2>4
      <3>4. \A n, y : IsMessage(Other(s), k, n, y)' <=> IsMessage(Other(s), k, n, y)
        BY <1>11, <2>2, <2>4
      <3>5. k \in Made /\ Reads(s, k)
        BY <1>18, <2>4
      <3>6. Aligned(s, k)'
        BY <1>1, <1>6, <3>2, <3>3, <3>4, <3>5, AlignedTail
      <3> QED BY <2>4, <3>6
    <2> QED BY <2>3, <2>4
  <1>19. Streams'
    <2>1. ASSUME NEW j \in LaneIds
          PROVE  /\ ~Stored(j) => wire'[Acceptor][j] = <<>>
                 /\ j \notin Made => wire'[Connector][j] = <<>>
      <3>1. j \in Conns /\ (~Stored(j) => wire[Acceptor][j] = <<>>)
            /\ (j \notin Made => wire[Connector][j] = <<>>)
        BY <2>1, ConnFacts DEF Flow, Streams
      <3>2. j = k => Stored(j) /\ j \in Made
        BY <1>4, <1>16, <2>1, ConnFacts
      <3> QED BY <1>6, <3>1, <3>2, SideFacts DEF SameElsewhere
    <2>2. ~(Queued(Foreign) \/ Examined(Foreign, "id"))
          \/ wire'[Connector][Foreign] = wire[Connector][Foreign]
      <3>1. CASE s = Acceptor /\ k = Foreign
        BY <1>3, <1>4, <3>1, ConnFacts DEF Flow, Accepting, Examined, Nothing
      <3>2. CASE s # Acceptor \/ k # Foreign
        BY <1>6, <3>2, ConnFacts, SideFacts DEF SameElsewhere
      <3> QED BY <3>1, <3>2
    <2>3. wire'[Acceptor][Foreign] = wire[Acceptor][Foreign]
      <3>1. s # Connector \/ Foreign # k
        BY <1>3, <1>4
      <3> QED BY <1>6, <3>1, ConnFacts, SideFacts DEF SameElsewhere
    <2>4. fds' = fds
      BY <1>8 DEF link
    <2> QED BY <1>11, <1>18, <2>1, <2>2, <2>3, <2>4, SideFacts DEF Flow, Streams
  <1>20. Read'
    <2>1. ASSUME NEW j \in Lanes(s), pos'[s][j] > First(s, j), Conn(s, j) = j
          PROVE  /\ j \in Lanes(writer) /\ validate[Acceptor] = validate[Connector]
                 /\ s = Connector => Stored(j)
                 /\ \A i \in First(s, j)..(pos'[s][j] - 1) :
                      values'[i] = First(writer, j) + (i - First(s, j))
      <3>1. CASE j # l
        <4>1. pos'[s][j] = pos[s][j]
          BY <1>2, <3>1
        <4>2. /\ j \in Lanes(writer) /\ validate[Acceptor] = validate[Connector]
              /\ s = Connector => Stored(j)
              /\ \A i \in First(s, j)..(pos[s][j] - 1) :
                   values[i] = First(writer, j) + (i - First(s, j))
          BY <1>1, <2>1, <4>1 DEF Flow, Read
        <4>3. ASSUME NEW i \in First(s, j)..(pos[s][j] - 1) PROVE i \in Items /\ i # p
          <5>1. /\ First(s, j) \in Nat /\ Last(s, j) \in Nat /\ Last(s, j) <= count[s]
                /\ count[s] \in Nat /\ 0..(count[s] - 1) \subseteq Items
            BY LaneFacts
          <5>2. pos[s][j] <= Last(s, j) /\ pos[s][j] \in Nat
            BY DEF Flow, Threads, TypeOK
          <5>3. i \in Nat /\ First(s, j) <= i /\ i < Last(s, j)
            BY <4>3, <5>1, <5>2
          <5>4. First(s, l) <= p
            BY <1>b DEF Flow, Threads
          <5>5. i # p
            BY <1>3, <3>1, <5>3, <5>4, LanesDisjoint
          <5> QED BY <5>1, <5>3, <5>5
        <4> QED BY <1>9, <4>1, <4>2, <4>3
      <3>2. CASE j = l
        <4>1. k = l
          BY <1>a, <2>1, <3>2
        <4>2. /\ Stored(l) /\ l \in Lanes(writer) /\ validate[Acceptor] = validate[Connector]
              /\ x.is = First(writer, l) + (p - First(s, l))
          BY <1>16, <4>1
        <4>3. ASSUME NEW i \in First(s, l)..p
              PROVE  values'[i] = First(writer, l) + (i - First(s, l))
          <5>1. CASE i = p
            BY <1>9, <4>2, <5>1
          <5>2. CASE i # p
            <6>1. i \in First(s, l)..(p - 1) /\ pos[s][l] > First(s, l)
              BY <1>2, <1>b, <4>3, <5>2
            <6>2. values[i] = First(writer, l) + (i - First(s, l))
              BY <1>1, <1>b, <2>1, <3>2, <6>1 DEF Flow, Read
            <6>3. i \in Items
              <7>1. p \in 0..(count[s] - 1) /\ count[s] \in Nat /\ 0..(count[s] - 1) \subseteq Items
                BY <1>1, <1>b, MovedFacts, LaneFacts
              <7>2. i \in 0..(count[s] - 1)
                BY <1>2, <6>1, <7>1
              <7> QED BY <7>1, <7>2
            <6> QED BY <1>9, <5>2, <6>2, <6>3
          <5> QED BY <5>1, <5>2
        <4>4. pos'[s][l] - 1 = p
          BY <1>2
        <4> QED BY <3>2, <4>2, <4>3, <4>4
      <3> QED BY <3>1, <3>2
    <2>2. validate' = validate
      BY <1>8 DEF settings
    <2>3. PICK w : w = writer
      OBVIOUS
    <2>4. w' = w /\ writer' = w /\ Reader' = s /\ w \in Sides
      BY <1>1, <1>11, <1>12, <2>3
    <2>5. \A j : First(s, j)' = First(s, j) /\ First(w, j)' = First(w, j) /\ Conn(s, j)' = Conn(s, j)
      BY <1>11, <2>4
    <2> QED BY <1>1, <1>11, <2>1, <2>2, <2>3, <2>4, <2>5 DEF Read
  <1> QED BY <1>2, <1>10, <1>19, <1>20 DEF Flow

-----------------------------------------------------------------------------
(***************************************************************************)
(* Ends.                                                                   *)
(***************************************************************************)
\* s ends after its transfer, or fails.  A message it has just taken is lost.
LEMMA EndStep ==
    ASSUME TypeOK, Flow, NEW s \in Sides, NEW place \in {"done", "failed"}, EndAs(s, place),
           UNCHANGED <<settings, made, fds, io, bounds>>,
           \/ wire' = wire
           \/ place = "failed" /\ \E k \in Conns : Arrived(s, k) /\ wire' = Take(s, k),
           place = "done" =>
             /\ pc[s] = "io" /\ ~failure[s]
             /\ \A l \in Lanes(s) : thread[s][l] # "run",
           place = "failed" /\ Matched /\ strays = 0 =>
             /\ s = Acceptor => \A l \in Lanes(Acceptor) : fds[l] # None
             /\ s = Connector => made = lanes[Connector]
    PROVE  TypeOK' /\ Flow'
  <1>1. /\ lanes' = lanes /\ count' = count /\ param' = param /\ validate' = validate
        /\ writer' = writer /\ made' = made /\ fds' = fds /\ thread' = thread /\ pos' = pos
        /\ failure' = failure /\ values' = values /\ strays' = strays
    BY DEF settings, io, bounds
  <1>2. /\ pc'[s] = place /\ \A t \in Sides : t # s => pc'[t] = pc[t]
        /\ down'[s] = Conns /\ \A t \in Sides : t # s => down'[t] = down[t]
    BY DEF EndAs, TypeOK
  <1>3. /\ s = Acceptor => listening' = FALSE /\ backlog' = <<>> /\ current' = Nothing
        /\ s # Acceptor => listening' = listening /\ backlog' = backlog /\ current' = current
    BY DEF EndAs
  <1>4. /\ WireTyped(wire') /\ \A k \in Conns : wire'[s][k] = wire[s][k]
        /\ place # "failed" => wire' = wire
        /\ \A k \in Conns : wire[Other(s)][k] = <<>> => wire'[Other(s)][k] = <<>>
        /\ \A k \in Conns : \A j \in 1..Len(wire'[Other(s)][k]) :
             \E i \in 1..Len(wire[Other(s)][k]) : wire'[Other(s)][k][j] = wire[Other(s)][k][i]
    <2>1. CASE wire' = wire
      BY <2>1 DEF TypeOK
    <2>2. ASSUME place = "failed", NEW k \in Conns, Arrived(s, k), wire' = Take(s, k)
          PROVE  /\ WireTyped(wire') /\ \A j \in Conns : wire'[s][j] = wire[s][j]
                 /\ \A j \in Conns : wire[Other(s)][j] = <<>> => wire'[Other(s)][j] = <<>>
                 /\ \A i \in Conns : \A j \in 1..Len(wire'[Other(s)][i]) :
                      \E n \in 1..Len(wire[Other(s)][i]) : wire'[Other(s)][i][j] = wire[Other(s)][i][n]
      <3>1. PICK q : q = wire[Other(s)][k]
        OBVIOUS
      <3>2. /\ WireTyped(wire') /\ SameElsewhere(wire, wire', Other(s), k)
            /\ wire'[Other(s)][k] = Tail(q) /\ Len(q) \in Nat \ {0} /\ Len(Tail(q)) = Len(q) - 1
            /\ \A j \in 1..(Len(q) - 1) : Tail(q)[j] = q[j + 1]
        BY <2>2, <3>1, TakeFacts
      <3>3. \A j \in Conns : wire'[s][j] = wire[s][j]
        BY <3>2, SideFacts DEF SameElsewhere
      <3>4. \A j \in Conns : j # k => wire'[Other(s)][j] = wire[Other(s)][j]
        BY <3>2, SideFacts DEF SameElsewhere
      <3>5. q # <<>>
        BY <2>2, <3>1 DEF Arrived
      <3>6. \A j \in 1..Len(Tail(q)) : \E n \in 1..Len(q) : Tail(q)[j] = q[n]
        <4> SUFFICES ASSUME NEW j \in 1..Len(Tail(q)) PROVE \E n \in 1..Len(q) : Tail(q)[j] = q[n]
          OBVIOUS
        <4>1. j + 1 \in 1..Len(q) /\ Tail(q)[j] = q[j + 1]
          BY <3>2
        <4> QED BY <4>1
      <3>7. \A j \in Conns : wire[Other(s)][j] = <<>> => wire'[Other(s)][j] = <<>>
        BY <3>1, <3>4, <3>5
      <3>8. ASSUME NEW i \in Conns, NEW j \in 1..Len(wire'[Other(s)][i])
            PROVE  \E n \in 1..Len(wire[Other(s)][i]) : wire'[Other(s)][i][j] = wire[Other(s)][i][n]
        <4>1. CASE i = k
          <5>1. wire'[Other(s)][i] = Tail(q) /\ wire[Other(s)][i] = q
            BY <3>1, <3>2, <4>1
          <5>2. j \in 1..Len(Tail(q))
            BY <3>8, <5>1
          <5>3. PICK n \in 1..Len(q) : Tail(q)[j] = q[n]
            BY <3>6, <5>2
          <5> QED BY <5>1, <5>3
        <4>2. CASE i # k
          <5>1. wire'[Other(s)][i] = wire[Other(s)][i]
            BY <3>4, <4>2
          <5> QED BY <3>8, <5>1
        <4> QED BY <4>1, <4>2
      <3> QED BY <3>2, <3>3, <3>7, <3>8
    <2> QED BY <2>1, <2>2
  <1>5. TypeOK'
    BY <1>4, TypeEnd
  <1>6. \A t \in Sides : Lanes(t)' = Lanes(t) /\ MyConns(t)' = MyConns(t)
    BY <1>1 DEF Lanes, MyConns, Conn
  <1>7. (\A k : Stored(k)' <=> Stored(k)) /\ Made' = Made
    BY <1>1, <1>6, SideFacts DEF Stored, Made
  <1>8. \A k : Queued(k)' => s # Acceptor /\ Queued(k)
    BY <1>3 DEF Queued
  <1>9. Accepting'
    <2>1. CASE s = Acceptor
      <3>1. ~SettingUp' /\ pc'[Acceptor] # "connect" /\ pc'[Acceptor] \notin {"id", "meta", "up", "io"}
        BY <1>2, <2>1 DEF SettingUp
      <3>2. \A l \in Lanes(Acceptor) : fds[l] \in {None, l, Foreign}
            /\ (pc'[Acceptor] = "done" => fds[l] # None)
        BY <1>2, <2>1 DEF Flow, Accepting
      <3>3. \A k : ~Queued(k)'
        BY <1>8, <2>1
      <3>4. current'[1] = None /\ listening' = FALSE /\ backlog' = <<>> /\ current' = Nothing
        BY <1>3, <2>1 DEF Nothing
      <3>5. \A k \in LaneIds : k # None /\ (Stored(k) => k \in Made)
        BY ConnFacts DEF Flow, Accepting
      <3>6. (\E l \in Lanes(Acceptor) : fds[l] = Foreign) => strays > 0
        BY DEF Flow, Accepting
      <3>7. Nothing' = Nothing
        BY DEF Nothing
      <3>8. \A l \in Lanes(Acceptor) : fds[l] # None => None # fds[l]
        OBVIOUS
      <3> QED BY <1>1, <1>6, <1>7, <3>1, <3>2, <3>3, <3>4, <3>5, <3>6, <3>7, ConnFacts, SideFacts DEF Accepting
    <2>2. CASE s # Acceptor
      <3>1. pc'[Acceptor] = pc[Acceptor]
        BY <1>2, <2>2, SideFacts
      <3>2. listening' = listening /\ backlog' = backlog /\ current' = current
        BY <1>3, <2>2
      <3> QED BY <1>1, <3>1, <3>2 DEF Flow, Accepting, SettingUp, Queued, Stored, Made, Lanes
    <2> QED BY <2>1, <2>2
  <1>10. Connecting'
    <2>1. CASE s = Connector
      BY <1>1, <1>2, <2>1 DEF Flow, Connecting
    <2>2. CASE s # Connector
      <3>1. pc'[Connector] = pc[Connector]
        BY <1>2, <2>2, SideFacts
      <3> QED BY <1>1, <3>1 DEF Flow, Connecting
    <2> QED BY <2>1, <2>2
  <1>11. pc'[Connector] # "failed" =>
           pc[Connector] # "failed" /\ \A k : Passed(k)' <=> Passed(k)
    <2>1. CASE s = Connector
      BY <1>1, <1>2, <2>1 DEF Passed
    <2>2. CASE s # Connector
      <3>1. pc'[Connector] = pc[Connector]
        BY <1>2, <2>2, SideFacts
      <3> QED BY <1>1, <3>1 DEF Passed
    <2> QED BY <2>1, <2>2
  <1>12. Compared'
    BY <1>1, <1>6, <1>7, <1>11, SideFacts DEF Flow, Compared, Metadata
  <1>13. Threads'
    <2>1. \A t \in Sides : \A l : First(t, l)' = First(t, l) /\ Last(t, l)' = Last(t, l)
      BY <1>1 DEF First, Last
    <2>2. ASSUME NEW l \in Lanes(s), place = "done" PROVE pos[s][l] = Last(s, l)
      <3>1. pos[s][l] <= Last(s, l) /\ ~(pos[s][l] < Last(s, l))
        BY <2>2 DEF Flow, Threads
      <3>2. pos[s][l] \in Nat /\ Last(s, l) \in Nat
        BY LaneFacts DEF TypeOK
      <3> QED BY <3>1, <3>2
    <2>3. ASSUME NEW t \in Sides
          PROVE  /\ pc'[t] \notin {"io", "done", "failed"} => ~failure[t]
                 /\ failure[t] /\ pc'[t] = "io" => MyConns(t) \subseteq down'[t]
                 /\ pc'[t] = "done" => ~failure[t]
                 /\ \A l \in Lanes(t) :
                      /\ First(t, l) <= pos[t][l] /\ pos[t][l] <= Last(t, l)
                      /\ pc'[t] \notin {"io", "done", "failed"} => pos[t][l] = First(t, l)
                      /\ pc'[t] = "io" /\ ~failure[t] /\ pos[t][l] < Last(t, l) => thread[t][l] = "run"
                      /\ pc'[t] = "done" => pos[t][l] = Last(t, l)
      <3>1. CASE t = s
        BY <1>2, <2>2, <3>1 DEF Flow, Threads
      <3>2. CASE t # s
        BY <1>2, <2>3, <3>2 DEF Flow, Threads
      <3> QED BY <3>1, <3>2
    <2> QED BY <1>1, <1>6, <2>1, <2>3 DEF Threads
  <1>14. Read'
    <2>1. \A t \in Sides : \A l : First(t, l)' = First(t, l) /\ Conn(t, l)' = Conn(t, l)
      BY <1>1 DEF First, Conn
    <2>2. Reader' = Reader /\ Reader \in Sides /\ writer \in Sides
      BY <1>1, SideFacts DEF Reader, TypeOK
    <2> QED BY <1>1, <1>6, <1>7, <2>1, <2>2 DEF Flow, Read
  <1>15. Closing'
    <2>1. \A t \in Sides : Ended(t)' => down'[t] = Conns
      BY <1>2 DEF Flow, Closing, Ended
    <2>2. listening' => down'[Acceptor] = {}
      BY <1>2, <1>3, SideFacts DEF Flow, Closing
    <2>3. (Matched /\ strays = 0)' => Matched /\ strays = 0
      BY <1>1 DEF Matched, Metadata
    <2>4. Matched /\ strays = 0 /\ pc'[Acceptor] = "failed" => \A l \in Lanes(Acceptor) : fds[l] # None
      BY <1>2, SideFacts DEF Flow, Closing
    <2>5. Matched /\ strays = 0 /\ pc'[Connector] = "failed" => made = lanes[Connector]
      BY <1>2, SideFacts DEF Flow, Closing
    <2> QED BY <1>1, <1>6, <2>1, <2>2, <2>3, <2>4, <2>5, SideFacts DEF Closing
  <1>16. ASSUME NEW t \in Sides, NEW k \in Made, Reads(t, k)' PROVE Aligned(t, k)'
    <2>1. Reads(t, k)
      <3>1. pc[t] # "failed" /\ pc'[t] # "failed"
        BY <1>2, <1>16 DEF Reads
      <3>2. t = Acceptor => Queued(k)' \/ current'[1] = k \/ Stored(k)
        BY <1>7, <1>16 DEF Reads
      <3>3. k # None
        BY MadeFacts, ConnFacts
      <3>4. t = Acceptor => Queued(k) \/ current[1] = k \/ Stored(k)
        BY <1>3, <1>8, <3>2, <3>3 DEF Nothing
      <3> QED BY <3>1, <3>4 DEF Reads
    <2>2. Aligned(t, k)
      BY <2>1 DEF Flow, Streams
    <2>3. k \in Conns
      BY MadeFacts, ConnFacts
    <2>4. wire'[Other(t)][k] = wire[Other(t)][k]
      <3>1. CASE t = s
        BY <1>2, <1>4, <1>16, <3>1 DEF Reads
      <3>2. CASE t # s
        BY <1>4, <2>3, <3>2, SideFacts
      <3> QED BY <3>1, <3>2
    <2>5. Greeted(t, k)' = Greeted(t, k)
      <3>1. CASE t = Connector
        BY <1>1, <1>11, <1>16, <3>1, SideFacts DEF Greeted, Reads
      <3>2. CASE t = Acceptor
        <4>1. CASE Stored(k)
          BY <1>1, <1>7, <3>2, <4>1, SideFacts DEF Greeted
        <4>2. CASE ~Stored(k)
          <5>1. s # Acceptor
            BY <1>3, <1>7, <1>8, <1>16, <2>3, <3>2, <4>2, ConnFacts DEF Reads, Nothing
          <5>2. pc'[Acceptor] = pc[Acceptor] /\ current' = current
            BY <1>2, <1>3, <5>1, SideFacts
          <5> QED BY <1>7, <3>2, <4>2, <5>2, SideFacts DEF Greeted, Examined
        <4> QED BY <4>1, <4>2
      <3> QED BY <3>1, <3>2, SideFacts
    <2>6. \A i \in Sides : First(i, k)' = First(i, k) /\ Hello(i)' = Hello(i) /\ Metadata(i)' = Metadata(i)
      BY <1>1 DEF First, Hello, Metadata
    <2>7. Reader' = Reader
      BY <1>1 DEF Reader
    <2>8. Taken(t, k)' = Taken(t, k)
      BY <1>1, <1>7, <2>5, <2>6, <2>7 DEF Taken
    <2>9. Given(Other(t), k)' = Given(Other(t), k)
      BY <1>1, <1>7, <2>6, SideFacts DEF Given
    <2>10. \A n, x : IsMessage(Other(t), k, n, x)' <=> IsMessage(Other(t), k, n, x)
      BY <2>6, SideFacts DEF IsMessage
    <2> QED BY <2>2, <2>4, <2>8, <2>9, <2>10 DEF Aligned
  <1>17. Streams'
    <2>1. ASSUME NEW j \in LaneIds
          PROVE  /\ ~Stored(j) => wire'[Acceptor][j] = <<>>
                 /\ j \notin Made => wire'[Connector][j] = <<>>
      <3>1. j \in Conns /\ (~Stored(j) => wire[Acceptor][j] = <<>>)
            /\ (j \notin Made => wire[Connector][j] = <<>>)
        BY <2>1, ConnFacts DEF Flow, Streams
      <3>2. s = Acceptor \/ s = Connector
        BY SideFacts
      <3> QED BY <1>4, <3>1, <3>2, SideFacts
    <2>2. (Queued(Foreign) \/ Examined(Foreign, "id"))' =>
            wire'[Connector][Foreign] # <<>> /\ Head(wire'[Connector][Foreign]).kind = "id"
      <3>1. CASE s = Acceptor
        BY <1>2, <1>8, <3>1 DEF Examined
      <3>2. CASE s # Acceptor
        <4>1. s = Connector
          BY <3>2, SideFacts
        <4>2. wire'[Connector][Foreign] = wire[Connector][Foreign]
          BY <1>4, <4>1, ConnFacts
        <4>3. (Queued(Foreign) \/ Examined(Foreign, "id"))' => Queued(Foreign) \/ Examined(Foreign, "id")
          BY <1>2, <1>3, <1>8, <3>2, SideFacts DEF Examined
        <4> QED BY <4>2, <4>3 DEF Flow, Streams
      <3> QED BY <3>1, <3>2
    <2>3. wire[Acceptor][Foreign] = <<>> => wire'[Acceptor][Foreign] = <<>>
      BY <1>4, ConnFacts, SideFacts
    <2> QED BY <1>1, <1>6, <1>7, <1>16, <2>1, <2>2, <2>3, SideFacts DEF Flow, Streams
  <1> QED BY <1>5, <1>9, <1>10, <1>12, <1>13, <1>14, <1>15, <1>17 DEF Flow

-----------------------------------------------------------------------------
(***************************************************************************)
(* With equal settings and without strays nobody is stuck, and nobody      *)
(* fails in the set-up.                                                    *)
(***************************************************************************)
\* Something is on its way exactly if more has been sent than read.
LEMMA HeadFacts ==
    ASSUME TypeOK, Flow, NEW s \in Sides, NEW k \in Made, Aligned(s, k)
    PROVE  /\ Arrived(s, k) <=> Given(Other(s), k) > Taken(s, k)
           /\ Arrived(s, k) => IsMessage(Other(s), k, Taken(s, k) + 1, Message(s, k))
           /\ k \in Conns /\ wire[Other(s)][k] \in Seq(Messages)
           /\ Given(Other(s), k) = Taken(s, k) + Len(wire[Other(s)][k])
  <1>a. PICK q : q = wire[Other(s)][k]
    OBVIOUS
  <1>1. k \in Conns /\ Other(s) \in Sides
    BY MadeFacts, ConnFacts, SideFacts
  <1>2. q \in Seq(Messages)
    BY <1>a, <1>1 DEF TypeOK, WireTyped
  <1>3. Given(Other(s), k) \in Nat /\ Taken(s, k) \in Nat
    BY <1>1, NumberFacts
  <1>4. /\ Given(Other(s), k) = Taken(s, k) + Len(q)
        /\ \A j \in 1..Len(q) : IsMessage(Other(s), k, Taken(s, k) + j, q[j])
    BY <1>a DEF Aligned
  <1>5. Arrived(s, k) <=> q # <<>>
    BY <1>a DEF Arrived
  <1>6. q # <<>> <=> Len(q) > 0
    BY <1>2
  <1>7. q # <<>> => 1 \in 1..Len(q) /\ Head(q) = q[1]
    BY <1>2
  <1>8. Message(s, k) = Head(q)
    BY <1>a DEF Message
  <1>9. Len(q) \in Nat
    BY <1>2
  <1>10. Arrived(s, k) <=> Given(Other(s), k) > Taken(s, k)
    BY <1>3, <1>4, <1>5, <1>6, <1>9
  <1>11. Arrived(s, k) => IsMessage(Other(s), k, Taken(s, k) + 1, Message(s, k))
    BY <1>4, <1>5, <1>7, <1>8
  <1> QED BY <1>a, <1>1, <1>2, <1>4, <1>10, <1>11

\* The connection that the acceptor examines.
LEMMA ExaminedFacts ==
    ASSUME TypeOK, Flow, pc[Acceptor] \in {"id", "meta"}, NEW k, k = current[1]
    PROVE  /\ k \in Conns /\ ~Queued(k) /\ (k = Foreign => strays > 0)
           /\ k # Foreign => k \in Made /\ ~Stored(k) /\ Aligned(Acceptor, k)
                             /\ Given(Connector, k) >= Hello(Connector)
                             /\ Taken(Acceptor, k) = IF pc[Acceptor] = "meta" THEN 1 ELSE 0
           /\ pc[Acceptor] = "id" =>
                /\ Arrived(Acceptor, k) /\ Message(Acceptor, k).kind = "id"
                /\ Message(Acceptor, k).is \in LaneIds
                /\ k # Foreign => Message(Acceptor, k).is = k
  <1>1. k \in Conns /\ ~Queued(k) /\ (k = Foreign => strays > 0)
    BY DEF Flow, Accepting, TypeOK
  <1>2. ASSUME k # Foreign
        PROVE  /\ k \in Made /\ ~Stored(k) /\ Aligned(Acceptor, k)
               /\ Given(Connector, k) >= Hello(Connector)
               /\ Taken(Acceptor, k) = IF pc[Acceptor] = "meta" THEN 1 ELSE 0
    <2>1. k \in LaneIds /\ k # None
      BY <1>1, <1>2, ConnFacts
    <2>2. k \in Made
      BY <2>1 DEF Flow, Accepting
    <2>3. ~Stored(k)
      BY <2>1 DEF Flow, Accepting, Stored
    <2>4. Aligned(Acceptor, k)
      BY <2>2, SideFacts DEF Flow, Streams, Reads
    <2>5. k \in Lanes(Connector) /\ Connector \in Sides
      BY <2>2, MadeFacts, SideFacts
    <2>6. First(Connector, k) \in Nat /\ pos[Connector][k] \in Nat
          /\ First(Connector, k) <= pos[Connector][k]
      BY <2>5, LaneFacts DEF Flow, Threads, TypeOK
    <2>7. Hello(Connector) \in 0..2
      BY <2>2, <2>5, NumberFacts
    <2>8. Given(Connector, k) >= Hello(Connector)
      BY <2>6, <2>7, SideFacts DEF Given
    <2>9. Taken(Acceptor, k) = IF pc[Acceptor] = "meta" THEN 1 ELSE 0
      BY <2>3, SideFacts DEF Taken, Greeted, Examined
    <2> QED BY <2>2, <2>3, <2>4, <2>8, <2>9
  <1>3. ASSUME pc[Acceptor] = "id"
        PROVE  /\ Arrived(Acceptor, k) /\ Message(Acceptor, k).kind = "id"
               /\ Message(Acceptor, k).is \in LaneIds
               /\ k # Foreign => Message(Acceptor, k).is = k
    <2>1. CASE k = Foreign
      <3>1. wire[Connector][Foreign] # <<>> /\ Head(wire[Connector][Foreign]).kind = "id"
        BY <1>3, <2>1 DEF Flow, Streams, Examined
      <3>2. Arrived(Acceptor, k) /\ Message(Acceptor, k).kind = "id"
        BY <2>1, <3>1, SideFacts DEF Arrived, Message
      <3>3. Message(Acceptor, k) \in Messages
        BY <1>1, <3>2, TakeFacts, SideFacts
      <3> QED BY <2>1, <3>2, <3>3, MessageTypes
    <2>2. CASE k # Foreign
      <3>1. /\ k \in Made /\ Aligned(Acceptor, k) /\ Taken(Acceptor, k) = 0
            /\ Given(Connector, k) >= Hello(Connector)
        BY <1>2, <1>3, <2>2
      <3>2. Hello(Connector) \in 0..2 /\ Hello(Connector) > 0 /\ Given(Connector, k) \in Nat
        BY <3>1, NumberFacts, SideFacts
      <3>3. Given(Connector, k) > 0
        BY <3>1, <3>2
      <3>4. Arrived(Acceptor, k) /\ IsMessage(Connector, k, 0 + 1, Message(Acceptor, k))
        BY <3>1, <3>3, HeadFacts, SideFacts
      <3>5. Message(Acceptor, k) = [kind |-> "id", is |-> k]
        BY <3>4 DEF IsMessage
      <3> QED BY <3>1, <3>4, <3>5, MadeFacts
    <2> QED BY <2>1, <2>2
  <1> QED BY <1>1, <1>2, <1>3

\* The metadata that the acceptor waits for, and that it has answered.
LEMMA AcceptorMetaFacts ==
    ASSUME TypeOK, Flow, pc[Acceptor] = "meta", NEW k \in Made, k = current[1],
           validate[Connector]
    PROVE  /\ Arrived(Acceptor, k)
           /\ Message(Acceptor, k) = [kind |-> "meta", is |-> Metadata(Connector)]
  <1>1. k # Foreign
    BY MadeFacts
  <1>2. /\ Aligned(Acceptor, k) /\ Taken(Acceptor, k) = 1
        /\ Given(Connector, k) >= Hello(Connector)
    BY <1>1, ExaminedFacts
  <1>3. Hello(Connector) = 2
    BY DEF Hello
  <1>4. Given(Connector, k) \in Nat
    BY NumberFacts, SideFacts
  <1>5. Given(Connector, k) > 1
    BY <1>2, <1>3, <1>4
  <1>6. Arrived(Acceptor, k) /\ IsMessage(Connector, k, 1 + 1, Message(Acceptor, k))
    BY <1>2, <1>5, HeadFacts, SideFacts
  <1> QED BY <1>3, <1>6 DEF IsMessage

LEMMA ConnectorMetaFacts ==
    ASSUME TypeOK, Flow, pc[Connector] = "meta", NEW k, k = made - 1
    PROVE  /\ k \in Made /\ Aligned(Connector, k) /\ Taken(Connector, k) = 0
           /\ Arrived(Connector, k) => Stored(k)
           /\ Stored(k) /\ validate[Acceptor] =>
                /\ Arrived(Connector, k)
                /\ Message(Connector, k) = [kind |-> "meta", is |-> Metadata(Acceptor)]
  <1>1. made \in Nat /\ made > 0
    BY MadeFacts DEF Flow, Connecting
  <1>2. k \in Made
    BY <1>1 DEF Made
  <1>3. Aligned(Connector, k)
    BY <1>2, SideFacts DEF Flow, Streams, Reads
  <1>4. k \in Lanes(Connector) /\ k \in LaneIds
    BY <1>2, MadeFacts
  <1>5. pos[Connector][k] = First(Connector, k) /\ First(Connector, k) \in Nat
    BY <1>4, LaneFacts, SideFacts DEF Flow, Threads
  <1>6. Taken(Connector, k) = 0
    BY <1>5, SideFacts DEF Taken, Greeted, Passed
  <1>7. Arrived(Connector, k) => Stored(k)
    BY <1>4, SideFacts DEF Flow, Streams, Arrived
  <1>8. ASSUME Stored(k), validate[Acceptor]
        PROVE  /\ Arrived(Connector, k)
               /\ Message(Connector, k) = [kind |-> "meta", is |-> Metadata(Acceptor)]
    <2>1. k \in Lanes(Acceptor)
      BY <1>8 DEF Stored
    <2>2. First(Acceptor, k) \in Nat /\ pos[Acceptor][k] \in Nat
          /\ First(Acceptor, k) <= pos[Acceptor][k]
      BY <2>1, LaneFacts, SideFacts DEF Flow, Threads, TypeOK
    <2>3. Hello(Acceptor) = 1
      BY <1>8, SideFacts DEF Hello
    <2>4. Given(Acceptor, k) > 0
      BY <1>8, <2>2, <2>3 DEF Given
    <2>5. Arrived(Connector, k) /\ IsMessage(Acceptor, k, 0 + 1, Message(Connector, k))
      BY <1>2, <1>3, <1>6, <2>4, HeadFacts, SideFacts
    <2> QED BY <2>3, <2>5, SideFacts DEF IsMessage
  <1> QED BY <1>2, <1>3, <1>6, <1>7, <1>8

\* Equal settings, and what the acceptor has stored when it has closed its listener.
LEMMA MatchedFacts ==
    ASSUME TypeOK, Flow, Matched, strays = 0
    PROVE  /\ lanes[Acceptor] = lanes[Connector] /\ count[Acceptor] = count[Connector]
           /\ Lanes(Acceptor) = Lanes(Connector) /\ validate[Acceptor] = validate[Connector]
           /\ Metadata(Acceptor) = Metadata(Connector)
           /\ \A l \in Lanes(Acceptor) : fds[l] # None => Stored(l) /\ fds[l] = l
           /\ ~listening => made = lanes[Connector] /\ \A l \in Lanes(Acceptor) : Stored(l)
  <1>1. Metadata(Acceptor) = Metadata(Connector) /\ validate[Acceptor] = validate[Connector]
    BY DEF Matched
  <1>2. lanes[Acceptor] = lanes[Connector] /\ count[Acceptor] = count[Connector]
    BY <1>1 DEF Metadata
  <1>3. Lanes(Acceptor) = Lanes(Connector)
    BY <1>2 DEF Lanes
  <1>4. \A l \in Lanes(Acceptor) : fds[l] # None => Stored(l) /\ fds[l] = l
    BY DEF Flow, Accepting, Stored
  <1>5. ASSUME ~listening
        PROVE  made = lanes[Connector] /\ \A l \in Lanes(Acceptor) : Stored(l)
    <2>1. pc[Acceptor] \in {"up", "io", "done", "failed"}
      BY <1>5, SideFacts DEF Flow, Accepting, SettingUp, TypeOK, Places
    <2>2. \A l \in Lanes(Acceptor) : fds[l] # None
      BY <2>1 DEF Flow, Accepting, Closing
    <2>3. \A l \in Lanes(Acceptor) : Stored(l) /\ l \in Made
      BY <1>4, <2>2, LaneFacts, SideFacts DEF Flow, Accepting
    <2>4. lanes[Connector] - 1 \in Made
      BY <1>3, <2>3, LastLaneActive, SideFacts
    <2>5. made \in Nat /\ made <= lanes[Connector] /\ lanes[Connector] \in Nat
      BY MadeFacts, LaneFacts, SideFacts
    <2>6. made = lanes[Connector]
      BY <2>4, <2>5 DEF Made
    <2> QED BY <2>3, <2>6
  <1> QED BY <1>1, <1>2, <1>3, <1>4, <1>5

\* While both sides transfer, the writer is ahead by what is on the wire.
LEMMA LaneFlow ==
    ASSUME TypeOK, Flow, Matched, strays = 0, \A s \in Sides : pc[s] = "io",
           NEW l \in Lanes(Acceptor)
    PROVE  /\ \A s \in Sides : l \in Lanes(s) /\ Conn(s, l) = l /\ l \in Conns
           /\ Last(writer, l) = Last(Reader, l)
           /\ pos[writer][l] \in Nat /\ pos[Reader][l] \in Nat
           /\ Len(wire[writer][l]) \in Nat /\ wire[writer][l] \in Seq(Messages)
           /\ pos[writer][l] = pos[Reader][l] + Len(wire[writer][l])
  <1>1. ~listening
    BY SideFacts DEF Flow, Accepting, SettingUp
  <1>2. /\ lanes[Acceptor] = lanes[Connector] /\ count[Acceptor] = count[Connector]
        /\ Lanes(Acceptor) = Lanes(Connector) /\ validate[Acceptor] = validate[Connector]
        /\ made = lanes[Connector] /\ Stored(l)
    BY <1>1, MatchedFacts
  <1>3. writer \in Sides /\ Reader \in Sides /\ Other(Reader) = writer /\ Reader # writer
    BY SideFacts DEF TypeOK, Reader
  <1>4. \A s \in Sides : l \in Lanes(s) /\ Conn(s, l) = l
    BY <1>2, SideFacts DEF Conn, Stored
  <1>5. l \in Made /\ l \in Conns
    BY <1>2, LaneFacts, ConnFacts, SideFacts DEF Made, Lanes
  <1>6. First(Acceptor, l) = First(Connector, l) /\ Last(Acceptor, l) = Last(Connector, l)
    BY <1>2 DEF First, Last
  <1>7. First(writer, l) = First(Reader, l) /\ Last(writer, l) = Last(Reader, l)
    BY <1>3, <1>6, SideFacts
  <1>8. First(Reader, l) \in Nat /\ pos[writer][l] \in Nat /\ pos[Reader][l] \in Nat
    BY <1>3, <1>4, LaneFacts DEF TypeOK
  <1>9. Aligned(Reader, l)
    BY <1>2, <1>3, <1>5 DEF Flow, Streams, Reads
  <1>10. /\ Given(writer, l) = Taken(Reader, l) + Len(wire[writer][l])
         /\ wire[writer][l] \in Seq(Messages)
    BY <1>3, <1>5, <1>9, HeadFacts
  <1>11. Len(wire[writer][l]) \in Nat
    BY <1>10
  <1>12. Given(writer, l) = Hello(writer) + (pos[writer][l] - First(writer, l))
    BY <1>2, SideFacts DEF Given
  <1>13. Taken(Reader, l) = Greeted(Reader, l) + (pos[Reader][l] - First(Reader, l))
    BY <1>2, SideFacts DEF Taken
  <1>14. Passed(l)
    BY SideFacts DEF Passed
  <1>15. Greeted(Reader, l) = Hello(writer) /\ Hello(writer) \in 0..2
    <2>1. CASE Reader = Acceptor
      <3>1. writer = Connector
        BY <1>3, <2>1, SideFacts
      <3> QED BY <1>2, <2>1, <3>1, SideFacts DEF Greeted, Hello
    <2>2. CASE Reader = Connector
      <3>1. writer = Acceptor
        BY <1>3, <2>2, SideFacts
      <3> QED BY <1>2, <1>14, <2>2, <3>1, SideFacts DEF Greeted, Hello
    <2> QED BY <1>3, <2>1, <2>2, SideFacts
  <1>16. pos[writer][l] = pos[Reader][l] + Len(wire[writer][l])
    <2>1. PICK a, b, f, h, n : /\ a = pos[writer][l] /\ b = pos[Reader][l] /\ f = First(Reader, l)
                               /\ h = Hello(writer) /\ n = Len(wire[writer][l])
      OBVIOUS
    <2>2. a \in Nat /\ b \in Nat /\ f \in Nat /\ h \in 0..2 /\ n \in Nat
      BY <1>8, <1>11, <1>15, <2>1
    <2>3. h + (a - f) = h + (b - f) + n
      BY <1>7, <1>10, <1>12, <1>13, <1>15, <2>1
    <2>4. a = b + n
      BY <2>2, <2>3
    <2> QED BY <2>1, <2>4
  <1> QED BY <1>4, <1>5, <1>7, <1>8, <1>10, <1>11, <1>16

\* What a side that is blocked in its transfer waits for.
LEMMA BlockedIo ==
    ASSUME NEW s \in Sides, Blocked(s), pc[s] = "io"
    PROVE  /\ \E l \in Lanes(s) : Running(s, l)
           /\ \A l \in Lanes(s) : Running(s, l) =>
                /\ pos[s][l] < Last(s, l)
                /\ Conn(s, l) \notin down[s] /\ Conn(s, l) \notin down[Other(s)]
                /\ s = writer => Len(wire[s][Conn(s, l)]) >= Cap
                /\ s # writer => ~Arrived(s, Conn(s, l))
  BY SideFacts DEF Blocked, Awaited

\* A side that is blocked in the set-up.
LEMMA BlockedSetup ==
    ASSUME TypeOK, Flow, Matched, strays = 0
    PROVE  /\ Blocked(Acceptor) /\ pc[Acceptor] # "io" =>
                /\ listening /\ pc[Connector] \in {"connect", "meta"}
                /\ pc[Connector] = "meta" => Arrived(Connector, made - 1)
           /\ Blocked(Connector) /\ pc[Connector] # "io" =>
                /\ pc[Connector] = "meta" /\ ~Arrived(Connector, made - 1)
                /\ made - 1 \notin down[Acceptor] /\ made - 1 \in Conns /\ listening
  <1>1. /\ Lanes(Acceptor) = Lanes(Connector) /\ validate[Acceptor] = validate[Connector]
        /\ \A l \in Lanes(Acceptor) : fds[l] # None => Stored(l)
        /\ ~listening => made = lanes[Connector] /\ \A l \in Lanes(Acceptor) : Stored(l)
    BY MatchedFacts
  <1>2. ASSUME Blocked(Acceptor), pc[Acceptor] # "io"
        PROVE  /\ listening /\ pc[Connector] \in {"connect", "meta"}
               /\ pc[Connector] = "meta" => Arrived(Connector, made - 1)
    <2>1. \/ pc[Acceptor] = "accept" /\ backlog = <<>>
          \/ pc[Acceptor] \in {"id", "meta"} /\ ~Arrived(Acceptor, current[1])
      BY <1>2, SideFacts DEF Blocked, Awaited
    <2>2. ASSUME pc[Acceptor] = "meta" PROVE Arrived(Acceptor, current[1])
      <3>1. validate[Connector]
        BY <1>1, <2>2 DEF Flow, Accepting
      <3>2. current[1] \in Made
        <4>1. PICK k : k = current[1]
          OBVIOUS
        <4>2. k # Foreign
          BY <2>2, <4>1, ExaminedFacts
        <4> QED BY <2>2, <4>1, <4>2, ExaminedFacts
      <3> QED BY <2>2, <3>1, <3>2, AcceptorMetaFacts
    <2>3. ASSUME pc[Acceptor] = "id" PROVE Arrived(Acceptor, current[1])
      BY <2>3, ExaminedFacts
    <2>4. pc[Acceptor] = "accept" /\ backlog = <<>>
      BY <2>1, <2>2, <2>3
    <2>5. listening /\ current = Nothing
      BY <2>4 DEF Flow, Accepting, SettingUp
    <2>6. \A k : ~Queued(k)
      BY <2>4 DEF Queued
    <2>7. \A k \in Made : k # None
      BY MadeFacts, ConnFacts
    <2>8. \A k \in Made : Stored(k)
      BY <2>4, <2>5, <2>6, <2>7 DEF Flow, Accepting, SettingUp, Nothing
    <2>9. PICK l \in Lanes(Acceptor) : fds[l] = None
      BY <2>4 DEF Flow, Accepting, SettingUp
    <2>10. l \notin Made
      BY <2>8, <2>9, LaneFacts, ConnFacts, SideFacts DEF Stored
    <2>11. made # lanes[Connector]
      BY <1>1, <2>9, <2>10 DEF Made, Lanes
    <2>12. pc[Connector] \in {"connect", "meta"}
      BY <2>11, SideFacts DEF Flow, Connecting, Closing, TypeOK, Places
    <2>13. ASSUME pc[Connector] = "meta" PROVE Arrived(Connector, made - 1)
      <3>1. PICK k : k = made - 1
        OBVIOUS
      <3>2. k \in Made
        BY <2>13, <3>1, ConnectorMetaFacts
      <3>3. validate[Acceptor]
        BY <1>1, <2>13 DEF Flow, Connecting
      <3> QED BY <2>8, <2>13, <3>1, <3>2, <3>3, ConnectorMetaFacts
    <2> QED BY <2>5, <2>12, <2>13
  <1>3. ASSUME Blocked(Connector), pc[Connector] # "io"
        PROVE  /\ pc[Connector] = "meta" /\ ~Arrived(Connector, made - 1)
               /\ made - 1 \notin down[Acceptor] /\ made - 1 \in Conns /\ listening
    <2>1. /\ pc[Connector] = "meta" /\ ~Arrived(Connector, made - 1)
          /\ made - 1 \notin down[Acceptor]
      BY <1>3, SideFacts DEF Blocked, Awaited
    <2>2. PICK k : k = made - 1
      OBVIOUS
    <2>3. k \in Made /\ (Stored(k) /\ validate[Acceptor] => Arrived(Connector, k))
      BY <2>1, <2>2, ConnectorMetaFacts
    <2>4. validate[Acceptor]
      BY <1>1, <2>1 DEF Flow, Connecting
    <2>5. ~Stored(k)
      BY <2>1, <2>2, <2>3, <2>4
    <2>6. k \in Lanes(Acceptor) /\ k \in Conns
      BY <1>1, <2>3, MadeFacts, ConnFacts
    <2>7. listening
      BY <1>1, <2>5, <2>6
    <2> QED BY <2>1, <2>2, <2>6, <2>7
  <1> QED BY <1>2, <1>3

LEMMA NotStuck ==
    ASSUME TypeOK, Flow, Matched, strays = 0, NEW s \in Sides
    PROVE  ~Stuck(s)
  <1>a. PICK t : t = Other(s)
    OBVIOUS
  <1> SUFFICES ASSUME Blocked(s), Blocked(t) \/ Ended(t)
               PROVE  FALSE
    BY <1>a DEF Stuck
  <1>1. t \in Sides /\ t # s /\ Other(t) = s /\ {s, t} = {Acceptor, Connector}
    BY <1>a, SideFacts
  <1>2. Ended(t) => down[t] = Conns /\ pc[t] \in {"done", "failed"}
    BY <1>1 DEF Flow, Closing, Ended
  <1>3. pc[Acceptor] = "io" => ~listening
    BY DEF Flow, Accepting, SettingUp
  <1>4. CASE pc[s] # "io"
    <2>1. CASE s = Acceptor
      <3>1. t = Connector /\ pc[t] \in {"connect", "meta"}
            /\ (pc[t] = "meta" => Arrived(Connector, made - 1))
        BY <1>1, <1>4, <2>1, BlockedSetup
      <3>2. Blocked(Connector) /\ pc[Connector] # "io"
        BY <1>2, <3>1
      <3> QED BY <3>1, <3>2, BlockedSetup
    <2>2. CASE s = Connector
      <3>1. /\ pc[Connector] = "meta" /\ ~Arrived(Connector, made - 1)
            /\ made - 1 \notin down[Acceptor] /\ made - 1 \in Conns /\ listening /\ t = Acceptor
        BY <1>1, <1>4, <2>2, BlockedSetup
      <3>2. Blocked(Acceptor) /\ pc[Acceptor] # "io"
        BY <1>2, <1>3, <3>1
      <3> QED BY <3>1, <3>2, BlockedSetup
    <2> QED BY <2>1, <2>2, SideFacts
  <1>5. CASE pc[s] = "io"
    <2>1. PICK l \in Lanes(s) : Running(s, l)
      BY <1>5, BlockedIo
    <2>2. /\ pos[s][l] < Last(s, l)
          /\ Conn(s, l) \notin down[s] /\ Conn(s, l) \notin down[t]
          /\ s = writer => Len(wire[s][Conn(s, l)]) >= Cap
          /\ s # writer => ~Arrived(s, Conn(s, l))
      BY <1>5, <1>a, <2>1, BlockedIo
    <2>3. Conn(s, l) \in Conns
      <3>1. CASE s = Acceptor
        BY <1>5, <3>1, SideFacts DEF Flow, Accepting, Conn, TypeOK
      <3>2. CASE s # Acceptor
        BY <3>2, LaneFacts, ConnFacts DEF Conn
      <3> QED BY <3>1, <3>2
    <2>4. Blocked(t)
      BY <1>2, <2>2, <2>3
    <2>5. pc[t] = "io"
      <3>1. CASE t = Acceptor
        BY <1>1, <1>5, <2>4, <3>1, BlockedSetup
      <3>2. CASE t = Connector
        <4>1. s = Acceptor
          BY <1>1, <3>2
        <4> QED BY <1>3, <1>5, <2>4, <3>2, <4>1, BlockedSetup
      <3> QED BY <1>1, <3>1, <3>2, SideFacts
    <2>6. \A u \in Sides : pc[u] = "io"
      BY <1>1, <1>5, <2>5, SideFacts
    <2>7. l \in Lanes(Acceptor)
      BY <2>1, MatchedFacts, SideFacts
    <2>8. /\ \A u \in Sides : l \in Lanes(u) /\ Conn(u, l) = l /\ l \in Conns
          /\ Last(writer, l) = Last(Reader, l)
          /\ pos[writer][l] \in Nat /\ pos[Reader][l] \in Nat
          /\ Len(wire[writer][l]) \in Nat /\ wire[writer][l] \in Seq(Messages)
          /\ pos[writer][l] = pos[Reader][l] + Len(wire[writer][l])
      BY <2>6, <2>7, LaneFlow
    <2>9. Conn(s, l) = l /\ Conn(t, l) = l /\ l \in Lanes(t)
      BY <1>1, <2>8
    <2>10. ~failure[t]
      <3>1. l \in MyConns(t)
        BY <2>9, <2>8, <1>1, ConnFacts DEF MyConns
      <3> QED BY <1>1, <2>2, <2>5, <2>9, <3>1 DEF Flow, Threads
    <2>11. pos[t][l] <= Last(t, l) /\ (pos[t][l] < Last(t, l) => Running(t, l))
      BY <1>1, <2>5, <2>9, <2>10 DEF Flow, Threads, Running
    <2>12. Running(t, l) =>
             /\ pos[t][l] < Last(t, l)
             /\ t = writer => Len(wire[t][l]) >= Cap
             /\ t # writer => ~Arrived(t, l)
      BY <1>1, <2>4, <2>5, <2>9, BlockedIo
    <2>13. Last(t, l) \in Nat /\ Last(s, l) \in Nat /\ pos[s][l] \in Nat /\ pos[t][l] \in Nat
      BY <1>1, <2>9, LaneFacts DEF TypeOK
    <2>14. \/ s = writer /\ t = Reader
           \/ t = writer /\ s = Reader
      BY <1>1, <1>a, SideFacts DEF Reader, TypeOK
    <2>15. Arrived(Reader, l) <=> Len(wire[writer][l]) > 0
      <3>1. Other(Reader) = writer
        BY SideFacts DEF Reader, TypeOK
      <3> QED BY <2>8, <3>1 DEF Arrived
    <2>16. CASE s = writer /\ t = Reader
      <3>1. Len(wire[writer][l]) > 0
        BY <2>2, <2>8, <2>9, <2>16, LinkBounds
      <3>2. ~Running(t, l)
        BY <1>1, <2>12, <2>15, <2>16, <3>1
      <3>3. pos[t][l] = Last(t, l)
        BY <2>11, <2>13, <3>2
      <3> QED BY <2>2, <2>8, <2>13, <2>16, <3>3
    <2>17. CASE t = writer /\ s = Reader
      <3>1. ~(Len(wire[writer][l]) > 0)
        BY <1>1, <2>2, <2>9, <2>15, <2>17
      <3>2. ~Running(t, l)
        BY <2>8, <2>12, <2>17, <3>1, LinkBounds
      <3>3. pos[t][l] = Last(t, l)
        BY <2>11, <2>13, <3>2
      <3> QED BY <2>2, <2>8, <2>13, <2>17, <3>1, <3>3
    <2> QED BY <2>14, <2>16, <2>17
  <1> QED BY <1>4, <1>5

\* A side gives up: no retries or messages are left, a message is refused, or
\* it is stuck.  With equal settings and without strays none of this happens.
LEMMA ThrowStep ==
    ASSUME TypeOK, Flow, NEW s \in Sides, Throw(s), ~(Matched /\ strays = 0),
           wire' = wire \/ \E k \in Conns : Arrived(s, k) /\ wire' = Take(s, k)
    PROVE  TypeOK' /\ Flow'
  <1>1. EndAs(s, "failed") /\ UNCHANGED <<settings, made, fds, io, bounds>>
    BY DEF Throw
  <1> QED BY <1>1, EndStep

LEMMA ConnectFailsStep ==
    ASSUME TypeOK, Flow, ConnectFails
    PROVE  TypeOK' /\ Flow'
  <1>1. pc[Connector] = "connect" /\ ~listening /\ Throw(Connector) /\ wire' = wire
    BY DEF ConnectFails
  <1>2. made < lanes[Connector] /\ made \in Nat
    BY <1>1, MadeFacts DEF Flow, Connecting
  <1>3. ~(Matched /\ strays = 0)
    BY <1>1, <1>2, MatchedFacts
  <1> QED BY <1>1, <1>3, ThrowStep, SideFacts

LEMMA SetupPeerGoneStep ==
    ASSUME TypeOK, Flow, NEW s \in Sides, SetupPeerGone(s)
    PROVE  TypeOK' /\ Flow'
  <1>1. PICK k \in Awaited(s) : Gone(s, k)
    BY DEF SetupPeerGone
  <1>2. Throw(s) /\ wire' = wire /\ ~Arrived(s, k) /\ k \in down[Other(s)]
    BY <1>1 DEF SetupPeerGone, Gone
  <1>3. ASSUME Matched, strays = 0 PROVE FALSE
    <2>1. CASE s = Acceptor
      <3>1. k = current[1] /\ pc[Acceptor] \in {"id", "meta"}
        BY <1>1, <2>1 DEF Awaited
      <3>2. Arrived(Acceptor, k)
        <4>1. CASE pc[Acceptor] = "id"
          BY <3>1, <4>1, ExaminedFacts
        <4>2. CASE pc[Acceptor] = "meta"
          <5>1. validate[Connector]
            BY <1>3, <4>2 DEF Flow, Accepting, Matched
          <5>2. k # Foreign
            BY <1>3, <3>1, ExaminedFacts
          <5>3. k \in Made
            BY <3>1, <5>2, ExaminedFacts
          <5> QED BY <3>1, <4>2, <5>1, <5>3, AcceptorMetaFacts
        <4> QED BY <3>1, <4>1, <4>2
      <3> QED BY <1>2, <2>1, <3>2
    <2>2. CASE s = Connector
      <3>1. k = made - 1 /\ pc[Connector] = "meta"
        BY <1>1, <2>2, SideFacts DEF Awaited
      <3>2. k \in down[Acceptor]
        BY <1>2, <2>2, SideFacts
      <3>3. ~listening
        BY <3>2 DEF Flow, Closing
      <3>4. k \in Made /\ (Stored(k) /\ validate[Acceptor] => Arrived(Connector, k))
        BY <3>1, ConnectorMetaFacts
      <3>5. Stored(k)
        BY <1>3, <3>3, <3>4, MatchedFacts, MadeFacts
      <3>6. validate[Acceptor]
        BY <1>3, <3>1 DEF Flow, Connecting, Matched
      <3> QED BY <1>2, <2>2, <3>4, <3>5, <3>6
    <2> QED BY <2>1, <2>2, SideFacts
  <1> QED BY <1>2, <1>3, ThrowStep

LEMMA TimeoutStep ==
    ASSUME TypeOK, Flow, NEW s \in Sides, Timeout(s)
    PROVE  TypeOK' /\ Flow'
  <1>1. Stuck(s) /\ Throw(s) /\ wire' = wire
    BY DEF Timeout
  <1>2. ~(Matched /\ strays = 0)
    BY <1>1, NotStuck
  <1> QED BY <1>1, <1>2, ThrowStep

LEMMA JoinStep ==
    ASSUME TypeOK, Flow, NEW s \in Sides, Join(s)
    PROVE  TypeOK' /\ Flow'
  <1>1. PICK place : place = IF failure[s] THEN "failed" ELSE "done"
    OBVIOUS
  <1>2. /\ pc[s] = "io" /\ \A l \in Lanes(s) : thread[s][l] # "run"
        /\ EndAs(s, place) /\ UNCHANGED <<settings, made, fds, wire, io, bounds>>
    BY <1>1 DEF Join
  <1>3. place \in {"done", "failed"} /\ (place = "done" => ~failure[s])
    BY <1>1
  <1>4. s = Acceptor => \A l \in Lanes(Acceptor) : fds[l] # None
    BY <1>2 DEF Flow, Accepting
  <1>5. s = Connector => made = lanes[Connector]
    BY <1>2 DEF Flow, Connecting
  <1> QED BY <1>2, <1>3, <1>4, <1>5, EndStep

-----------------------------------------------------------------------------
(***************************************************************************)
(* Steps of the set-up that go on.                                         *)
(***************************************************************************)
\* What the threads do and have read does not change.
LEMMA SetupKeeps ==
    ASSUME TypeOK, Flow, UNCHANGED <<settings, io>>,
           strays' = 0 => strays = 0,
           \A t \in Sides : pc'[t] = pc[t] \/ (pc[t] \notin {"io", "done", "failed"}
                                                 /\ pc'[t] \notin {"io", "done", "failed"}),
           down'[Connector] = down[Connector],
           (fds' = fds /\ down' = down) \/ SettingUp,
           \A k : Stored(k) => Stored(k)',
           made' = made \/ pc[Connector] = "connect",
           listening' => listening /\ down' = down
    PROVE  Threads' /\ Read' /\ Closing'
  <1>1. /\ lanes' = lanes /\ count' = count /\ param' = param /\ validate' = validate
        /\ writer' = writer /\ thread' = thread /\ pos' = pos
        /\ failure' = failure /\ values' = values
    BY DEF settings, io
  <1>2. \A t \in Sides : Lanes(t)' = Lanes(t)
    BY <1>1 DEF Lanes
  <1>3. \A t \in Sides : \A l : First(t, l)' = First(t, l) /\ Last(t, l)' = Last(t, l)
    BY <1>1 DEF First, Last
  <1>4. \A t \in Sides : pc[t] \in {"io", "done", "failed"} =>
          MyConns(t)' = MyConns(t) /\ down'[t] = down[t] /\ (t = Acceptor => fds' = fds)
    <2> SUFFICES ASSUME NEW t \in Sides, pc[t] \in {"io", "done", "failed"}
                 PROVE  MyConns(t)' = MyConns(t) /\ down'[t] = down[t] /\ (t = Acceptor => fds' = fds)
      OBVIOUS
    <2>1. CASE t = Acceptor
      <3>1. ~SettingUp
        BY <2>1 DEF SettingUp
      <3> QED BY <1>2, <2>1, <3>1 DEF MyConns, Conn
    <2>2. CASE t = Connector
      BY <1>2, <2>2, SideFacts DEF MyConns, Conn
    <2> QED BY <2>1, <2>2, SideFacts
  <1>5. Threads'
    <2>1. ASSUME NEW t \in Sides
          PROVE  /\ pc'[t] \notin {"io", "done", "failed"} => ~failure[t]
                 /\ failure[t] /\ pc'[t] = "io" => MyConns(t)' \subseteq down'[t]
                 /\ pc'[t] = "done" => ~failure[t]
                 /\ \A l \in Lanes(t) :
                      /\ First(t, l) <= pos[t][l] /\ pos[t][l] <= Last(t, l)
                      /\ pc'[t] \notin {"io", "done", "failed"} => pos[t][l] = First(t, l)
                      /\ pc'[t] = "io" /\ ~failure[t] /\ pos[t][l] < Last(t, l) => thread[t][l] = "run"
                      /\ pc'[t] = "done" => pos[t][l] = Last(t, l)
      <3>1. CASE pc'[t] = pc[t]
        BY <1>4, <3>1 DEF Flow, Threads
      <3>2. CASE pc[t] \notin {"io", "done", "failed"} /\ pc'[t] \notin {"io", "done", "failed"}
        BY <3>2 DEF Flow, Threads
      <3> QED BY <3>1, <3>2
    <2> QED BY <1>1, <1>2, <1>3, <2>1 DEF Threads
  <1>6. Read'
    <2>1. PICK r, w : r = Reader /\ w = writer
      OBVIOUS
    <2>2. r \in Sides /\ w \in Sides /\ Reader' = r /\ writer' = w
      BY <1>1, <2>1, SideFacts DEF Reader, TypeOK
    <2>3. ASSUME NEW l \in Lanes(r), pos[r][l] > First(r, l)
          PROVE  Conn(r, l)' = Conn(r, l)
      <3>1. CASE r = Acceptor
        <4>1. First(r, l) \in Nat
          BY <2>2, LaneFacts
        <4>2. pc[Acceptor] \in {"io", "done", "failed"}
          BY <2>2, <2>3, <3>1, <4>1 DEF Flow, Threads
        <4> QED BY <1>4, <3>1, <4>2, SideFacts DEF Conn
      <3>2. CASE r # Acceptor
        BY <3>2 DEF Conn
      <3> QED BY <3>1, <3>2
    <2>4. ASSUME NEW l \in Lanes(r), pos[r][l] > First(r, l), Conn(r, l) = l
          PROVE  /\ l \in Lanes(w) /\ validate[Acceptor] = validate[Connector]
                 /\ r = Connector => Stored(l)
                 /\ \A i \in First(r, l)..(pos[r][l] - 1) :
                      values[i] = First(w, l) + (i - First(r, l))
      BY <2>1, <2>4 DEF Flow, Read
    <2> QED BY <1>1, <1>2, <1>3, <2>2, <2>3, <2>4 DEF Read
  <1>7. Closing'
    <2>1. \A t \in Sides : Ended(t)' => down'[t] = Conns
      BY <1>4 DEF Flow, Closing, Ended
    <2>2. listening' => down'[Acceptor] = {}
      BY DEF Flow, Closing
    <2>3. (Matched /\ strays = 0)' => Matched /\ strays = 0
      BY <1>1 DEF Matched, Metadata
    <2>4. pc'[Acceptor] = "failed" => pc[Acceptor] = "failed" /\ fds' = fds
      BY <1>4, SideFacts
    <2>5. pc'[Connector] = "failed" => pc[Connector] = "failed" /\ made' = made
      BY SideFacts
    <2> QED BY <1>1, <1>2, <2>1, <2>2, <2>3, <2>4, <2>5, SideFacts DEF Flow, Closing
  <1> QED BY <1>5, <1>6, <1>7

\* A connection on which neither side has done anything.
LEMMA AlignedSame ==
    ASSUME TypeOK, UNCHANGED <<settings, pos>>, NEW s \in Sides, NEW k, Aligned(s, k),
           wire'[Other(s)][k] = wire[Other(s)][k],
           Stored(k)' <=> Stored(k), Greeted(s, k)' = Greeted(s, k)
    PROVE  Aligned(s, k)'
  <1>1. /\ lanes' = lanes /\ count' = count /\ param' = param /\ validate' = validate
        /\ writer' = writer /\ pos' = pos
    BY DEF settings
  <1>2. \A t \in Sides : First(t, k)' = First(t, k) /\ Hello(t)' = Hello(t) /\ Metadata(t)' = Metadata(t)
    BY <1>1 DEF First, Hello, Metadata
  <1>3. Reader' = Reader
    BY <1>1 DEF Reader
  <1>4. Taken(s, k)' = Taken(s, k)
    BY <1>1, <1>2, <1>3 DEF Taken
  <1>5. Given(Other(s), k)' = Given(Other(s), k)
    BY <1>1, <1>2, SideFacts DEF Given
  <1>6. \A n, x : IsMessage(Other(s), k, n, x)' <=> IsMessage(Other(s), k, n, x)
    BY <1>2, SideFacts DEF IsMessage
  <1> QED BY <1>4, <1>5, <1>6 DEF Aligned

\* The backlog grows at its end and is read at its front.
LEMMA AppendQueue ==
    ASSUME TypeOK, Flow, NEW k \in Conns, ~Queued(k), backlog' = Append(backlog, k)
    PROVE  /\ backlog' \in Seq(Conns) /\ \A j : Queued(j)' <=> Queued(j) \/ j = k
           /\ \A i, j \in DOMAIN backlog' : backlog'[i] = backlog'[j] => i = j
  <1>1. backlog \in Seq(Conns) /\ Len(backlog) \in Nat
    BY DEF TypeOK
  <1>2. backlog' \in Seq(Conns) /\ DOMAIN backlog' = 1..(Len(backlog) + 1)
        /\ backlog'[Len(backlog) + 1] = k /\ DOMAIN backlog = 1..Len(backlog)
        /\ \A j \in 1..Len(backlog) : backlog'[j] = backlog[j]
    BY <1>1
  <1>3. 1..(Len(backlog) + 1) = 1..Len(backlog) \cup {Len(backlog) + 1}
    BY <1>1
  <1>4. \A j : Queued(j)' <=> Queued(j) \/ j = k
    BY <1>2, <1>3 DEF Queued
  <1>5. \A i, j \in DOMAIN backlog : backlog[i] = backlog[j] => i = j
    BY DEF Flow, Accepting
  <1>6. \A i \in DOMAIN backlog : backlog[i] # k
    BY DEF Queued
  <1>7. \A i, j \in DOMAIN backlog' : backlog'[i] = backlog'[j] => i = j
    BY <1>2, <1>3, <1>5, <1>6
  <1> QED BY <1>2, <1>4, <1>7

LEMMA TailQueue ==
    ASSUME TypeOK, Flow, backlog # <<>>, NEW k, k = Head(backlog), backlog' = Tail(backlog)
    PROVE  /\ backlog' \in Seq(Conns) /\ k \in Conns /\ Queued(k)
           /\ \A j : Queued(j)' <=> Queued(j) /\ j # k
           /\ \A i, j \in DOMAIN backlog' : backlog'[i] = backlog'[j] => i = j
  <1>1. backlog \in Seq(Conns)
    BY DEF TypeOK
  <1>2. PICK n : n = Len(backlog)
    OBVIOUS
  <1>3. n \in Nat \ {0} /\ DOMAIN backlog = 1..n /\ k = backlog[1] /\ k \in Conns
    BY <1>1, <1>2
  <1>4. /\ backlog' \in Seq(Conns) /\ DOMAIN backlog' = 1..(n - 1)
        /\ \A j \in 1..(n - 1) : backlog'[j] = backlog[j + 1]
    BY <1>1, <1>2
  <1>5. \A i, j \in 1..n : backlog[i] = backlog[j] => i = j
    BY <1>3 DEF Flow, Accepting
  <1>6. 1 \in 1..n /\ Queued(k)
    BY <1>3 DEF Queued
  <1>7. \A j \in 1..(n - 1) : j + 1 \in 1..n /\ j + 1 # 1
    BY <1>3
  <1>8. ASSUME NEW j, Queued(j)' PROVE Queued(j) /\ j # k
    <2>1. PICK i \in 1..(n - 1) : backlog'[i] = j
      BY <1>4, <1>8 DEF Queued
    <2>2. backlog[i + 1] = j /\ i + 1 \in 1..n /\ i + 1 # 1
      BY <1>4, <1>7, <2>1
    <2>3. j # k
      BY <1>3, <1>5, <1>6, <2>2
    <2> QED BY <1>3, <2>2, <2>3 DEF Queued
  <1>9. ASSUME NEW j, Queued(j), j # k PROVE Queued(j)'
    <2>1. PICK i \in 1..n : backlog[i] = j
      BY <1>3, <1>9 DEF Queued
    <2>2. i # 1
      BY <1>3, <1>9, <2>1
    <2>3. i - 1 \in 1..(n - 1) /\ (i - 1) + 1 = i
      BY <1>3, <2>1, <2>2
    <2>4. backlog'[i - 1] = j
      BY <1>4, <2>1, <2>3
    <2> QED BY <1>4, <2>3, <2>4 DEF Queued
  <1>10. ASSUME NEW i \in DOMAIN backlog', NEW j \in DOMAIN backlog', backlog'[i] = backlog'[j]
         PROVE  i = j
    <2>1. i \in 1..(n - 1) /\ j \in 1..(n - 1)
      BY <1>4, <1>10
    <2>2. i + 1 \in 1..n /\ j + 1 \in 1..n /\ backlog[i + 1] = backlog[j + 1]
      BY <1>4, <1>7, <1>10, <2>1
    <2>3. i + 1 = j + 1
      BY <1>5, <2>2
    <2> QED BY <2>1, <2>3
  <1> QED BY <1>3, <1>4, <1>6, <1>8, <1>9, <1>10

LEMMA AcceptStep ==
    ASSUME TypeOK, Flow, Accept
    PROVE  TypeOK' /\ Flow'
  <1>a. PICK k : k = Head(backlog)
    OBVIOUS
  <1>1. /\ pc[Acceptor] = "accept" /\ backlog # <<>> /\ current' = <<k, None>>
        /\ backlog' = Tail(backlog) /\ pc' = [pc EXCEPT ![Acceptor] = "id"]
    BY <1>a DEF Accept
  <1>2. /\ lanes' = lanes /\ count' = count /\ param' = param /\ validate' = validate
        /\ writer' = writer /\ listening' = listening /\ made' = made /\ fds' = fds /\ wire' = wire
        /\ down' = down /\ strays' = strays /\ UNCHANGED <<settings, io, bounds>> /\ pos' = pos
    BY DEF Accept, settings, io, bounds
  <1>3. /\ backlog' \in Seq(Conns) /\ k \in Conns /\ Queued(k)
        /\ \A j : Queued(j)' <=> Queued(j) /\ j # k
        /\ \A i, j \in DOMAIN backlog' : backlog'[i] = backlog'[j] => i = j
    BY <1>1, <1>a, TailQueue
  <1>4. pc'[Acceptor] = "id" /\ pc'[Connector] = pc[Connector]
    BY <1>1, SideFacts DEF TypeOK
  <1>5. TypeOK'
    <2>1. current' \in (Conns \cup {None}) \X (Conns \cup {None})
      BY <1>1, <1>3
    <2>2. /\ WireTyped(wire') /\ listening' \in BOOLEAN /\ made' \in 0..lanes[Connector]
          /\ fds' \in [Lanes(Acceptor) -> Conns \cup {None}] /\ down' \in [Sides -> SUBSET Conns]
      BY <1>2 DEF TypeOK
    <2>3. "id" \in Places /\ Acceptor \in Sides
      BY SideFacts DEF Places
    <2> QED BY <1>1, <1>2, <1>3, <2>1, <2>2, <2>3, TypeSetup
  <1>6. SettingUp /\ SettingUp' /\ current = Nothing /\ listening
    BY <1>1, <1>4 DEF SettingUp, Flow, Accepting
  <1>7. \A j : Stored(j)' <=> Stored(j)
    BY <1>2 DEF Stored, Lanes
  <1>8. \A j \in Conns : j # None
    BY ConnFacts
  <1>9. current'[1] = k /\ current[1] = None
    BY <1>1, <1>6 DEF Nothing
  <1>10. Lanes(Acceptor)' = Lanes(Acceptor) /\ Made' = Made
    BY <1>2 DEF Lanes, Made
  <1>11. Accepting'
    <2>1. ~listening' => backlog' = <<>>
      BY <1>2, <1>6
    <2>2. current'[1] # None /\ ~Queued(current[1])'
      BY <1>3, <1>8, <1>9 DEF Queued
    <2>3. \A l \in Lanes(Acceptor) :
            /\ fds[l] \in {None, l, Foreign}
            /\ fds[l] # None => current'[1] # fds[l]
      BY <1>3, <1>9 DEF Flow, Accepting
    <2>4. \E l \in Lanes(Acceptor) : fds[l] = None
      BY <1>6 DEF Flow, Accepting
    <2>5. \A j \in LaneIds : Queued(j)' \/ current'[1] = j \/ Stored(j) => j \in Made
      BY <1>3, <1>9 DEF Flow, Accepting
    <2>6. (Queued(Foreign)' \/ current'[1] = Foreign
             \/ (\E l \in Lanes(Acceptor) : fds[l] = Foreign)) => strays > 0
      BY <1>3, <1>9 DEF Flow, Accepting
    <2>7. \A j \in Made : Queued(j)' \/ current'[1] = j \/ Stored(j)
      <3>1. \A j \in Made : j # None
        BY MadeFacts, ConnFacts
      <3> QED BY <1>3, <1>6, <1>9, <3>1 DEF Flow, Accepting
    <2>8. ASSUME NEW l \in Lanes(Acceptor), fds[l] # None PROVE ~Queued(fds[l])'
      <3>1. PICK c : c = fds[l]
        OBVIOUS
      <3>2. ~Queued(c)
        BY <2>8, <3>1 DEF Flow, Accepting
      <3>3. ~Queued(c)'
        BY <1>3, <3>2
      <3>4. fds'[l] = c
        BY <1>2, <3>1
      <3> QED BY <3>3, <3>4 DEF Queued
    <2> QED BY <1>2, <1>3, <1>4, <1>6, <1>7, <1>10, <2>1, <2>2, <2>3, <2>4, <2>5, <2>6, <2>7, <2>8
      DEF Accepting
  <1>12. Connecting'
    BY <1>2, <1>4 DEF Flow, Connecting
  <1>13. Compared'
    BY <1>2, <1>4, <1>7, <1>10 DEF Flow, Compared, Passed, Metadata
  <1>14. Threads' /\ Read' /\ Closing'
    <2>1. \A t \in Sides : pc'[t] = pc[t] \/ (pc[t] \notin {"io", "done", "failed"}
                                                /\ pc'[t] \notin {"io", "done", "failed"})
      BY <1>1, <1>4, SideFacts
    <2> QED BY <1>2, <1>6, <1>7, <2>1, SetupKeeps
  <1>15. Streams'
    <2>1. ASSUME NEW s \in Sides, NEW j \in Made, Reads(s, j)' PROVE Aligned(s, j)'
      <3>1. Reads(s, j)
        <4>1. CASE s = Acceptor
          BY <1>1, <1>3, <1>7, <1>9, <2>1, <4>1 DEF Reads
        <4>2. CASE s = Connector
          BY <1>4, <2>1, <4>2, SideFacts DEF Reads
        <4> QED BY <4>1, <4>2, SideFacts
      <3>2. Aligned(s, j)
        BY <3>1 DEF Flow, Streams
      <3>3. Greeted(s, j)' = Greeted(s, j)
        BY <1>1, <1>2, <1>4, <1>7, SideFacts DEF Greeted, Examined, Passed
      <3>4. wire'[Other(s)][j] = wire[Other(s)][j] /\ UNCHANGED <<settings, pos>>
        BY <1>2
      <3> QED BY <1>7, <3>2, <3>3, <3>4, AlignedSame
    <2>2. (Queued(Foreign) \/ Examined(Foreign, "id"))' => Queued(Foreign)
      BY <1>3, <1>9 DEF Examined
    <2> QED BY <1>2, <1>7, <1>10, <2>1, <2>2 DEF Flow, Streams
  <1> QED BY <1>5, <1>11, <1>12, <1>13, <1>14, <1>15 DEF Flow

\* A connection of another run.
LEMMA StrayStep ==
    ASSUME TypeOK, Flow, Stray
    PROVE  TypeOK' /\ Flow'
  <1>1. /\ listening /\ strays = 0 /\ strays' = 1 /\ failures < MaxTroubles
        /\ backlog' = Append(backlog, Foreign)
    BY DEF Stray
  <1>2. /\ lanes' = lanes /\ count' = count /\ param' = param /\ validate' = validate
        /\ writer' = writer /\ listening' = listening /\ made' = made /\ fds' = fds
        /\ current' = current /\ pc' = pc /\ down' = down /\ failures' = failures
        /\ UNCHANGED <<settings, io>> /\ pos' = pos
    BY DEF Stray, settings, io
  <1>3. PICK l \in LaneIds,
          x \in {[kind |-> "meta", is |-> Metadata(Acceptor)],
                 [kind |-> "meta", is |-> [Metadata(Acceptor) EXCEPT !.param = Foreign]],
                 [kind |-> "ct", is |-> Foreign]} :
            wire' = [wire EXCEPT ![Connector][Foreign] = <<[kind |-> "id", is |-> l], x>>]
    BY DEF Stray
  <1>4. PICK v : v = <<[kind |-> "id", is |-> l], x>>
    OBVIOUS
  <1>5. x \in Messages /\ [kind |-> "id", is |-> l] \in Messages
    BY <1>3, MessageTypes, SideFacts
  <1>6. v \in Seq(Messages) /\ Len(v) = 2 /\ Head(v).kind = "id" /\ v # <<>>
    BY <1>4, <1>5
  <1>8. WireTyped(wire') /\ wire'[Connector][Foreign] = v
        /\ SameElsewhere(wire, wire', Connector, Foreign)
    <2>1. v \in Seq(Messages) /\ Len(v) <= Cap + 2
      BY <1>6, LinkBounds
    <2>2. WireTyped(wire) /\ Connector \in Sides /\ Foreign \in Conns
      BY ConnFacts, SideFacts DEF TypeOK
    <2>3. Put(wire, [wire EXCEPT ![Connector][Foreign] = v], Connector, Foreign, v)
      BY <2>1, <2>2, PutFacts
    <2> QED BY <1>3, <1>4, <2>3 DEF Put
  <1>9. ~Queued(Foreign) /\ current[1] # Foreign /\ \A j \in Lanes(Acceptor) : fds[j] # Foreign
    BY <1>1 DEF Flow, Accepting
  <1>10. /\ backlog' \in Seq(Conns) /\ \A j : Queued(j)' <=> Queued(j) \/ j = Foreign
         /\ \A i, j \in DOMAIN backlog' : backlog'[i] = backlog'[j] => i = j
    BY <1>1, <1>9, AppendQueue, ConnFacts
  <1>11. TypeOK'
    <2>1. failures' \in 0..MaxTroubles /\ strays' \in {0, 1}
      BY <1>1, <1>2 DEF TypeOK
    <2> QED BY <1>2, <1>8, <1>10, <2>1 DEF TypeOK, io, Lanes
  <1>12. \A j : Stored(j)' <=> Stored(j)
    BY <1>2 DEF Stored, Lanes
  <1>13. Lanes(Acceptor)' = Lanes(Acceptor) /\ Made' = Made /\ (SettingUp' <=> SettingUp)
    BY <1>2 DEF Lanes, Made, SettingUp
  <1>14. Accepting'
    <2>1. ~listening' => backlog' = <<>>
      BY <1>1, <1>2
    <2>2. pc[Acceptor] \in {"id", "meta"} => ~Queued(current[1])'
      <3>1. PICK c : c = current[1]
        OBVIOUS
      <3>2. pc[Acceptor] \in {"id", "meta"} => ~Queued(c)'
        BY <1>9, <1>10, <3>1 DEF Flow, Accepting
      <3>3. current'[1] = c
        BY <1>2, <3>1
      <3> QED BY <3>2, <3>3 DEF Queued
    <2>3. ASSUME NEW j \in Lanes(Acceptor), fds[j] # None PROVE ~Queued(fds[j])'
      <3>1. PICK c : c = fds[j]
        OBVIOUS
      <3>2. ~Queued(c)'
        BY <1>9, <1>10, <2>3, <3>1 DEF Flow, Accepting
      <3>3. fds'[j] = c
        BY <1>2, <3>1
      <3> QED BY <3>2, <3>3 DEF Queued
    <2>4. \A j \in LaneIds : Queued(j)' => Queued(j)
      BY <1>10, ConnFacts
    <2>5. SettingUp => \A j \in Made : Queued(j)' \/ current[1] = j \/ Stored(j)
      BY <1>10 DEF Flow, Accepting
    <2> QED BY <1>1, <1>2, <1>10, <1>12, <1>13, <2>1, <2>2, <2>3, <2>4, <2>5 DEF Flow, Accepting
  <1>15. Connecting'
    BY <1>2 DEF Flow, Connecting
  <1>16. Compared'
    BY <1>2, <1>12, <1>13 DEF Flow, Compared, Passed, Metadata
  <1>17. Threads' /\ Read' /\ Closing'
    BY <1>1, <1>2, <1>12, SetupKeeps
  <1>18. \A j \in LaneIds : wire'[Acceptor][j] = wire[Acceptor][j]
                             /\ wire'[Connector][j] = wire[Connector][j]
    BY <1>8, ConnFacts, SideFacts DEF SameElsewhere
  <1>19. Streams'
    <2>1. ASSUME NEW s \in Sides, NEW j \in Made, Reads(s, j)' PROVE Aligned(s, j)'
      <3>1. j # Foreign /\ j \in LaneIds
        BY MadeFacts
      <3>2. Reads(s, j)
        BY <1>2, <1>10, <1>12, <2>1, <3>1 DEF Reads
      <3>3. Aligned(s, j)
        BY <3>2 DEF Flow, Streams
      <3>4. Greeted(s, j)' = Greeted(s, j)
        BY <1>2, <1>12 DEF Greeted, Examined, Passed
      <3>5. wire'[Other(s)][j] = wire[Other(s)][j]
        BY <1>18, <3>1, SideFacts
      <3>6. UNCHANGED <<settings, pos>>
        BY <1>2
      <3> QED BY <1>12, <3>3, <3>4, <3>5, <3>6, AlignedSame
    <2>2. wire'[Acceptor][Foreign] = wire[Acceptor][Foreign]
      BY <1>8, ConnFacts, SideFacts DEF SameElsewhere
    <2> QED BY <1>2, <1>6, <1>8, <1>12, <1>13, <1>18, <2>1, <2>2 DEF Flow, Streams
  <1> QED BY <1>11, <1>14, <1>15, <1>16, <1>17, <1>19 DEF Flow

LEMMA StraySendsStep ==
    ASSUME TypeOK, Flow, StraySends
    PROVE  TypeOK' /\ Flow'
  <1>a. PICK q : q = wire[Connector][Foreign]
    OBVIOUS
  <1>b. PICK x : x = [kind |-> "ct", is |-> Foreign]
    OBVIOUS
  <1>1. strays > 0 /\ Len(q) < Cap /\ UNCHANGED <<settings, pc, link, down, io, bounds>>
    BY <1>a DEF StraySends
  <1>2. q \in Seq(Messages) /\ Connector \in Sides /\ Foreign \in Conns /\ WireTyped(wire)
    BY <1>a, ConnFacts, SideFacts DEF TypeOK, WireTyped
  <1>3. wire' = [wire EXCEPT ![Connector][Foreign] = Append(q, x)]
    BY <1>2, <1>a, <1>b DEF StraySends, TypeOK, WireTyped
  <1>4. PICK v : v = Append(q, x)
    OBVIOUS
  <1>5. x \in Messages
    BY <1>b, MessageTypes
  <1>6. /\ v \in Seq(Messages) /\ Len(v) = Len(q) + 1 /\ Len(q) \in Nat /\ v[Len(q) + 1] = x
        /\ \A j \in 1..Len(q) : v[j] = q[j]
        /\ q # <<>> => v # <<>> /\ Head(v) = Head(q)
    BY <1>2, <1>4, <1>5
  <1>7. WireTyped(wire') /\ wire'[Connector][Foreign] = v
        /\ SameElsewhere(wire, wire', Connector, Foreign)
    <2>1. v \in Seq(Messages) /\ Len(v) <= Cap + 2
      BY <1>1, <1>6, LinkBounds
    <2>2. Put(wire, [wire EXCEPT ![Connector][Foreign] = v], Connector, Foreign, v)
      BY <1>2, <2>1, PutFacts
    <2> QED BY <1>3, <1>4, <2>2 DEF Put
  <1>8. /\ pc' = pc /\ down' = down /\ pos' = pos /\ strays' = strays
        /\ UNCHANGED <<settings, link, io, bounds>> /\ fds' = fds /\ made' = made
        /\ listening' = listening /\ UNCHANGED <<settings, pc, link>>
    BY <1>1 DEF io, bounds, link
  <1>9. TypeOK'
    BY <1>7, <1>8 DEF TypeOK, settings, link, io, bounds, Lanes
  <1>10. Accepting' /\ Connecting' /\ Compared'
    BY <1>8, LinkSame DEF Flow
  <1>11. /\ Made' = Made
         /\ \A s \in Sides : \A k : Greeted(s, k)' = Greeted(s, k)
         /\ \A s \in Sides : \A k : Reads(s, k)' <=> Reads(s, k)
         /\ \A k : (Stored(k)' <=> Stored(k)) /\ (Queued(k)' <=> Queued(k))
         /\ \A k : Examined(k, "id")' <=> Examined(k, "id")
    BY <1>8, SameSetup
  <1>12. Threads' /\ Read' /\ Closing'
    BY <1>8, <1>11, SetupKeeps
  <1>13. \A j \in LaneIds : wire'[Acceptor][j] = wire[Acceptor][j]
                             /\ wire'[Connector][j] = wire[Connector][j]
    BY <1>7, ConnFacts, SideFacts DEF SameElsewhere
  <1>14. Streams'
    <2>1. ASSUME NEW s \in Sides, NEW j \in Made, Reads(s, j)' PROVE Aligned(s, j)'
      <3>1. Aligned(s, j)
        BY <1>11, <2>1 DEF Flow, Streams
      <3>2. wire'[Other(s)][j] = wire[Other(s)][j]
        BY <1>13, MadeFacts, SideFacts
      <3>3. UNCHANGED <<settings, pos>>
        BY <1>8
      <3> QED BY <1>11, <3>1, <3>2, <3>3, AlignedSame
    <2>2. wire'[Acceptor][Foreign] = wire[Acceptor][Foreign] /\ Lanes(Acceptor)' = Lanes(Acceptor)
      BY <1>7, <1>8, ConnFacts, SideFacts DEF SameElsewhere, Lanes, settings
    <2>3. Queued(Foreign) \/ Examined(Foreign, "id") => v # <<>> /\ Head(v).kind = "id"
      BY <1>6, <1>a DEF Flow, Streams
    <2> QED BY <1>7, <1>8, <1>11, <1>13, <2>1, <2>2, <2>3 DEF Flow, Streams
  <1> QED BY <1>9, <1>10, <1>12, <1>14 DEF Flow

LEMMA StrayReadsStep ==
    ASSUME TypeOK, Flow, StrayReads
    PROVE  TypeOK' /\ Flow'
  <1>1. Connector \in Sides /\ Other(Connector) = Acceptor /\ Foreign \in Conns
    BY ConnFacts, SideFacts
  <1>2. Arrived(Connector, Foreign) /\ wire' = Take(Connector, Foreign)
    BY <1>1 DEF StrayReads, Arrived, Take
  <1>3. wire[Acceptor][Foreign] # <<>> /\ UNCHANGED <<settings, pc, link, down, io, bounds>>
    BY DEF StrayReads
  <1>4. WireTyped(wire') /\ SameElsewhere(wire, wire', Acceptor, Foreign)
    BY <1>1, <1>2, TakeFacts
  <1>5. /\ pc' = pc /\ down' = down /\ pos' = pos /\ strays' = strays
        /\ UNCHANGED <<settings, link, io, bounds>> /\ fds' = fds /\ made' = made
        /\ listening' = listening /\ UNCHANGED <<settings, pc, link>>
    BY <1>3 DEF io, bounds, link
  <1>6. TypeOK'
    BY <1>4, <1>5 DEF TypeOK, settings, link, io, bounds, Lanes
  <1>7. Accepting' /\ Connecting' /\ Compared'
    BY <1>5, LinkSame DEF Flow
  <1>8. /\ Made' = Made
        /\ \A s \in Sides : \A k : Greeted(s, k)' = Greeted(s, k)
        /\ \A s \in Sides : \A k : Reads(s, k)' <=> Reads(s, k)
        /\ \A k : (Stored(k)' <=> Stored(k)) /\ (Queued(k)' <=> Queued(k))
        /\ \A k : Examined(k, "id")' <=> Examined(k, "id")
    BY <1>5, SameSetup
  <1>9. Threads' /\ Read' /\ Closing'
    BY <1>5, <1>8, SetupKeeps
  <1>10. \A j \in LaneIds : wire'[Acceptor][j] = wire[Acceptor][j]
                             /\ wire'[Connector][j] = wire[Connector][j]
    BY <1>4, ConnFacts, SideFacts DEF SameElsewhere
  <1>11. wire'[Connector][Foreign] = wire[Connector][Foreign]
    BY <1>4, ConnFacts, SideFacts DEF SameElsewhere
  <1>12. Streams'
    <2>1. ASSUME NEW s \in Sides, NEW j \in Made, Reads(s, j)' PROVE Aligned(s, j)'
      <3>1. Aligned(s, j)
        BY <1>8, <2>1 DEF Flow, Streams
      <3>2. wire'[Other(s)][j] = wire[Other(s)][j]
        BY <1>10, MadeFacts, SideFacts
      <3>3. UNCHANGED <<settings, pos>>
        BY <1>5
      <3> QED BY <1>8, <3>1, <3>2, <3>3, AlignedSame
    <2>2. ~(\A j \in Lanes(Acceptor) : fds[j] # Foreign) /\ Lanes(Acceptor)' = Lanes(Acceptor)
      BY <1>3 DEF Flow, Streams, Lanes, settings
    <2> QED BY <1>5, <1>8, <1>10, <1>11, <2>1, <2>2 DEF Flow, Streams
  <1> QED BY <1>6, <1>7, <1>9, <1>12 DEF Flow

\* The connector makes its next connection.
LEMMA ConnectStep ==
    ASSUME TypeOK, Flow, Connect
    PROVE  TypeOK' /\ Flow'
  <1>a. PICK k : k = made
    OBVIOUS
  <1>b. PICK v : v = <<[kind |-> "id", is |-> made]>> \o
                       (IF validate[Connector]
                        THEN <<[kind |-> "meta", is |-> Metadata(Connector)]>> ELSE <<>>)
    OBVIOUS
  <1>c. PICK place : place = IF validate[Connector] THEN "meta" ELSE NextLane
    OBVIOUS
  <1>1. /\ pc[Connector] = "connect" /\ listening /\ backlog' = Append(backlog, k)
        /\ wire' = [wire EXCEPT ![Connector][k] = v] /\ made' = k + 1
        /\ pc' = [pc EXCEPT ![Connector] = place]
    BY <1>a, <1>b, <1>c DEF Connect
  <1>2. /\ lanes' = lanes /\ count' = count /\ param' = param /\ validate' = validate
        /\ writer' = writer /\ listening' = listening /\ current' = current /\ fds' = fds
        /\ down' = down /\ strays' = strays /\ UNCHANGED <<settings, io, bounds>> /\ pos' = pos
    BY DEF Connect, settings, io, bounds
  <1>3. k \in Nat /\ k < lanes[Connector] /\ lanes[Connector] \in Nat
    BY <1>1, <1>a, MadeFacts, LaneFacts, SideFacts DEF Flow, Connecting
  <1>4. k \in Lanes(Connector) /\ k \in LaneIds /\ k \in Conns /\ k # Foreign /\ k # None
    <2>1. k \in Lanes(Connector)
      BY <1>3 DEF Lanes
    <2> QED BY <2>1, LaneFacts, ConnFacts, SideFacts
  <1>5. k \notin Made /\ Made' = Made \cup {k}
    BY <1>1, <1>3, <1>a DEF Made
  <1>6. ~Queued(k) /\ current[1] # k /\ ~Stored(k)
    BY <1>4, <1>5 DEF Flow, Accepting
  <1>7. /\ backlog' \in Seq(Conns) /\ \A j : Queued(j)' <=> Queued(j) \/ j = k
        /\ \A i, j \in DOMAIN backlog' : backlog'[i] = backlog'[j] => i = j
    BY <1>1, <1>4, <1>6, AppendQueue
  <1>8. pc'[Connector] = place /\ pc'[Acceptor] = pc[Acceptor]
    BY <1>1, SideFacts DEF TypeOK
  <1>9. /\ validate[Connector] => place = "meta"
        /\ ~validate[Connector] => place = IF k + 1 < lanes[Connector] THEN "connect" ELSE "up"
    BY <1>1, <1>c DEF NextLane
  <1>10. place \in {"meta", "connect", "up"}
    BY <1>9
  <1>11. /\ v \in Seq(Messages) /\ Len(v) = Hello(Connector)
         /\ \A j \in 1..Len(v) : IsMessage(Connector, k, j, v[j])
    <2>1. PICK x, y : x = [kind |-> "id", is |-> k] /\ y = [kind |-> "meta", is |-> Metadata(Connector)]
      OBVIOUS
    <2>2. x \in Messages /\ y \in Messages
      BY <1>4, <2>1, MessageTypes, SideFacts
    <2>3. v = <<x>> \o (IF validate[Connector] THEN <<y>> ELSE <<>>)
      BY <1>a, <1>b, <2>1
    <2>4. CASE validate[Connector]
      <3>1. v = <<x>> \o <<y>>
        BY <2>2, <2>3, <2>4
      <3>2. Hello(Connector) = 2
        BY <2>4 DEF Hello
      <3>3. v \in Seq(Messages) /\ Len(v) = 2 /\ v[1] = x /\ v[2] = y
        BY <2>2, <3>1
      <3>4. IsMessage(Connector, k, 1, x) /\ IsMessage(Connector, k, 2, y)
        BY <2>1, <3>2 DEF IsMessage
      <3>5. \A j \in 1..2 : j = 1 \/ j = 2
        OBVIOUS
      <3> QED BY <3>2, <3>3, <3>4, <3>5
    <2>5. CASE ~validate[Connector]
      <3>1. v = <<x>>
        BY <2>2, <2>3, <2>5
      <3>2. Hello(Connector) = 1
        BY <2>5 DEF Hello
      <3>3. v \in Seq(Messages) /\ Len(v) = 1 /\ v[1] = x
        BY <2>2, <3>1
      <3>4. IsMessage(Connector, k, 1, x)
        BY <2>1 DEF IsMessage
      <3>5. \A j \in 1..1 : j = 1
        OBVIOUS
      <3> QED BY <3>2, <3>3, <3>4, <3>5
    <2> QED BY <2>4, <2>5
  <1>12. WireTyped(wire') /\ wire'[Connector][k] = v /\ SameElsewhere(wire, wire', Connector, k)
    <2>1. v \in Seq(Messages) /\ Len(v) <= Cap + 2
      BY <1>11, LinkBounds DEF Hello
    <2>2. WireTyped(wire) /\ Connector \in Sides
      BY SideFacts DEF TypeOK
    <2>3. Put(wire, [wire EXCEPT ![Connector][k] = v], Connector, k, v)
      BY <1>4, <2>1, <2>2, PutFacts
    <2> QED BY <1>1, <2>3 DEF Put
  <1>13. TypeOK'
    <2>1. made' \in 0..lanes[Connector]
      BY <1>1, <1>3
    <2>2. /\ listening' \in BOOLEAN /\ current' \in (Conns \cup {None}) \X (Conns \cup {None})
          /\ fds' \in [Lanes(Acceptor) -> Conns \cup {None}] /\ down' \in [Sides -> SUBSET Conns]
      BY <1>2 DEF TypeOK
    <2>3. place \in Places /\ Connector \in Sides
      BY <1>10, SideFacts DEF Places
    <2> QED BY <1>1, <1>2, <1>7, <1>12, <2>1, <2>2, <2>3, TypeSetup
  <1>14. \A j : Stored(j)' <=> Stored(j)
    BY <1>2 DEF Stored, Lanes
  <1>15. Lanes(Acceptor)' = Lanes(Acceptor) /\ (SettingUp' <=> SettingUp)
    BY <1>2, <1>8 DEF Lanes, SettingUp
  <1>16. Accepting'
    <2>1. ~listening' => backlog' = <<>>
      BY <1>1, <1>2
    <2>2. pc[Acceptor] \in {"id", "meta"} => ~Queued(current[1])'
      <3>1. PICK c : c = current[1]
        OBVIOUS
      <3>2. pc[Acceptor] \in {"id", "meta"} => ~Queued(c)'
        BY <1>6, <1>7, <3>1 DEF Flow, Accepting
      <3>3. current'[1] = c
        BY <1>2, <3>1
      <3> QED BY <3>2, <3>3 DEF Queued
    <2>3. ASSUME NEW j \in Lanes(Acceptor), fds[j] # None PROVE ~Queued(fds[j])'
      <3>1. PICK c : c = fds[j]
        OBVIOUS
      <3>2. ~Queued(c) /\ c \in {j, Foreign}
        BY <2>3, <3>1 DEF Flow, Accepting
      <3>3. c # k
        BY <1>4, <1>6, <3>1, <3>2 DEF Stored
      <3>4. ~Queued(c)'
        BY <1>7, <3>2, <3>3
      <3>5. fds'[j] = c
        BY <1>2, <3>1
      <3> QED BY <3>4, <3>5 DEF Queued
    <2>4. \A j \in LaneIds : Queued(j)' \/ current[1] = j \/ Stored(j) => j \in Made \cup {k}
      BY <1>7 DEF Flow, Accepting
    <2>5. SettingUp => \A j \in Made \cup {k} : Queued(j)' \/ current[1] = j \/ Stored(j)
      BY <1>7 DEF Flow, Accepting
    <2>6. Queued(Foreign)' <=> Queued(Foreign)
      BY <1>4, <1>7
    <2> QED BY <1>2, <1>5, <1>7, <1>8, <1>14, <1>15, <2>1, <2>2, <2>3, <2>4, <2>5, <2>6
      DEF Flow, Accepting
  <1>17. Connecting'
    <2>1. validate[Connector] \in BOOLEAN
      BY SideFacts, LinkSettings DEF TypeOK
    <2>2. ~(k + 1 < lanes[Connector]) => k + 1 = lanes[Connector]
      BY <1>3
    <2>3. k + 1 > 0
      BY <1>3
    <2> QED BY <1>1, <1>2, <1>8, <1>9, <2>1, <2>2, <2>3 DEF Connecting
  <1>18. \A j \in Made : Passed(j) /\ Passed(j)'
    BY <1>1, <1>3, <1>5, SideFacts DEF Passed
  <1>19. validate[Connector] => ~Passed(k)'
    BY <1>1, <1>3, <1>8, <1>9 DEF Passed
  <1>20. Compared'
    BY <1>1, <1>2, <1>5, <1>14, <1>15, <1>18, <1>19 DEF Flow, Compared, Metadata
  <1>21. Threads' /\ Read' /\ Closing'
    <2>1. \A t \in Sides : pc'[t] = pc[t] \/ (pc[t] \notin {"io", "done", "failed"}
                                                /\ pc'[t] \notin {"io", "done", "failed"})
      BY <1>1, <1>8, <1>10, SideFacts
    <2> QED BY <1>1, <1>2, <1>14, <2>1, SetupKeeps
  <1>22. \A j \in LaneIds : wire'[Acceptor][j] = wire[Acceptor][j]
                             /\ (j # k => wire'[Connector][j] = wire[Connector][j])
    BY <1>12, ConnFacts, SideFacts DEF SameElsewhere
  <1>23. ASSUME NEW s \in Sides, NEW j \in Made, Reads(s, j)' PROVE Aligned(s, j)'
    <2>1. j # k /\ j \in LaneIds
      BY <1>5, MadeFacts
    <2>2. Reads(s, j)
      <3>1. CASE s = Acceptor
        BY <1>2, <1>7, <1>8, <1>14, <1>23, <2>1, <3>1 DEF Reads
      <3>2. CASE s = Connector
        BY <1>1, <3>2, SideFacts DEF Reads
      <3> QED BY <3>1, <3>2, SideFacts
    <2>3. Aligned(s, j)
      BY <2>2 DEF Flow, Streams
    <2>4. Greeted(s, j)' = Greeted(s, j)
      BY <1>2, <1>8, <1>14, <1>18 DEF Greeted, Examined
    <2>5. wire'[Other(s)][j] = wire[Other(s)][j]
      BY <1>22, <2>1, SideFacts
    <2>6. UNCHANGED <<settings, pos>>
      BY <1>2
    <2> QED BY <1>14, <2>3, <2>4, <2>5, <2>6, AlignedSame
  <1>24. \A s \in Sides : First(s, k)' = First(s, k) /\ Hello(s)' = Hello(s) /\ Metadata(s)' = Metadata(s)
    BY <1>2 DEF First, Hello, Metadata
  <1>25. pos'[Connector][k] - First(Connector, k)' = 0
    <2>1. pos[Connector][k] = First(Connector, k) /\ First(Connector, k) \in Nat
      BY <1>1, <1>4, LaneFacts, SideFacts DEF Flow, Threads
    <2> QED BY <1>2, <1>24, <2>1, SideFacts
  <1>26. Aligned(Acceptor, k)'
    <2>1. Given(Connector, k)' = Hello(Connector) + 0
      BY <1>24, <1>25, SideFacts DEF Given
    <2>2. Hello(Connector) \in Nat
      BY DEF Hello
    <2>3. Taken(Acceptor, k)' = 0
      <3>1. Greeted(Acceptor, k)' = 0
        BY <1>2, <1>6, <1>14, SideFacts DEF Greeted, Examined
      <3> QED BY <1>6, <1>14, <3>1 DEF Taken
    <2>4. \A n, x : IsMessage(Connector, k, n, x)' <=> IsMessage(Connector, k, n, x)
      BY <1>24, SideFacts DEF IsMessage
    <2>5. \A j \in 1..Len(v) : 0 + j = j
      OBVIOUS
    <2>6. Other(Acceptor) = Connector /\ Given(Connector, k)' = 0 + Len(v)
      BY <1>11, <2>1, <2>2, SideFacts
    <2> QED BY <1>11, <1>12, <2>3, <2>4, <2>5, <2>6 DEF Aligned
  <1>27. Aligned(Connector, k)'
    <2>1. wire[Acceptor][k] = <<>>
      BY <1>4, <1>6 DEF Flow, Streams
    <2>2. wire'[Acceptor][k] = <<>>
      BY <1>4, <1>22, <2>1
    <2>3. Given(Acceptor, k)' = 0
      BY <1>6, <1>14 DEF Given
    <2>4. Greeted(Connector, k)' = 0
      BY <1>2, <1>19 DEF Greeted
    <2>5. Taken(Connector, k)' = 0
      BY <1>25, <2>4, SideFacts DEF Taken
    <2>6. Len(<<>>) = 0 /\ \A j : ~(j \in 1..0)
      OBVIOUS
    <2> QED BY <2>2, <2>3, <2>5, <2>6, SideFacts DEF Aligned
  <1>28. wire'[Connector][Foreign] = wire[Connector][Foreign]
         /\ wire'[Acceptor][Foreign] = wire[Acceptor][Foreign]
    BY <1>4, <1>12, ConnFacts, SideFacts DEF SameElsewhere
  <1>29. (Queued(Foreign)' <=> Queued(Foreign)) /\ (Examined(Foreign, "id")' <=> Examined(Foreign, "id"))
    BY <1>2, <1>4, <1>7, <1>8 DEF Examined
  <1>30. Streams'
    <2>1. \A s \in Sides : \A j \in Made' : Reads(s, j)' => Aligned(s, j)'
      BY <1>5, <1>23, <1>26, <1>27, SideFacts
    <2> QED BY <1>2, <1>5, <1>14, <1>15, <1>22, <1>28, <1>29, <2>1 DEF Flow, Streams
  <1> QED BY <1>13, <1>16, <1>17, <1>20, <1>21, <1>30 DEF Flow

\* The connector reads the acceptor's metadata.
LEMMA ConnectorMetaStep ==
    ASSUME TypeOK, Flow, ConnectorMeta
    PROVE  TypeOK' /\ Flow'
  <1>a. PICK k : k = made - 1
    OBVIOUS
  <1>1. pc[Connector] = "meta" /\ Arrived(Connector, k) /\ wire' = Take(Connector, k)
    BY <1>a DEF ConnectorMeta
  <1>2. /\ k \in Made /\ Aligned(Connector, k) /\ Taken(Connector, k) = 0 /\ Stored(k)
        /\ validate[Acceptor] =>
             Message(Connector, k) = [kind |-> "meta", is |-> Metadata(Acceptor)]
    BY <1>1, <1>a, ConnectorMetaFacts
  <1>3. k \in Conns /\ k \in LaneIds /\ k # Foreign
    BY <1>2, MadeFacts, ConnFacts
  <1>4. validate[Connector]
    BY <1>1 DEF Flow, Connecting
  <1>5. CASE ~MetadataOk(Connector, Message(Connector, k)) /\ Throw(Connector)
    <2>1. ASSUME Matched, strays = 0 PROVE FALSE
      <3>1. validate[Acceptor] /\ Metadata(Acceptor) = Metadata(Connector)
        BY <1>4, <2>1 DEF Matched
      <3> QED BY <1>2, <1>5, <3>1 DEF MetadataOk
    <2> QED BY <1>1, <1>3, <1>5, <2>1, ThrowStep, SideFacts
  <1>6. CASE /\ MetadataOk(Connector, Message(Connector, k)) /\ made' = made
             /\ pc' = [pc EXCEPT ![Connector] = NextLane]
             /\ UNCHANGED <<settings, listening, backlog, current, fds, down, io, bounds>>
    <2>a. PICK place : place = NextLane
      OBVIOUS
    <2>1. /\ lanes' = lanes /\ count' = count /\ param' = param /\ validate' = validate
          /\ writer' = writer /\ listening' = listening /\ backlog' = backlog /\ made' = made
          /\ current' = current /\ fds' = fds /\ down' = down /\ strays' = strays
          /\ UNCHANGED <<settings, io, bounds>> /\ pos' = pos
      BY <1>6 DEF settings, io, bounds
    <2>2. place = (IF made < lanes[Connector] THEN "connect" ELSE "up") /\ pc' = [pc EXCEPT ![Connector] = place]
      BY <1>6, <2>a DEF NextLane
    <2>3. pc'[Connector] = place /\ pc'[Acceptor] = pc[Acceptor] /\ place \in {"connect", "up"}
      BY <2>2, SideFacts DEF TypeOK
    <2>4. validate[Acceptor] /\ Metadata(Acceptor) = Metadata(Connector)
      <3>1. Message(Connector, k).kind = "meta" /\ Message(Connector, k).is = Metadata(Connector)
        BY <1>6 DEF MetadataOk
      <3>2. validate[Acceptor]
        <4>1. IsMessage(Acceptor, k, 0 + 1, Message(Connector, k))
          BY <1>1, <1>2, HeadFacts, SideFacts
        <4>2. ~validate[Acceptor] => Hello(Acceptor) = 0
          BY SideFacts DEF Hello
        <4>3. ~validate[Acceptor] => Message(Connector, k).kind = "ct"
          BY <4>1, <4>2, SideFacts DEF IsMessage
        <4> QED BY <3>1, <4>3
      <3>3. Message(Connector, k) = [kind |-> "meta", is |-> Metadata(Acceptor)]
        BY <1>2, <3>2
      <3> QED BY <3>1, <3>2, <3>3
    <2>5. /\ WireTyped(wire') /\ SameElsewhere(wire, wire', Acceptor, k)
          /\ wire'[Acceptor][k] = Tail(wire[Acceptor][k])
      BY <1>1, <1>3, TakeFacts, SideFacts
    <2>6. TypeOK'
      <3>1. /\ listening' \in BOOLEAN /\ current' \in (Conns \cup {None}) \X (Conns \cup {None})
            /\ fds' \in [Lanes(Acceptor) -> Conns \cup {None}] /\ down' \in [Sides -> SUBSET Conns]
            /\ backlog' \in Seq(Conns) /\ made' \in 0..lanes[Connector]
        BY <2>1 DEF TypeOK
      <3>2. place \in Places /\ Connector \in Sides
        BY <2>3, SideFacts DEF Places
      <3> QED BY <2>1, <2>2, <2>5, <3>1, <3>2, TypeSetup
    <2>7. /\ \A j : Stored(j)' <=> Stored(j)
          /\ \A j : Queued(j)' <=> Queued(j)
          /\ Lanes(Acceptor)' = Lanes(Acceptor) /\ Made' = Made /\ (SettingUp' <=> SettingUp)
      BY <2>1, <2>3 DEF Stored, Lanes, Queued, Made, SettingUp
    <2>8. Accepting'
      BY <2>1, <2>3 DEF Flow, Accepting, SettingUp, Queued, Stored, Made, Lanes
    <2>9. Connecting'
      <3>1. made <= lanes[Connector] /\ made \in Nat /\ lanes[Connector] \in Nat
        BY MadeFacts, LaneFacts, SideFacts
      <3>2. ~(made < lanes[Connector]) => made = lanes[Connector]
        BY <3>1
      <3> QED BY <2>1, <2>2, <2>3, <3>2 DEF Connecting
    <2>10. \A j : Passed(j)' /\ (j # k => Passed(j)) /\ ~Passed(k)
      BY <1>1, <1>a, <2>3 DEF Passed
    <2>11. Compared'
      BY <1>1, <1>2, <2>1, <2>4, <2>7, <2>10 DEF Flow, Compared, Metadata
    <2>12. Threads' /\ Read' /\ Closing'
      <3>1. \A t \in Sides : pc'[t] = pc[t] \/ (pc[t] \notin {"io", "done", "failed"}
                                                  /\ pc'[t] \notin {"io", "done", "failed"})
        BY <1>1, <2>3, SideFacts
      <3> QED BY <2>1, <2>7, <3>1, SetupKeeps
    <2>13. \A j \in Conns : wire'[Connector][j] = wire[Connector][j]
                             /\ (j # k => wire'[Acceptor][j] = wire[Acceptor][j])
      BY <2>5, SideFacts DEF SameElsewhere
    <2>14. \A s \in Sides : First(s, k)' = First(s, k) /\ Hello(s)' = Hello(s) /\ Metadata(s)' = Metadata(s)
      BY <2>1 DEF First, Hello, Metadata
    <2>15. ASSUME NEW s \in Sides, NEW j \in Made, Reads(s, j)' PROVE Aligned(s, j)'
      <3>1. j \in Conns
        BY MadeFacts, ConnFacts
      <3>2. Reads(s, j)
        BY <1>1, <2>1, <2>3, <2>7, <2>15, SideFacts DEF Reads
      <3>3. Aligned(s, j)
        BY <3>2 DEF Flow, Streams
      <3>4. CASE s = Connector /\ j = k
        <4>1. Greeted(Connector, k)' = 1 /\ Greeted(Connector, k) = 0
          BY <1>4, <2>1, <2>10 DEF Greeted
        <4>2. Reader' = Reader
          BY <2>1 DEF Reader
        <4>3. pos[Connector][k] = First(Connector, k) /\ First(Connector, k) \in Nat
          BY <1>1, <1>2, LaneFacts, MadeFacts, SideFacts DEF Flow, Threads
        <4>4. Taken(Connector, k)' = Taken(Connector, k) + 1
          BY <1>2, <2>1, <2>14, <4>1, <4>2, <4>3, SideFacts DEF Taken
        <4>5. Given(Acceptor, k)' = Given(Acceptor, k)
          BY <2>1, <2>7, <2>14, SideFacts DEF Given
        <4>6. \A n, x : IsMessage(Acceptor, k, n, x)' <=> IsMessage(Acceptor, k, n, x)
          BY <2>14, SideFacts DEF IsMessage
        <4>7. Other(Connector) = Acceptor /\ Other(Connector)' = Acceptor /\ Connector \in Sides
          BY SideFacts
        <4>8. Aligned(Connector, k)'
          BY <1>1, <1>2, <2>5, <3>2, <3>4, <4>4, <4>5, <4>6, <4>7, AlignedTail
        <4> QED BY <3>4, <4>8
      <3>5. CASE s # Connector \/ j # k
        <4>1. Greeted(s, j)' = Greeted(s, j)
          BY <1>1, <2>1, <2>3, <2>7, <2>10, <3>5, SideFacts DEF Greeted, Examined
        <4>2. wire'[Other(s)][j] = wire[Other(s)][j]
          BY <2>13, <3>1, <3>5, SideFacts
        <4>3. UNCHANGED <<settings, pos>>
          BY <2>1
        <4> QED BY <2>7, <3>3, <4>1, <4>2, <4>3, AlignedSame
      <3> QED BY <3>4, <3>5
    <2>16. Streams'
      <3>1. ASSUME NEW j \in LaneIds
            PROVE  /\ ~Stored(j) => wire'[Acceptor][j] = <<>>
                   /\ j \notin Made => wire'[Connector][j] = <<>>
        BY <1>2, <2>13, <3>1, ConnFacts DEF Flow, Streams
      <3>2. wire'[Connector][Foreign] = wire[Connector][Foreign]
            /\ wire'[Acceptor][Foreign] = wire[Acceptor][Foreign]
        BY <1>3, <2>13, ConnFacts
      <3>3. Examined(Foreign, "id")' <=> Examined(Foreign, "id")
        BY <2>1, <2>3 DEF Examined
      <3> QED BY <2>1, <2>7, <2>15, <3>1, <3>2, <3>3 DEF Flow, Streams
    <2> QED BY <2>6, <2>8, <2>9, <2>11, <2>12, <2>16 DEF Flow
  <1> QED BY <1>5, <1>6, <1>a DEF ConnectorMeta

\* The examined connection k is stored for lane l.
LEMMA StoreStep ==
    ASSUME TypeOK, Flow, NEW l \in Lanes(Acceptor), fds[l] = None, pc[Acceptor] \in {"id", "meta"},
           NEW k, k = current[1], k \in {l, Foreign}, Store(l),
           UNCHANGED <<settings, made, io, bounds>>, WireTyped(wire'),
           pc[Acceptor] = "meta" <=> validate[Acceptor],
           validate[Acceptor] /\ k = l =>
             validate[Connector] /\ Metadata(Acceptor) = Metadata(Connector),
           Arrived(Acceptor, k), wire'[Connector][k] = Tail(wire[Connector][k]),
           validate[Acceptor] =>
             wire'[Acceptor][k] = Append(wire[Acceptor][k], [kind |-> "meta", is |-> Metadata(Acceptor)]),
           ~validate[Acceptor] => wire'[Acceptor][k] = wire[Acceptor][k],
           \A t \in Sides : \A j \in Conns : j # k => wire'[t][j] = wire[t][j]
    PROVE  TypeOK' /\ Flow'
  <1>a. PICK new : new = [fds EXCEPT ![l] = k]
    OBVIOUS
  <1>b. PICK all \in BOOLEAN : all <=> \A j \in Lanes(Acceptor) : new[j] # None
    OBVIOUS
  <1>c. PICK place : place = IF all THEN "up" ELSE "accept"
    OBVIOUS
  <1>1. /\ fds' = new /\ current' = Nothing /\ pc' = [pc EXCEPT ![Acceptor] = place]
        /\ listening' = ~all
        /\ down' = IF all THEN [down EXCEPT ![Acceptor] = Conns \ {new[j] : j \in Lanes(Acceptor)}]
                   ELSE down
        /\ backlog' = IF all THEN <<>> ELSE backlog
    <2>1. /\ fds' = new /\ current' = Nothing
          /\ pc' = [pc EXCEPT ![Acceptor] =
                     IF \A j \in Lanes(Acceptor) : new[j] # None THEN "up" ELSE "accept"]
          /\ listening' = ~(\A j \in Lanes(Acceptor) : new[j] # None)
          /\ down' = IF \A j \in Lanes(Acceptor) : new[j] # None
                     THEN [down EXCEPT ![Acceptor] = Conns \ {new[j] : j \in Lanes(Acceptor)}]
                     ELSE down
          /\ backlog' = IF \A j \in Lanes(Acceptor) : new[j] # None THEN <<>> ELSE backlog
      BY <1>a DEF Store
    <2>2. CASE all
      BY <1>b, <1>c, <2>1, <2>2
    <2>3. CASE ~all
      BY <1>b, <1>c, <2>1, <2>3
    <2> QED BY <2>2, <2>3
  <1>2. /\ lanes' = lanes /\ count' = count /\ param' = param /\ validate' = validate
        /\ writer' = writer /\ made' = made /\ strays' = strays
        /\ UNCHANGED <<settings, io, bounds>> /\ pos' = pos
    BY DEF settings, io, bounds
  <1>3. /\ k \in Conns /\ ~Queued(k) /\ (k = Foreign => strays > 0) /\ k # None
        /\ k # Foreign => k \in Made /\ ~Stored(k) /\ Aligned(Acceptor, k)
                          /\ Taken(Acceptor, k) = IF pc[Acceptor] = "meta" THEN 1 ELSE 0
    BY ExaminedFacts, ConnFacts
  <1>4. l \in LaneIds /\ l # Foreign /\ l # None /\ l \in Conns
    BY LaneFacts, ConnFacts, SideFacts
  <1>5. /\ new \in [Lanes(Acceptor) -> Conns \cup {None}] /\ new[l] = k
        /\ \A j \in Lanes(Acceptor) : j # l => new[j] = fds[j]
    BY <1>a, <1>3 DEF TypeOK
  <1>6. pc'[Acceptor] = place /\ pc'[Connector] = pc[Connector] /\ place \in {"up", "accept"}
    BY <1>1, <1>c, SideFacts DEF TypeOK
  <1>7. down' \in [Sides -> SUBSET Conns] /\ down'[Connector] = down[Connector] /\ (~all => down' = down)
    BY <1>1, SideFacts DEF TypeOK
  <1>8. TypeOK'
    <2>1. backlog' \in Seq(Conns)
      <3>1. <<>> \in Seq(Conns) /\ backlog \in Seq(Conns)
        BY DEF TypeOK
      <3> QED BY <1>1, <3>1
    <2>2. current' \in (Conns \cup {None}) \X (Conns \cup {None})
      BY <1>1 DEF Nothing
    <2>3. place \in Places /\ Acceptor \in Sides
      BY <1>6, SideFacts DEF Places
    <2>4. fds' \in [Lanes(Acceptor) -> Conns \cup {None}] /\ listening' \in BOOLEAN
      BY <1>1, <1>5, <1>b
    <2>5. made' \in 0..lanes[Connector]
      BY <1>2 DEF TypeOK
    <2> QED BY <1>1, <1>2, <1>7, <2>1, <2>2, <2>3, <2>4, <2>5, TypeSetup
  <1>9. Lanes(Acceptor)' = Lanes(Acceptor) /\ Made' = Made /\ SettingUp
    BY <1>2 DEF Lanes, Made, SettingUp
  <1>10. \A j : Stored(j)' <=> Stored(j) \/ (j = k /\ k = l)
    <2>1. \A j : Stored(j)' <=> j \in Lanes(Acceptor) /\ new[j] = j
      BY <1>1, <1>9 DEF Stored
    <2>2. \A j : Stored(j) <=> j \in Lanes(Acceptor) /\ fds[j] = j
      BY DEF Stored
    <2>3. ~Stored(l) /\ (Stored(l)' <=> k = l)
      BY <1>4, <1>5, <2>1, <2>2
    <2>4. \A j : j # l => (Stored(j)' <=> Stored(j))
      BY <1>5, <2>1, <2>2
    <2> QED BY <2>3, <2>4
  <1>11. \A j : (Queued(j)' => Queued(j)) /\ (~all => (Queued(j)' <=> Queued(j)))
    BY <1>1 DEF Queued
  <1>12. SettingUp' <=> ~all
    BY <1>6, <1>c DEF SettingUp
  <1>13. current'[1] = None /\ current' = Nothing /\ Nothing' = Nothing
    BY <1>1 DEF Nothing
  <1>14. \A j \in Lanes(Acceptor) : new[j] \in {None, j, Foreign}
    BY <1>5 DEF Flow, Accepting
  <1>15. Accepting'
    <2>1. /\ pc'[Acceptor] # "connect" /\ (listening' <=> SettingUp') /\ (~listening' => backlog' = <<>>)
          /\ pc'[Acceptor] \notin {"id", "meta"}
      BY <1>1, <1>6, <1>12
    <2>2. \A i, j \in DOMAIN backlog' : backlog'[i] = backlog'[j] => i = j
      <3>1. CASE all
        BY <1>1, <3>1
      <3>2. CASE ~all
        BY <1>1, <3>2 DEF Flow, Accepting
      <3> QED BY <3>1, <3>2
    <2>3. ASSUME NEW j \in Lanes(Acceptor), new[j] # None PROVE ~Queued(fds[j])'
      <3>1. PICK c : c = new[j]
        OBVIOUS
      <3>2. ~Queued(c)
        <4>1. CASE j = l
          BY <1>3, <1>5, <3>1, <4>1
        <4>2. CASE j # l
          BY <1>5, <2>3, <3>1, <4>2 DEF Flow, Accepting
        <4> QED BY <4>1, <4>2
      <3>3. ~Queued(c)'
        BY <1>11, <3>2
      <3>4. fds'[j] = c
        BY <1>1, <3>1
      <3> QED BY <3>3, <3>4 DEF Queued
    <2>4. pc'[Acceptor] \in {"up", "io", "done"} => \A j \in Lanes(Acceptor) : new[j] # None
      BY <1>6, <1>b, <1>c
    <2>5. SettingUp' => \E j \in Lanes(Acceptor) : new[j] = None
      BY <1>12, <1>b
    <2>6. \A j \in LaneIds : Queued(j)' \/ current'[1] = j \/ Stored(j)' => j \in Made
      BY <1>3, <1>10, <1>11, <1>13, ConnFacts DEF Flow, Accepting
    <2>7. (Queued(Foreign)' \/ current'[1] = Foreign
             \/ (\E j \in Lanes(Acceptor) : new[j] = Foreign)) => strays > 0
      BY <1>3, <1>5, <1>11, <1>13, ConnFacts DEF Flow, Accepting
    <2>8. SettingUp' => \A j \in Made : Queued(j)' \/ current'[1] = j \/ Stored(j)'
      <3>1. \A j \in Made : j # Foreign
        BY MadeFacts
      <3>2. \A j \in Made : Queued(j) \/ current[1] = j \/ Stored(j)
        BY <1>9 DEF Flow, Accepting
      <3> QED BY <1>10, <1>11, <1>12, <3>1, <3>2
    <2>9. \A j \in Lanes(Acceptor) : new[j] # None => current'[1] # new[j]
      BY <1>13
    <2> QED BY <1>1, <1>2, <1>9, <1>13, <1>14, <2>1, <2>2, <2>3, <2>4, <2>5, <2>6, <2>7, <2>8, <2>9
      DEF Accepting
  <1>16. Connecting'
    BY <1>2, <1>6 DEF Flow, Connecting
  <1>17. Compared'
    <2>1. validate[Acceptor] => \A j \in Lanes(Acceptor) : new[j] = j =>
            validate[Connector] /\ Metadata(Acceptor) = Metadata(Connector)
      BY <1>5 DEF Flow, Compared
    <2>2. \A j : Passed(j)' <=> Passed(j)
      BY <1>2, <1>6 DEF Passed
    <2>3. \A s \in Sides : Metadata(s)' = Metadata(s)
      BY <1>2 DEF Metadata
    <2> QED BY <1>1, <1>2, <1>6, <1>9, <1>10, <2>1, <2>2, <2>3, SideFacts DEF Flow, Compared
  <1>18. Threads' /\ Read' /\ Closing'
    <2>1. \A t \in Sides : pc'[t] = pc[t] \/ (pc[t] \notin {"io", "done", "failed"}
                                                /\ pc'[t] \notin {"io", "done", "failed"})
      BY <1>6, SideFacts
    <2>2. listening' => listening /\ down' = down
      BY <1>1, <1>7, <1>9 DEF Flow, Accepting
    <2> QED BY <1>2, <1>7, <1>9, <1>10, <2>1, <2>2, SetupKeeps
  <1>19. \A s \in Sides : \A j : First(s, j)' = First(s, j) /\ Hello(s)' = Hello(s)
                                  /\ Metadata(s)' = Metadata(s)
    BY <1>2 DEF First, Hello, Metadata
  <1>20. \A s \in Sides : \A j, n, x : IsMessage(s, j, n, x)' <=> IsMessage(s, j, n, x)
    BY <1>19 DEF IsMessage
  <1>21. Reader' = Reader
    BY <1>2 DEF Reader
  <1>22. \A j : Greeted(Connector, j)' = Greeted(Connector, j)
    BY <1>2, <1>6 DEF Greeted, Passed
  <1>23. ASSUME NEW s \in Sides, NEW j \in Made, Reads(s, j)', j # k PROVE Aligned(s, j)'
    <2>1. j \in Conns /\ j # None
      BY MadeFacts, ConnFacts
    <2>2. Reads(s, j)
      <3>1. CASE s = Acceptor
        BY <1>10, <1>11, <1>13, <1>23, <2>1, <3>1 DEF Reads
      <3>2. CASE s = Connector
        BY <1>6, <1>23, <3>2, SideFacts DEF Reads
      <3> QED BY <3>1, <3>2, SideFacts
    <2>3. Aligned(s, j)
      BY <2>2 DEF Flow, Streams
    <2>4. Stored(j)' <=> Stored(j)
      BY <1>10, <1>23
    <2>5. Greeted(s, j)' = Greeted(s, j)
      <3>1. CASE s = Acceptor
        <4>1. ~Examined(j, "meta") /\ ~Examined(j, "meta")'
          BY <1>6, <1>23 DEF Examined
        <4> QED BY <1>2, <2>4, <3>1, <4>1, SideFacts DEF Greeted
      <3>2. CASE s = Connector
        BY <1>22, <3>2
      <3> QED BY <3>1, <3>2, SideFacts
    <2>6. wire'[Other(s)][j] = wire[Other(s)][j]
      BY <1>23, <2>1, SideFacts
    <2>7. UNCHANGED <<settings, pos>>
      BY <1>2
    <2> QED BY <2>3, <2>4, <2>5, <2>6, <2>7, AlignedSame
  <1>24. pos[Acceptor][l] - First(Acceptor, l) = 0
    <2>1. pos[Acceptor][l] = First(Acceptor, l) /\ First(Acceptor, l) \in Nat
      BY LaneFacts, SideFacts DEF Flow, Threads
    <2> QED BY <2>1
  <1>25. ASSUME k \in Made PROVE Aligned(Acceptor, k)'
    <2>1. k = l /\ k # Foreign
      BY <1>25, MadeFacts
    <2>2. Stored(k)'
      BY <1>10, <2>1
    <2>3. Greeted(Acceptor, k)' = IF validate[Acceptor] THEN 2 ELSE 1
      BY <1>2, <2>2, SideFacts DEF Greeted
    <2>4. Taken(Acceptor, k)' = Taken(Acceptor, k) + 1
      <3>1. pos'[Acceptor][k] - First(Acceptor, k)' = 0
        BY <1>2, <1>19, <1>24, <2>1, SideFacts
      <3>2. Taken(Acceptor, k)' = IF validate[Acceptor] THEN 2 ELSE 1
        BY <2>3, <3>1 DEF Taken
      <3>3. Taken(Acceptor, k) = IF validate[Acceptor] THEN 1 ELSE 0
        BY <1>3, <2>1
      <3> QED BY <3>2, <3>3
    <2>5. Given(Connector, k)' = Given(Connector, k)
      BY <1>2, <1>19, SideFacts DEF Given
    <2>6. Reads(Acceptor, k) /\ Acceptor \in Sides /\ Connector \in Sides /\ Other(Acceptor) = Connector
      BY SideFacts DEF Reads
    <2> QED BY <1>20, <1>25, <2>4, <2>5, <2>6, AlignedTail
  <1>26. ASSUME k \in Made, Reads(Connector, k)' PROVE Aligned(Connector, k)'
    <2>1. k = l /\ k # Foreign /\ k \in LaneIds
      BY <1>26, MadeFacts
    <2>2. Stored(k)' /\ ~Stored(k)
      BY <1>3, <1>10, <2>1
    <2>3. Reads(Connector, k)
      BY <1>6, <1>26, SideFacts DEF Reads
    <2>4. Aligned(Connector, k)
      BY <1>26, <2>3, SideFacts DEF Flow, Streams
    <2>5. wire[Acceptor][k] = <<>> /\ Given(Acceptor, k) = 0
      BY <2>1, <2>2 DEF Flow, Streams, Given
    <2>6. Taken(Connector, k) = 0
      <3>1. Given(Acceptor, k) = Taken(Connector, k) + Len(wire[Acceptor][k])
        BY <2>4, SideFacts DEF Aligned
      <3>2. Len(<<>>) = 0 /\ Taken(Connector, k) \in Nat
        BY <1>26, NumberFacts, SideFacts
      <3> QED BY <2>5, <3>1, <3>2
    <2>7. Taken(Connector, k)' = Taken(Connector, k)
      BY <1>2, <1>19, <1>21, <1>22, SideFacts DEF Taken
    <2>8. Given(Acceptor, k)' = IF validate[Acceptor] THEN 1 ELSE 0
      <3>1. pos'[Acceptor][k] - First(Acceptor, k)' = 0
        BY <1>2, <1>19, <1>24, <2>1, SideFacts
      <3>2. Hello(Acceptor)' = IF validate[Acceptor] THEN 1 ELSE 0
        <4>1. Hello(Acceptor)' = Hello(Acceptor) /\ Acceptor # Connector
          BY <1>19, SideFacts
        <4>2. Hello(Acceptor) = IF validate[Acceptor] THEN 1 ELSE 0
          BY <4>1 DEF Hello
        <4> QED BY <4>1, <4>2
      <3> QED BY <2>2, <3>1, <3>2 DEF Given
    <2>9. CASE validate[Acceptor]
      <3>1. PICK x : x = [kind |-> "meta", is |-> Metadata(Acceptor)]
        OBVIOUS
      <3>2. wire'[Acceptor][k] = <<x>>
        BY <2>5, <2>9, <3>1
      <3>3. Len(<<x>>) = 1 /\ \A j \in 1..1 : j = 1 /\ <<x>>[1] = x
        OBVIOUS
      <3>4. IsMessage(Acceptor, k, 0 + 1, x)
        <4>1. Hello(Acceptor) = 1
          BY <2>9, SideFacts DEF Hello
        <4> QED BY <3>1, <4>1, SideFacts DEF IsMessage
      <3>5. IsMessage(Acceptor, k, 0 + 1, x)'
        BY <1>20, <3>4, SideFacts
      <3>6. Given(Acceptor, k)' = 1 /\ Taken(Connector, k)' = 0 /\ Other(Connector) = Acceptor
        BY <2>6, <2>7, <2>8, <2>9, SideFacts
      <3>7. Given(Acceptor, k)' = Taken(Connector, k)' + Len(wire'[Acceptor][k])
        BY <3>2, <3>3, <3>6
      <3>8. \A j \in 1..Len(wire'[Acceptor][k]) :
              IsMessage(Acceptor, k, Taken(Connector, k) + j, wire[Acceptor][k][j])'
        <4> SUFFICES ASSUME NEW j \in 1..Len(wire'[Acceptor][k])
                     PROVE  IsMessage(Acceptor, k, Taken(Connector, k) + j, wire[Acceptor][k][j])'
          OBVIOUS
        <4>1. j = 1 /\ wire'[Acceptor][k][j] = x /\ Taken(Connector, k)' + j = 0 + 1
          BY <3>2, <3>3, <3>6
        <4> QED BY <3>5, <4>1
      <3> QED BY <3>6, <3>7, <3>8 DEF Aligned
    <2>10. CASE ~validate[Acceptor]
      <3>1. wire'[Acceptor][k] = <<>> /\ Len(<<>>) = 0 /\ \A j : ~(j \in 1..0)
        BY <2>5, <2>10
      <3>2. Given(Acceptor, k)' = 0 /\ Taken(Connector, k)' = 0 /\ Other(Connector) = Acceptor
        BY <2>6, <2>7, <2>8, <2>10, SideFacts
      <3> QED BY <3>1, <3>2 DEF Aligned
    <2> QED BY <2>9, <2>10
  <1>27. Streams'
    <2>1. \A s \in Sides : \A j \in Made : Reads(s, j)' => Aligned(s, j)'
      BY <1>23, <1>25, <1>26, SideFacts
    <2>2. ASSUME NEW j \in LaneIds
          PROVE  /\ ~Stored(j)' => wire'[Acceptor][j] = <<>>
                 /\ j \notin Made => wire'[Connector][j] = <<>>
      <3>1. j \in Conns /\ j # Foreign
        BY ConnFacts
      <3>2. CASE j # k
        BY <1>10, <3>1, <3>2, SideFacts DEF Flow, Streams
      <3>3. CASE j = k
        <4>1. j \in Made /\ Stored(j)'
          BY <1>3, <1>10, <3>1, <3>3
        <4> QED BY <4>1
      <3> QED BY <3>2, <3>3
    <2>3. (Queued(Foreign) \/ Examined(Foreign, "id"))' =>
            wire'[Connector][Foreign] # <<>> /\ Head(wire'[Connector][Foreign]).kind = "id"
      <3> SUFFICES ASSUME (Queued(Foreign) \/ Examined(Foreign, "id"))'
                   PROVE  wire'[Connector][Foreign] # <<>> /\ Head(wire'[Connector][Foreign]).kind = "id"
        OBVIOUS
      <3>1. Queued(Foreign)
        BY <1>6, <1>11 DEF Examined
      <3>2. Foreign # k
        BY <1>3, <3>1
      <3>3. wire'[Connector][Foreign] = wire[Connector][Foreign]
        BY <3>2, ConnFacts, SideFacts
      <3> QED BY <3>1, <3>3 DEF Flow, Streams
    <2>4. (\A j \in Lanes(Acceptor) : new[j] # Foreign) => wire'[Acceptor][Foreign] = <<>>
      <3> SUFFICES ASSUME \A j \in Lanes(Acceptor) : new[j] # Foreign
                   PROVE  wire'[Acceptor][Foreign] = <<>>
        OBVIOUS
      <3>1. k # Foreign
        BY <1>5
      <3>2. wire'[Acceptor][Foreign] = wire[Acceptor][Foreign]
        BY <3>1, ConnFacts, SideFacts
      <3>3. \A j \in Lanes(Acceptor) : fds[j] # Foreign
        BY <1>5, ConnFacts
      <3> QED BY <3>2, <3>3 DEF Flow, Streams
    <2> QED BY <1>1, <1>9, <2>1, <2>2, <2>3, <2>4 DEF Streams
  <1> QED BY <1>8, <1>15, <1>16, <1>17, <1>18, <1>27 DEF Flow

\* The acceptor reads a lane id.
LEMMA AcceptorIdStep ==
    ASSUME TypeOK, Flow, AcceptorId
    PROVE  TypeOK' /\ Flow'
  <1>a. PICK k : k = current[1]
    OBVIOUS
  <1>b. PICK l : l = Message(Acceptor, k).is
    OBVIOUS
  <1>1. pc[Acceptor] = "id" /\ Arrived(Acceptor, k) /\ wire' = Take(Acceptor, k)
    BY <1>a DEF AcceptorId
  <1>2. /\ k \in Conns /\ ~Queued(k) /\ (k = Foreign => strays > 0)
        /\ k # Foreign => k \in Made /\ ~Stored(k) /\ Aligned(Acceptor, k)
                          /\ Taken(Acceptor, k) = 0 /\ l = k
        /\ l \in LaneIds
    BY <1>1, <1>a, <1>b, ExaminedFacts
  <1>3. /\ WireTyped(wire') /\ SameElsewhere(wire, wire', Connector, k)
        /\ wire'[Connector][k] = Tail(wire[Connector][k])
    BY <1>1, <1>2, TakeFacts, SideFacts
  <1>4. \A t \in Sides : \A j \in Conns : j # k => wire'[t][j] = wire[t][j]
    BY <1>3 DEF SameElsewhere
  <1>5. \A j \in Conns : wire'[Acceptor][j] = wire[Acceptor][j]
    BY <1>3, SideFacts DEF SameElsewhere
  <1>6. validate[Acceptor] \in BOOLEAN
    BY SideFacts, LinkSettings DEF TypeOK
  <1>7. CASE ~(l \in Lanes(Acceptor) /\ fds[l] = None) /\ Throw(Acceptor)
    <2>1. ASSUME Matched, strays = 0 PROVE FALSE
      <3>1. k # Foreign
        BY <1>2, <2>1
      <3>2. l = k /\ l \in Made /\ ~Stored(l)
        BY <1>2, <3>1
      <3>3. l \in Lanes(Acceptor)
        BY <2>1, <3>2, MatchedFacts, MadeFacts
      <3>4. fds[l] = None
        BY <2>1, <3>2, <3>3, MatchedFacts
      <3> QED BY <1>7, <3>3, <3>4
    <2> QED BY <1>1, <1>2, <1>7, <2>1, ThrowStep, SideFacts
  <1>8. CASE /\ l \in Lanes(Acceptor) /\ fds[l] = None /\ ~validate[Acceptor]
             /\ Store(l) /\ UNCHANGED <<settings, made, io, bounds>>
    <2>1. k \in {l, Foreign}
      BY <1>2
    <2>2. pc[Acceptor] = "meta" <=> validate[Acceptor]
      BY <1>1, <1>8
    <2>3. pc[Acceptor] \in {"id", "meta"} /\ k = current[1]
      BY <1>1, <1>a
    <2> QED BY <1>1, <1>2, <1>3, <1>4, <1>5, <1>8, <2>1, <2>2, <2>3, StoreStep
  <1>9. CASE /\ l \in Lanes(Acceptor) /\ fds[l] = None /\ validate[Acceptor]
             /\ pc' = [pc EXCEPT ![Acceptor] = "meta"] /\ current' = <<k, l>>
             /\ UNCHANGED <<settings, listening, backlog, made, fds, down, io, bounds>>
    <2>1. /\ lanes' = lanes /\ count' = count /\ param' = param /\ validate' = validate
          /\ writer' = writer /\ listening' = listening /\ backlog' = backlog /\ made' = made
          /\ fds' = fds /\ down' = down /\ strays' = strays
          /\ UNCHANGED <<settings, io, bounds>> /\ pos' = pos
      BY <1>9 DEF settings, io, bounds
    <2>2. pc'[Acceptor] = "meta" /\ pc'[Connector] = pc[Connector]
      BY <1>9, SideFacts DEF TypeOK
    <2>3. current'[1] = k /\ current'[2] = l /\ l \in Conns /\ k # None
      BY <1>2, <1>9, ConnFacts
    <2>4. TypeOK'
      <3>1. /\ listening' \in BOOLEAN /\ backlog' \in Seq(Conns) /\ made' \in 0..lanes[Connector]
            /\ fds' \in [Lanes(Acceptor) -> Conns \cup {None}] /\ down' \in [Sides -> SUBSET Conns]
        BY <2>1 DEF TypeOK
      <3>2. current' \in (Conns \cup {None}) \X (Conns \cup {None})
        BY <1>2, <1>9, <2>3
      <3>3. "meta" \in Places /\ Acceptor \in Sides
        BY SideFacts DEF Places
      <3> QED BY <1>3, <1>9, <2>1, <3>1, <3>2, <3>3, TypeSetup
    <2>5. /\ \A j : Stored(j)' <=> Stored(j)
          /\ \A j : Queued(j)' <=> Queued(j)
          /\ Lanes(Acceptor)' = Lanes(Acceptor) /\ Made' = Made /\ SettingUp /\ SettingUp'
      BY <1>1, <2>1, <2>2 DEF Stored, Lanes, Queued, Made, SettingUp
    <2>6. Accepting'
      <3>1. ~Queued(current[1])'
        BY <1>2, <2>3, <2>5 DEF Queued
      <3>2. ASSUME NEW j \in Lanes(Acceptor), fds[j] # None PROVE ~Queued(fds[j])'
        <4>1. ~Queued(fds[j])
          BY <3>2 DEF Flow, Accepting
        <4> QED BY <2>1, <4>1 DEF Queued
      <3>3. k \in {l, Foreign} /\ listening /\ listening'
        BY <1>2, <2>1, <2>5 DEF Flow, Accepting
      <3>4. /\ \A i, j \in DOMAIN backlog : backlog[i] = backlog[j] => i = j
            /\ \A j \in Lanes(Acceptor) : fds[j] \in {None, j, Foreign}
                 /\ (fds[j] # None => k # fds[j])
            /\ \E j \in Lanes(Acceptor) : fds[j] = None
            /\ \A j \in LaneIds : Queued(j) \/ k = j \/ Stored(j) => j \in Made
            /\ Queued(Foreign) \/ k = Foreign
                 \/ (\E j \in Lanes(Acceptor) : fds[j] = Foreign) => strays > 0
            /\ \A j \in Made : Queued(j) \/ k = j \/ Stored(j)
        BY <1>a, <2>5 DEF Flow, Accepting
      <3> QED BY <1>9, <2>1, <2>2, <2>3, <2>5, <3>1, <3>2, <3>3, <3>4 DEF Accepting
    <2>7. Connecting'
      BY <2>1, <2>2 DEF Flow, Connecting
    <2>8. Compared'
      BY <2>1, <2>2, <2>5 DEF Flow, Compared, Passed, Metadata
    <2>9. Threads' /\ Read' /\ Closing'
      <3>1. \A t \in Sides : pc'[t] = pc[t] \/ (pc[t] \notin {"io", "done", "failed"}
                                                  /\ pc'[t] \notin {"io", "done", "failed"})
        BY <1>1, <2>2, SideFacts
      <3> QED BY <2>1, <2>5, <3>1, SetupKeeps
    <2>10. ASSUME NEW s \in Sides, NEW j \in Made, Reads(s, j)' PROVE Aligned(s, j)'
      <3>1. j \in Conns /\ j # Foreign
        BY MadeFacts, ConnFacts
      <3>2. Reads(s, j)
        <4>1. CASE s = Acceptor
          BY <1>1, <1>a, <2>3, <2>5, <2>10, <4>1 DEF Reads
        <4>2. CASE s = Connector
          BY <2>2, <2>10, <4>2, SideFacts DEF Reads
        <4> QED BY <4>1, <4>2, SideFacts
      <3>3. Aligned(s, j)
        BY <3>2 DEF Flow, Streams
      <3>4. CASE s = Acceptor /\ j = k
        <4>1. ~Stored(k) /\ Taken(Acceptor, k) = 0
          BY <1>2, <3>1, <3>4
        <4>2. Examined(k, "meta")'
          BY <2>2, <2>3 DEF Examined
        <4>3. Greeted(Acceptor, k)' = 1
          BY <2>5, <4>1, <4>2, SideFacts DEF Greeted
        <4>4. Taken(Acceptor, k)' = Taken(Acceptor, k) + 1
          BY <2>5, <4>1, <4>3 DEF Taken
        <4>5. \A t \in Sides : First(t, k)' = First(t, k) /\ Hello(t)' = Hello(t) /\ Metadata(t)' = Metadata(t)
          BY <2>1 DEF First, Hello, Metadata
        <4>6. Given(Connector, k)' = Given(Connector, k)
          BY <2>1, <4>5, SideFacts DEF Given
        <4>7. \A n, x : IsMessage(Connector, k, n, x)' <=> IsMessage(Connector, k, n, x)
          BY <4>5, SideFacts DEF IsMessage
        <4>8. Other(Acceptor) = Connector /\ Acceptor \in Sides
          BY SideFacts
        <4>9. Aligned(Acceptor, k)'
          BY <1>1, <1>3, <2>10, <3>2, <3>4, <4>4, <4>6, <4>7, <4>8, AlignedTail
        <4> QED BY <3>4, <4>9
      <3>5. CASE s # Acceptor \/ j # k
        <4>1. Greeted(s, j)' = Greeted(s, j)
          <5>1. CASE s = Acceptor
            <6>1. ~Examined(j, "meta") /\ ~Examined(j, "meta")'
              BY <1>1, <2>3, <3>5, <5>1 DEF Examined
            <6> QED BY <2>1, <2>5, <5>1, <6>1, SideFacts DEF Greeted
          <5>2. CASE s = Connector
            BY <2>1, <2>2, <5>2 DEF Greeted, Passed
          <5> QED BY <5>1, <5>2, SideFacts
        <4>2. wire'[Other(s)][j] = wire[Other(s)][j]
          BY <1>4, <1>5, <3>1, <3>5, SideFacts
        <4>3. UNCHANGED <<settings, pos>>
          BY <2>1
        <4> QED BY <2>5, <3>3, <4>1, <4>2, <4>3, AlignedSame
      <3> QED BY <3>4, <3>5
    <2>11. Streams'
      <3>1. ASSUME NEW j \in LaneIds
            PROVE  /\ ~Stored(j) => wire'[Acceptor][j] = <<>>
                   /\ j \notin Made => wire'[Connector][j] = <<>>
        <4>1. j \in Conns /\ j # Foreign /\ (j = k => j \in Made)
          BY <1>2, ConnFacts
        <4> QED BY <1>4, <1>5, <4>1, SideFacts DEF Flow, Streams
      <3>2. (Queued(Foreign) \/ Examined(Foreign, "id"))' =>
              wire'[Connector][Foreign] # <<>> /\ Head(wire'[Connector][Foreign]).kind = "id"
        <4> SUFFICES ASSUME (Queued(Foreign) \/ Examined(Foreign, "id"))'
                     PROVE  wire'[Connector][Foreign] # <<>> /\ Head(wire'[Connector][Foreign]).kind = "id"
          OBVIOUS
        <4>1. Queued(Foreign)
          BY <2>2, <2>5 DEF Examined
        <4>2. Foreign # k
          BY <1>2, <4>1
        <4>3. wire'[Connector][Foreign] = wire[Connector][Foreign]
          BY <1>4, <4>2, ConnFacts, SideFacts
        <4> QED BY <4>1, <4>3 DEF Flow, Streams
      <3>3. wire'[Acceptor][Foreign] = wire[Acceptor][Foreign]
        BY <1>5, ConnFacts
      <3> QED BY <2>1, <2>5, <2>10, <3>1, <3>2, <3>3 DEF Flow, Streams
    <2> QED BY <2>4, <2>6, <2>7, <2>8, <2>9, <2>11 DEF Flow
  <1> QED BY <1>7, <1>8, <1>9, <1>a, <1>b DEF AcceptorId

\* The acceptor reads metadata and answers it.
LEMMA AcceptorMetaStep ==
    ASSUME TypeOK, Flow, AcceptorMeta
    PROVE  TypeOK' /\ Flow'
  <1>a. PICK k : k = current[1]
    OBVIOUS
  <1>b. PICK l : l = current[2]
    OBVIOUS
  <1>1. pc[Acceptor] = "meta" /\ Arrived(Acceptor, k)
    BY <1>a DEF AcceptorMeta
  <1>2. /\ k \in Conns /\ (k = Foreign => strays > 0)
        /\ k # Foreign => k \in Made /\ ~Stored(k) /\ Aligned(Acceptor, k) /\ Taken(Acceptor, k) = 1
    BY <1>1, <1>a, ExaminedFacts
  <1>3. validate[Acceptor] /\ l \in Lanes(Acceptor) /\ fds[l] = None /\ k \in {l, Foreign}
    BY <1>1, <1>a, <1>b DEF Flow, Accepting
  <1>4. CASE /\ ~MetadataOk(Acceptor, Message(Acceptor, k))
             /\ wire' = Take(Acceptor, k) /\ Throw(Acceptor)
    <2>1. ASSUME Matched, strays = 0 PROVE FALSE
      <3>1. validate[Connector] /\ k # Foreign
        BY <1>2, <1>3, <2>1 DEF Matched
      <3>2. Message(Acceptor, k) = [kind |-> "meta", is |-> Metadata(Connector)]
        BY <1>1, <1>2, <1>a, <3>1, AcceptorMetaFacts
      <3>3. Metadata(Acceptor) = Metadata(Connector)
        BY <2>1 DEF Matched
      <3> QED BY <1>4, <3>2, <3>3 DEF MetadataOk
    <2> QED BY <1>1, <1>2, <1>4, <2>1, ThrowStep, SideFacts
  <1>5. CASE /\ MetadataOk(Acceptor, Message(Acceptor, k))
             /\ wire' = [Take(Acceptor, k) EXCEPT ![Acceptor][k] =
                           Append(@, [kind |-> "meta", is |-> Metadata(Acceptor)])]
             /\ Store(l) /\ UNCHANGED <<settings, made, io, bounds>>
    <2>1. Message(Acceptor, k).kind = "meta" /\ Message(Acceptor, k).is = Metadata(Acceptor)
      BY <1>5 DEF MetadataOk
    <2>2. ASSUME k = l PROVE validate[Connector] /\ Metadata(Acceptor) = Metadata(Connector)
      <3>1. k \in Made /\ ~Stored(k) /\ Aligned(Acceptor, k) /\ Taken(Acceptor, k) = 1
        BY <1>2, <1>3, <2>2, LaneFacts, ConnFacts, SideFacts
      <3>2. validate[Connector]
        <4>1. IsMessage(Connector, k, 1 + 1, Message(Acceptor, k))
          BY <1>1, <3>1, HeadFacts, SideFacts
        <4>2. ~validate[Connector] => Hello(Connector) = 1
          BY DEF Hello
        <4>3. ~validate[Connector] => Message(Acceptor, k).kind = "ct"
          BY <4>1, <4>2 DEF IsMessage
        <4> QED BY <2>1, <4>3
      <3>3. Message(Acceptor, k) = [kind |-> "meta", is |-> Metadata(Connector)]
        BY <1>1, <1>a, <3>1, <3>2, AcceptorMetaFacts
      <3> QED BY <2>1, <3>2, <3>3
    <2>3. wire[Acceptor][k] = <<>>
      <3>1. CASE k = Foreign
        <4>1. \A j \in Lanes(Acceptor) : fds[j] # Foreign
          BY <1>a, <3>1, ConnFacts DEF Flow, Accepting
        <4> QED BY <3>1, <4>1 DEF Flow, Streams
      <3>2. CASE k # Foreign
        BY <1>2, <3>2, MadeFacts DEF Flow, Streams
      <3> QED BY <3>1, <3>2
    <2>6. PICK u, x : u = Take(Acceptor, k) /\ x = [kind |-> "meta", is |-> Metadata(Acceptor)]
      OBVIOUS
    <2>7. /\ WireTyped(u) /\ SameElsewhere(wire, u, Connector, k)
          /\ u[Connector][k] = Tail(wire[Connector][k])
      BY <1>1, <1>2, <2>6, TakeFacts, SideFacts
    <2>9. u[Acceptor][k] = wire[Acceptor][k]
      BY <1>2, <2>7, SideFacts DEF SameElsewhere
    <2>10. PICK v : v = Append(u[Acceptor][k], x)
      OBVIOUS
    <2>11. v \in Seq(Messages) /\ Len(v) <= Cap + 2
      <3>1. x \in Messages
        BY <2>6, MessageTypes, SideFacts
      <3>2. v = <<x>>
        BY <2>3, <2>9, <2>10
      <3>3. <<x>> \in Seq(Messages) /\ Len(<<x>>) = 1
        BY <3>1
      <3> QED BY <3>2, <3>3, LinkBounds
    <2>12. wire' = [u EXCEPT ![Acceptor][k] = v]
      BY <1>2, <1>5, <2>6, <2>7, <2>10, SideFacts DEF WireTyped
    <2>13. Put(u, [u EXCEPT ![Acceptor][k] = v], Acceptor, k, v)
      BY <1>2, <2>7, <2>11, PutFacts, SideFacts
    <2>14. WireTyped(wire') /\ wire'[Acceptor][k] = v /\ SameElsewhere(u, wire', Acceptor, k)
      BY <2>12, <2>13 DEF Put
    <2>15. wire'[Connector][k] = Tail(wire[Connector][k])
      BY <1>2, <2>7, <2>14, SideFacts DEF SameElsewhere
    <2>16. \A t \in Sides : \A j \in Conns : j # k => wire'[t][j] = wire[t][j]
      BY <2>7, <2>14 DEF SameElsewhere
    <2>17. wire'[Acceptor][k] = Append(wire[Acceptor][k], [kind |-> "meta", is |-> Metadata(Acceptor)])
      BY <2>6, <2>9, <2>10, <2>14
    <2>18. pc[Acceptor] \in {"id", "meta"} /\ (pc[Acceptor] = "meta" <=> validate[Acceptor])
      BY <1>1, <1>3
    <2>19. /\ validate[Acceptor] /\ k = l =>
                validate[Connector] /\ Metadata(Acceptor) = Metadata(Connector)
           /\ ~validate[Acceptor] => wire'[Acceptor][k] = wire[Acceptor][k]
      BY <1>3, <2>2
    <2>20. l \in Lanes(Acceptor) /\ fds[l] = None /\ k \in {l, Foreign} /\ k = current[1]
      BY <1>3, <1>a
    <2>21. Store(l) /\ UNCHANGED <<settings, made, io, bounds>> /\ WireTyped(wire')
      BY <1>5, <2>14
    <2> QED BY <1>1, <2>15, <2>16, <2>17, <2>18, <2>19, <2>20, <2>21, StoreStep
  <1> QED BY <1>4, <1>5, <1>a, <1>b DEF AcceptorMeta

-----------------------------------------------------------------------------
(***************************************************************************)
(* Lanes of different numbers.                                             *)
(***************************************************************************)
\* Lanes begin in order.
LEMMA LanesInOrder ==
    ASSUME NEW n \in Nat, NEW m \in Nat \ {0}, NEW a \in Nat, NEW b \in Nat, a <= b
    PROVE  RfLaneBegin(n, m, a) <= RfLaneBegin(n, m, b)
  <1>1. PICK x, y : x = RfLaneBegin(n, m, a) /\ y = RfLaneBegin(n, m, b)
    OBVIOUS
  <1>2. x \in Nat /\ y \in Nat /\ x * m <= n * a /\ n * b < (y + 1) * m
    BY <1>1, LaneBeginIsFloor
  <1>3. n * a <= n * b /\ n * a \in Nat /\ n * b \in Nat
    <2>1. b - a \in Nat /\ b = a + (b - a)
      OBVIOUS
    <2>2. n * b = n * a + n * (b - a) /\ n * (b - a) \in Nat /\ n * a \in Nat
      BY <2>1
    <2> QED BY <2>2
  <1>4. x * m < (y + 1) * m
    BY <1>2, <1>3
  <1>5. x < y + 1
    BY <1>2, <1>4
  <1> QED BY <1>1, <1>2, <1>5

\* With fewer lanes some lane is longer than the lane of the same number: were
\* none, the n indexes would fit into the first r of the w lanes.
LEMMA FewerLanes ==
    ASSUME NEW n \in Nat \ {0}, NEW r \in Nat \ {0}, NEW w \in Nat \ {0}, r < w
    PROVE  \E l \in 0..(r - 1) : RfLaneEnd(n, w, l) - RfLaneBegin(n, w, l)
                                   < RfLaneEnd(n, r, l) - RfLaneBegin(n, r, l)
  <1> SUFFICES ASSUME \A l \in 0..(r - 1) : ~(RfLaneEnd(n, w, l) - RfLaneBegin(n, w, l)
                                                < RfLaneEnd(n, r, l) - RfLaneBegin(n, r, l))
               PROVE  FALSE
    OBVIOUS
  <1> DEFINE L(i) == LaneOf(n, r, i)
             F(i) == RfLaneBegin(n, w, L(i)) + (i - RfLaneBegin(n, r, L(i)))
             S == 0..(n - 1)
             e == RfLaneBegin(n, w, r)
             T == 0..(e - 1)
             f == [i \in S |-> F(i)]
  <1>1. e \in Nat /\ e < n
    <2>1. e \in Nat /\ e * w <= n * r
      BY LaneBeginIsFloor
    <2> HIDE DEF e
    <2>2. n * r < n * w /\ n * r \in Nat
      <3>1. w - r \in Nat \ {0} /\ w = r + (w - r)
        OBVIOUS
      <3>2. n * w = n * r + n * (w - r) /\ n * (w - r) > 0 /\ n * r \in Nat
        BY <3>1
      <3> QED BY <3>2
    <2>3. e * w < n * w
      BY <2>1, <2>2
    <2> QED BY <2>1, <2>3
  <1>2. ASSUME NEW i \in S
        PROVE  /\ L(i) \in 0..(r - 1) /\ F(i) \in Nat
               /\ RfLaneBegin(n, w, L(i)) \in Nat /\ RfLaneBegin(n, r, L(i)) \in Nat
               /\ RfLaneBegin(n, w, L(i)) <= F(i) /\ F(i) < RfLaneBegin(n, w, L(i) + 1)
    <2>1. PICK l : l = L(i)
      OBVIOUS
    <2>2. l \in 0..(r - 1)
      <3>1. 0 \in 0..(r - 1)
        OBVIOUS
      <3> QED BY <1>2, <2>1, <3>1, LanesPartition
    <2>3. RfLaneBegin(n, r, l) <= i /\ i < RfLaneEnd(n, r, l)
      BY <1>2, <2>1, <2>2, LanesPartition
    <2>4. PICK a, b, c, d : /\ a = RfLaneBegin(n, r, l) /\ b = RfLaneEnd(n, r, l)
                            /\ c = RfLaneBegin(n, w, l) /\ d = RfLaneEnd(n, w, l)
      OBVIOUS
    <2>5. l \in 0..(w - 1) /\ l \in Nat
      BY <2>2
    <2>6. a \in Nat /\ b \in Nat /\ c \in Nat /\ d \in Nat /\ i \in Nat
      BY <1>2, <2>2, <2>4, <2>5, LaneBounds
    <2>7. ~(d - c < b - a)
      BY <2>2, <2>4
    <2>8. d = RfLaneBegin(n, w, l + 1)
      BY <2>4, <2>5, LanesTouch
    <2>9. F(i) = c + (i - a)
      BY <2>1, <2>4
    <2> HIDE DEF F, L
    <2>10. F(i) \in Nat /\ c <= F(i) /\ F(i) < d
      BY <2>3, <2>4, <2>6, <2>7, <2>9
    <2> QED BY <2>1, <2>2, <2>4, <2>6, <2>8, <2>10
  <1>3. f \in [S -> T]
    <2> SUFFICES ASSUME NEW i \in S PROVE F(i) \in T
      OBVIOUS
    <2>1. /\ L(i) \in 0..(r - 1) /\ F(i) \in Nat /\ F(i) < RfLaneBegin(n, w, L(i) + 1)
      BY <1>2
    <2> HIDE DEF F, L
    <2>2. L(i) + 1 \in Nat /\ L(i) + 1 <= r
      BY <2>1
    <2>3. RfLaneBegin(n, w, L(i) + 1) <= e /\ RfLaneBegin(n, w, L(i) + 1) \in Nat
      BY <2>2, LanesInOrder, LaneBeginIsFloor
    <2> HIDE DEF e
    <2> QED BY <1>1, <2>1, <2>3
  <1>4. IsFiniteSet(S) /\ IsFiniteSet(T) /\ Cardinality(T) < Cardinality(S)
    <2> HIDE DEF e
    <2>1. IsFiniteSet(0..(n - 1)) /\ Cardinality(0..(n - 1)) = n
      <3>1. 0 \in Int /\ n - 1 \in Int
        OBVIOUS
      <3> QED BY <3>1, FS_Interval
    <2>2. IsFiniteSet(0..(e - 1)) /\ Cardinality(0..(e - 1)) = e
      <3>1. 0 \in Int /\ e - 1 \in Int
        BY <1>1
      <3> QED BY <1>1, <3>1, FS_Interval
    <2> QED BY <1>1, <2>1, <2>2
  <1>5. \E x, y \in S : x # y /\ f[x] = f[y]
    <2> HIDE DEF f, S, T
    <2> QED BY <1>3, <1>4, FS_PigeonHole
  <1>6. PICK x \in S, y \in S : x # y /\ F(x) = F(y)
    BY <1>5
  <1>7. ASSUME NEW i \in S, NEW j \in S, L(i) < L(j) PROVE F(i) # F(j)
    <2>1. /\ L(i) \in 0..(r - 1) /\ F(i) \in Nat /\ F(i) < RfLaneBegin(n, w, L(i) + 1)
      BY <1>2
    <2>2. /\ L(j) \in 0..(r - 1) /\ F(j) \in Nat /\ RfLaneBegin(n, w, L(j)) <= F(j)
          /\ RfLaneBegin(n, w, L(j)) \in Nat
      BY <1>2
    <2> HIDE DEF F, L
    <2>3. L(i) + 1 \in Nat /\ L(i) + 1 <= L(j) /\ L(j) \in Nat
      BY <1>7, <2>1, <2>2
    <2>4. RfLaneBegin(n, w, L(i) + 1) <= RfLaneBegin(n, w, L(j)) /\ RfLaneBegin(n, w, L(i) + 1) \in Nat
      BY <2>3, LanesInOrder, LaneBeginIsFloor
    <2> QED BY <2>1, <2>2, <2>4
  <1>8. L(x) \in 0..(r - 1) /\ L(y) \in 0..(r - 1)
    BY <1>2
  <1>9. L(x) = L(y)
    <2> HIDE DEF F, L
    <2> QED BY <1>6, <1>7, <1>8
  <1>10. PICK a, b : a = RfLaneBegin(n, w, L(x)) /\ b = RfLaneBegin(n, r, L(x))
    OBVIOUS
  <1>11. a \in Nat /\ b \in Nat
    BY <1>2, <1>10
  <1>12. F(x) = a + (x - b) /\ F(y) = a + (y - b)
    BY <1>9, <1>10
  <1> HIDE DEF F, L
  <1>13. x \in Nat /\ y \in Nat
    OBVIOUS
  <1>14. a + (x - b) = a + (y - b)
    BY <1>6, <1>12
  <1>15. x = y
    BY <1>11, <1>13, <1>14
  <1> QED BY <1>6, <1>15

-----------------------------------------------------------------------------
(***************************************************************************)
(* The invariant and what it implies.                                      *)
(***************************************************************************)
LEMMA InitTypes ==
    ASSUME Init
    PROVE  TypeOK
  <1>1. /\ lanes \in [Sides -> LaneCounts] /\ count \in [Sides -> Counts]
        /\ param \in [Sides -> Params] /\ validate \in [Sides -> Validations]
        /\ writer \in Sides
    BY DEF Init
  <1>2. pc \in [Sides -> Places] /\ listening \in BOOLEAN /\ down \in [Sides -> SUBSET Conns]
        /\ failure \in [Sides -> BOOLEAN]
    BY DEF Init, Places
  <1>3. backlog \in Seq(Conns)
    BY DEF Init
  <1>4. current \in (Conns \cup {None}) \X (Conns \cup {None})
    BY DEF Init, Nothing
  <1>5. fds \in [Lanes(Acceptor) -> Conns \cup {None}]
    BY DEF Init
  <1>6. \A s \in Sides : lanes[s] \in Nat \ {0} /\ count[s] \in Nat \ {0}
    <2>1. \A s \in Sides : lanes[s] \in 1..MaxLanes /\ count[s] \in Nat \ {0}
      BY <1>1, LinkSettings
    <2> QED BY <2>1 DEF MaxLanes
  <1>7. made \in 0..lanes[Connector]
    BY <1>6, SideFacts DEF Init
  <1>8. WireTyped(wire)
    <2>1. wire = [s \in Sides |-> [k \in Conns |-> <<>>]]
      BY DEF Init
    <2>2. <<>> \in Seq(Messages) /\ Len(<<>>) <= Cap + 2
      BY LinkBounds
    <2>3. wire \in [Sides -> [Conns -> Seq(Messages)]]
      BY <2>1, <2>2
    <2>4. \A s \in Sides : \A k \in Conns : wire[s][k] = <<>>
      BY <2>1
    <2> QED BY <2>2, <2>3, <2>4 DEF WireTyped
  <1>9. DOMAIN thread = Sides /\ DOMAIN pos = Sides
    BY DEF Init
  <1>10. \A s \in Sides : thread[s] \in [Lanes(s) -> {"none", "run", "end"}]
    BY DEF Init
  <1>11. ASSUME NEW s \in Sides PROVE pos[s] \in [Lanes(s) -> 0..count[s]]
    <2>1. pos[s] = [l \in Lanes(s) |-> RfLaneBegin(count[s], lanes[s], l)]
      BY DEF Init
    <2>2. ASSUME NEW l \in Lanes(s) PROVE RfLaneBegin(count[s], lanes[s], l) \in 0..count[s]
      <3>1. PICK n, m, b, e : /\ n = count[s] /\ m = lanes[s]
                              /\ b = RfLaneBegin(n, m, l) /\ e = RfLaneEnd(n, m, l)
        OBVIOUS
      <3>2. n \in Nat /\ m \in Nat \ {0} /\ l \in 0..(m - 1)
        BY <1>6, <3>1 DEF Lanes
      <3>3. b \in Nat /\ e \in Nat /\ b <= e /\ e <= n
        BY <3>1, <3>2, LaneBounds
      <3>4. b \in 0..n
        BY <3>2, <3>3
      <3> QED BY <3>1, <3>4
    <2> QED BY <2>1, <2>2
  <1>12. values \in [Items -> Items \cup {None, Foreign}]
    BY DEF Init
  <1>13. failures \in 0..MaxTroubles /\ strays \in {0, 1}
    BY LinkBounds DEF Init
  <1> QED BY <1>1, <1>2, <1>3, <1>4, <1>5, <1>7, <1>8, <1>9, <1>10, <1>11, <1>12, <1>13 DEF TypeOK

LEMMA InitFlow ==
    ASSUME Init
    PROVE  Flow
  <1>0. TypeOK
    BY InitTypes
  <1>1. /\ pc[Acceptor] = "accept" /\ pc[Connector] = "connect" /\ listening /\ backlog = <<>>
        /\ made = 0 /\ current = Nothing /\ current[1] = None /\ strays = 0
    BY SideFacts DEF Init, Nothing
  <1>2. \A l \in Lanes(Acceptor) : fds[l] = None
    BY DEF Init
  <1>3. Made = {}
    BY <1>1 DEF Made
  <1>4. \A k : ~Queued(k)
    BY <1>1 DEF Queued
  <1>5. \A k \in LaneIds : ~Stored(k) /\ k # None
    BY <1>2, ConnFacts DEF Stored
  <1>6. lanes[Acceptor] - 1 \in Lanes(Acceptor) /\ lanes[Connector] \in Nat \ {0}
    BY <1>0, LastLaneActive, LaneFacts, SideFacts
  <1>7. Accepting
    <2>1. DOMAIN backlog = {}
      BY <1>1
    <2> QED BY <1>1, <1>2, <1>3, <1>4, <1>5, <1>6, <2>1, ConnFacts DEF Accepting, SettingUp
  <1>8. Connecting
    BY <1>1, <1>6 DEF Connecting
  <1>9. Compared
    BY <1>2, <1>3, LaneFacts, ConnFacts, SideFacts, <1>0, <1>5 DEF Compared
  <1>10. \A s \in Sides : \A k \in Conns : wire[s][k] = <<>>
    BY DEF Init
  <1>11. Streams
    <2>1. wire[Connector][Foreign] = <<>> /\ wire[Acceptor][Foreign] = <<>>
      BY <1>10, ConnFacts, SideFacts
    <2>2. ~(Queued(Foreign) \/ Examined(Foreign, "id"))
      BY <1>1, <1>4 DEF Examined
    <2>3. \A k \in LaneIds : wire[Acceptor][k] = <<>> /\ wire[Connector][k] = <<>>
      BY <1>10, ConnFacts, SideFacts
    <2> QED BY <1>3, <2>1, <2>2, <2>3 DEF Streams
  <1>12. \A s \in Sides : ~failure[s] /\ pc[s] \notin {"io", "done", "failed"}
    BY <1>1, SideFacts DEF Init
  <1>13. \A s \in Sides : \A l \in Lanes(s) : pos[s][l] = First(s, l)
    BY DEF Init, First
  <1>14. Threads
    <2>1. ASSUME NEW s \in Sides, NEW l \in Lanes(s)
          PROVE  First(s, l) <= pos[s][l] /\ pos[s][l] <= Last(s, l)
      BY <1>0, <1>13, LaneFacts
    <2> QED BY <1>12, <1>13, <2>1 DEF Threads
  <1>15. Read
    <2>1. Reader \in Sides
      BY <1>0, SideFacts DEF Reader, TypeOK
    <2>2. \A l \in Lanes(Reader) : ~(pos[Reader][l] > First(Reader, l))
      BY <1>0, <1>13, <2>1, LaneFacts
    <2> QED BY <2>2 DEF Read
  <1>16. Closing
    <2>1. down[Acceptor] = {}
      BY SideFacts DEF Init
    <2> QED BY <1>1, <1>12, <2>1 DEF Closing, Ended
  <1> QED BY <1>7, <1>8, <1>9, <1>11, <1>14, <1>15, <1>16 DEF Flow

LEMMA Stutter ==
    ASSUME TypeOK, Flow, UNCHANGED vars
    PROVE  TypeOK' /\ Flow'
  <1>1. /\ UNCHANGED <<settings, link, wire, pos, values>> /\ UNCHANGED <<settings, io>>
        /\ UNCHANGED <<settings, pc, link>> /\ UNCHANGED <<settings, link, strays>>
        /\ pc' = pc /\ down' = down /\ fds' = fds /\ made' = made /\ listening' = listening
        /\ strays' = strays
    BY DEF vars, io, bounds, link
  <1>2. TypeOK'
    BY DEF TypeOK, vars, settings, link, io, bounds, Lanes
  <1>3. Accepting' /\ Connecting' /\ Compared'
    BY <1>1, LinkSame DEF Flow
  <1>4. Streams' /\ Read'
    BY <1>1, StreamsSame DEF Flow
  <1>5. \A k : Stored(k)' <=> Stored(k)
    BY <1>1, SameSetup
  <1>6. Threads' /\ Read' /\ Closing'
    BY <1>1, <1>5, SetupKeeps
  <1> QED BY <1>2, <1>3, <1>4, <1>6 DEF Flow

LEMMA NextFlow ==
    ASSUME TypeOK, Flow, [Next]_vars
    PROVE  TypeOK' /\ Flow'
  <1>1. CASE Connect
    BY <1>1, ConnectStep
  <1>2. CASE ConnectFails
    BY <1>2, ConnectFailsStep
  <1>3. CASE ConnectorMeta
    BY <1>3, ConnectorMetaStep
  <1>4. CASE Accept
    BY <1>4, AcceptStep
  <1>5. CASE AcceptorId
    BY <1>5, AcceptorIdStep
  <1>6. CASE AcceptorMeta
    BY <1>6, AcceptorMetaStep
  <1>7. ASSUME NEW s \in Sides,
               SetupPeerGone(s) \/ StartIo(s) \/ StartIoFails(s) \/ Join(s) \/ Timeout(s)
        PROVE  TypeOK' /\ Flow'
    BY <1>7, SetupPeerGoneStep, StartIoStep, StartIoFailsStep, JoinStep, TimeoutStep
  <1>8. ASSUME NEW s \in Sides, NEW l \in Lanes(s), ThreadNext(s, l) \/ LaneBreaks(s, l)
        PROVE  TypeOK' /\ Flow'
    <2>1. CASE LaneWrite(s, l)
      BY <2>1, LaneWriteStep
    <2>2. CASE LaneRead(s, l)
      BY <2>2, LaneReadStep
    <2>3. CASE LaneEnds(s, l)
      BY <2>3, LaneEndsStep
    <2>4. CASE LaneFails(s, l) \/ LaneBreaks(s, l)
      BY <2>4, LaneFailsStep
    <2> QED BY <1>8, <2>1, <2>2, <2>3, <2>4 DEF ThreadNext
  <1>9. CASE Stray
    BY <1>9, StrayStep
  <1>10. CASE StraySends
    BY <1>10, StraySendsStep
  <1>11. CASE StrayReads
    BY <1>11, StrayReadsStep
  <1>12. CASE UNCHANGED vars
    BY <1>12, Stutter
  <1>13. CASE Progress
    BY <1>1, <1>2, <1>3, <1>4, <1>5, <1>6, <1>7, <1>8, <1>13 DEF Progress, SetupNext
  <1> QED BY <1>7, <1>8, <1>9, <1>10, <1>11, <1>12, <1>13 DEF Next, Finished

\* A lane of a reader that has read all of it: the lane of the writer is at
\* least as long.
LEMMA ReadAll ==
    ASSUME TypeOK, Flow, NEW r \in Sides, r = Reader, pc[r] = "done", NEW l \in Lanes(r),
           Conn(r, l) = l, ~validate[Acceptor], ~validate[Connector],
           First(r, l) < Last(r, l)
    PROVE  /\ l \in Lanes(writer)
           /\ Last(r, l) - First(r, l) <= Last(writer, l) - First(writer, l)
  <1>a. PICK w : w = writer
    OBVIOUS
  <1>1. w \in Sides /\ Other(r) = w /\ w # r
    BY <1>a, SideFacts DEF Reader, TypeOK
  <1>2. pos[r][l] = Last(r, l) /\ First(r, l) \in Nat /\ Last(r, l) \in Nat
    BY LaneFacts DEF Flow, Threads
  <1>3. l \in Lanes(w) /\ (r = Connector => Stored(l))
    BY <1>2, <1>a DEF Flow, Read
  <1>4. Stored(l)
    <2>1. CASE r = Acceptor
      BY <2>1 DEF Stored, Conn
    <2>2. CASE r = Connector
      BY <1>3, <2>2
    <2> QED BY <2>1, <2>2, SideFacts
  <1>5. l \in Made
    BY <1>4, LaneFacts DEF Flow, Accepting
  <1>6. Aligned(r, l)
    BY <1>4, <1>5 DEF Flow, Streams, Reads
  <1>7. /\ Given(w, l) = Taken(r, l) + Len(wire[w][l]) /\ wire[w][l] \in Seq(Messages)
    BY <1>1, <1>5, <1>6, HeadFacts
  <1>8. Given(w, l) = Hello(w) + (pos[w][l] - First(w, l))
    BY <1>1, <1>4, <1>a, SideFacts DEF Given
  <1>9. Taken(r, l) = Greeted(r, l) + (pos[r][l] - First(r, l))
    BY <1>4 DEF Taken
  <1>10. Greeted(r, l) = Hello(w) /\ Hello(w) \in Nat
    <2>1. CASE r = Acceptor
      <3>1. w = Connector
        BY <1>1, <2>1, SideFacts
      <3> QED BY <1>4, <2>1, <3>1, SideFacts DEF Greeted, Hello
    <2>2. CASE r = Connector
      <3>1. w = Acceptor
        BY <1>1, <2>2, SideFacts
      <3> QED BY <2>2, <3>1, SideFacts DEF Greeted, Hello
    <2> QED BY <2>1, <2>2, SideFacts
  <1>11. pos[w][l] \in Nat /\ First(w, l) \in Nat /\ Last(w, l) \in Nat /\ pos[w][l] <= Last(w, l)
    BY <1>1, <1>3, LaneFacts DEF Flow, Threads, TypeOK
  <1>12. PICK a, b, c, d, e, h, n :
            /\ a = First(r, l) /\ b = Last(r, l) /\ c = First(w, l) /\ d = Last(w, l)
            /\ e = pos[w][l] /\ h = Hello(w) /\ n = Len(wire[w][l])
    OBVIOUS
  <1>13. /\ a \in Nat /\ b \in Nat /\ c \in Nat /\ d \in Nat /\ e \in Nat /\ h \in Nat /\ n \in Nat
         /\ e <= d
    BY <1>2, <1>7, <1>10, <1>11, <1>12
  <1>14. h + (e - c) = (h + (b - a)) + n
    BY <1>2, <1>7, <1>8, <1>9, <1>10, <1>12
  <1>15. b - a <= d - c
    BY <1>13, <1>14
  <1> QED BY <1>3, <1>12, <1>15, <1>a

\* No lane of the reader has been given to another run.
LEMMA UntakenInPlace ==
    ASSUME TypeOK, Flow, pc[Reader] = "done",
           Reader = Acceptor => \A l \in Lanes(Acceptor) : fds[l] # Foreign,
           ~((\A s \in Sides : ~validate[s]) /\ count[Acceptor] # count[Connector])
    PROVE  /\ count[Acceptor] = count[Connector]
           /\ lanes[Acceptor] = lanes[Connector]
           /\ \A i \in 0..(count[Reader] - 1) : values[i] = i
  <1>a. PICK r, w : r = Reader /\ w = writer
    OBVIOUS
  <1>1. r \in Sides /\ w \in Sides /\ w # r /\ {r, w} = {Acceptor, Connector} /\ pc[r] = "done"
    BY <1>a, SideFacts DEF Reader, TypeOK
  <1>2. ASSUME NEW l \in Lanes(r)
        PROVE  /\ pos[r][l] = Last(r, l) /\ First(r, l) \in Nat /\ Last(r, l) \in Nat
               /\ Conn(r, l) = l
    <2>1. pos[r][l] = Last(r, l) /\ First(r, l) \in Nat /\ Last(r, l) \in Nat
      BY <1>1, LaneFacts DEF Flow, Threads
    <2>2. CASE r = Acceptor
      <3>1. fds[l] # None /\ fds[l] \in {None, l, Foreign}
        BY <1>1, <2>2 DEF Flow, Accepting
      <3> QED BY <1>a, <2>1, <2>2, <3>1 DEF Conn
    <2>3. CASE r # Acceptor
      BY <2>1, <2>3 DEF Conn
    <2> QED BY <2>2, <2>3
  <1>3. PICK k \in Lanes(r) : k = lanes[r] - 1 /\ First(r, k) < Last(r, k)
    BY <1>1, LastLaneActive
  <1>4. ASSUME NEW l \in Lanes(r), First(r, l) < Last(r, l)
        PROVE  /\ l \in Lanes(w) /\ validate[Acceptor] = validate[Connector]
               /\ r = Connector => Stored(l)
               /\ \A i \in First(r, l)..(Last(r, l) - 1) : values[i] = First(w, l) + (i - First(r, l))
    BY <1>2, <1>4, <1>a DEF Flow, Read
  <1>5. k \in Lanes(w) /\ validate[Acceptor] = validate[Connector]
    BY <1>3, <1>4
  <1>6. lanes[r] \in Nat \ {0} /\ lanes[w] \in Nat \ {0} /\ lanes[r] <= lanes[w]
        /\ count[r] \in Nat \ {0}
    <2>1. lanes[r] \in Nat \ {0} /\ lanes[w] \in Nat \ {0} /\ count[r] \in Nat \ {0}
      BY <1>1, LaneFacts
    <2>2. k < lanes[w]
      BY <1>1, <1>5, LaneFacts
    <2> QED BY <1>3, <2>1, <2>2
  <1>7. count[Acceptor] = count[Connector] /\ lanes[Acceptor] = lanes[Connector]
    <2>1. CASE validate[Acceptor]
      <3>1. Metadata(Acceptor) = Metadata(Connector)
        <4>1. CASE r = Acceptor
          BY <1>2, <1>3, <2>1, <4>1 DEF Flow, Compared, Conn
        <4>2. CASE r = Connector
          <5>1. validate[Connector] /\ pc[Connector] = "done" /\ made = lanes[Connector]
            BY <1>1, <1>5, <2>1, <4>2 DEF Flow, Connecting
          <5>2. k \in Made
            BY <1>3, <4>2, <5>1 DEF Made, Lanes
          <5>3. Passed(k)
            BY <5>1 DEF Passed
          <5> QED BY <5>1, <5>2, <5>3 DEF Flow, Compared
        <4> QED BY <1>1, <4>1, <4>2, SideFacts
      <3> QED BY <3>1 DEF Metadata
    <2>2. CASE ~validate[Acceptor]
      <3>1. validate[Acceptor] \in BOOLEAN /\ validate[Connector] \in BOOLEAN
        BY SideFacts, LinkSettings DEF TypeOK
      <3>2. ~validate[Connector]
        BY <1>5, <2>2, <3>1
      <3>3. count[Acceptor] = count[Connector]
        BY <2>2, <3>2, SideFacts
      <3>4. PICK n, m, u : n = count[r] /\ m = lanes[r] /\ u = lanes[w]
        OBVIOUS
      <3>5. count[w] = n /\ n \in Nat \ {0} /\ m \in Nat \ {0} /\ u \in Nat \ {0} /\ m <= u
        BY <1>1, <1>6, <3>3, <3>4, SideFacts
      <3>6. ASSUME m < u PROVE FALSE
        <4>1. PICK l \in 0..(m - 1) : RfLaneEnd(n, u, l) - RfLaneBegin(n, u, l)
                                        < RfLaneEnd(n, m, l) - RfLaneBegin(n, m, l)
          BY <3>5, <3>6, FewerLanes
        <4>2. l \in Lanes(r)
          BY <3>4, <4>1 DEF Lanes
        <4>3. PICK a, b, c, d : /\ a = First(r, l) /\ b = Last(r, l)
                                /\ c = First(w, l) /\ d = Last(w, l)
          OBVIOUS
        <4>4. d - c < b - a
          BY <3>4, <3>5, <4>1, <4>3 DEF First, Last
        <4>5. a \in Nat /\ b \in Nat
          BY <1>2, <4>2, <4>3
        <4>6. l \in Lanes(w)
          BY <3>4, <3>5, <4>1 DEF Lanes
        <4>7. c \in Nat /\ d \in Nat /\ c <= d
          BY <1>1, <4>3, <4>6, LaneFacts
        <4>8. a < b
          BY <4>4, <4>5, <4>7
        <4>9. b - a <= d - c
          BY <1>1, <1>2, <1>a, <2>2, <3>2, <4>2, <4>3, <4>8, ReadAll
        <4> QED BY <4>4, <4>5, <4>7, <4>9
      <3>7. m = u
        BY <3>5, <3>6
      <3> QED BY <1>1, <3>3, <3>4, <3>7, SideFacts
    <2> QED BY <2>1, <2>2
  <1>8. ASSUME NEW i \in 0..(count[r] - 1) PROVE values[i] = i
    <2>1. PICK l \in 0..(lanes[r] - 1) :
            RfLaneBegin(count[r], lanes[r], l) <= i /\ i < RfLaneEnd(count[r], lanes[r], l)
      BY <1>6, <1>8, SomeLane
    <2>2. l \in Lanes(r) /\ First(r, l) <= i /\ i < Last(r, l)
      BY <2>1 DEF Lanes, First, Last
    <2>3. First(r, l) \in Nat /\ Last(r, l) \in Nat /\ i \in Nat
      BY <1>2, <1>6, <1>8, <2>2
    <2>4. First(r, l) < Last(r, l) /\ i \in First(r, l)..(Last(r, l) - 1)
      BY <2>2, <2>3
    <2>5. values[i] = First(w, l) + (i - First(r, l))
      BY <1>4, <2>2, <2>4
    <2>6. First(w, l) = First(r, l)
      BY <1>1, <1>7, SideFacts DEF First
    <2> QED BY <2>3, <2>5, <2>6
  <1> QED BY <1>7, <1>8, <1>a

\* An acceptor that validates has compared the metadata of the connector on
\* every lane that it has not given to another run.
LEMMA ComparedInPlace ==
    ASSUME TypeOK, Flow, pc[Acceptor] = "done", Reader = Acceptor, validate[Acceptor],
           NEW l \in Lanes(Acceptor), fds[l] # Foreign
    PROVE  \A i \in First(Acceptor, l)..(Last(Acceptor, l) - 1) : values[i] = i
  <1>1. fds[l] = l /\ Conn(Acceptor, l) = l
    BY DEF Flow, Accepting, Conn
  <1>2. Metadata(Acceptor) = Metadata(Connector)
    BY <1>1 DEF Flow, Compared
  <1>3. First(Connector, l) = First(Acceptor, l)
    BY <1>2 DEF Metadata, First
  <1>4. /\ pos[Acceptor][l] = Last(Acceptor, l)
        /\ First(Acceptor, l) \in Nat /\ Last(Acceptor, l) \in Nat
    BY LaneFacts, SideFacts DEF Flow, Threads
  <1>5. writer = Connector
    BY SideFacts DEF Reader, TypeOK
  <1> SUFFICES ASSUME NEW i \in First(Acceptor, l)..(Last(Acceptor, l) - 1) PROVE values[i] = i
    OBVIOUS
  <1>6. First(Acceptor, l) < Last(Acceptor, l)
    BY <1>4
  <1>7. values[i] = First(Connector, l) + (i - First(Acceptor, l))
    <2>1. l \in Lanes(Reader) /\ pos[Reader][l] > First(Reader, l) /\ Conn(Reader, l) = l
      BY <1>1, <1>4, <1>6
    <2>2. \A j \in First(Reader, l)..(pos[Reader][l] - 1) :
            values[j] = First(writer, l) + (j - First(Reader, l))
      BY <2>1 DEF Flow, Read
    <2> QED BY <1>4, <1>5, <2>2
  <1> QED BY <1>3, <1>4, <1>7

LEMMA FlowInPlace ==
    ASSUME TypeOK, Flow
    PROVE  InPlace
  <1> SUFFICES ASSUME pc[Reader] = "done",
                      ~((\A s \in Sides : ~validate[s]) /\ count[Acceptor] # count[Connector])
               PROVE  InPlace
    BY DEF InPlace
  <1>1. CASE Reader = Acceptor => \A l \in Lanes(Acceptor) : fds[l] # Foreign
    BY <1>1, UntakenInPlace DEF InPlace
  <1>2. CASE Reader = Acceptor /\ \E l \in Lanes(Acceptor) : fds[l] = Foreign
    <2>1. ASSUME validate[Acceptor], NEW l \in Lanes(Acceptor), fds[l] # Foreign
          PROVE  \A i \in First(Acceptor, l)..(Last(Acceptor, l) - 1) : values[i] = i
      BY <1>2, <2>1, ComparedInPlace
    <2>2. /\ \E l \in Lanes(Reader) : Reader = Acceptor /\ fds[l] = Foreign
          /\ validate[Acceptor] => \A l \in Lanes(Reader) :
               \/ Reader = Acceptor /\ fds[l] = Foreign
               \/ \A i \in First(Reader, l)..(Last(Reader, l) - 1) : values[i] = i
      BY <1>2, <2>1
    <2> QED BY <2>2 DEF InPlace
  <1> QED BY <1>1, <1>2

-----------------------------------------------------------------------------
\* For any settings of the two sides, the connections of accept_rf_lanes and
\* connect_rf_lanes are set up, and the lane threads of rf_parallel_io read and
\* write, as Flow says.
THEOREM LinkFlow == Spec => [](TypeOK /\ Flow)
  <1>1. Init => TypeOK /\ Flow
    BY InitTypes, InitFlow
  <1>2. (TypeOK /\ Flow) /\ [Next]_vars => (TypeOK /\ Flow)'
    BY NextFlow
  <1> QED BY <1>1, <1>2, PTL DEF Spec

\* Every variable keeps its type; in particular no lane passes its range, and
\* no connection holds more than its buffer and the greetings.
THEOREM LinkTypes == Spec => []TypeOK
  <1> QED BY LinkFlow, PTL

\* A reader whose rf_parallel_io returns has every item at its own index,
\* although no item carries it, unless nobody compares metadata and the counts
\* differ, or another run has been given a lane of the acceptor.  If that
\* acceptor compares metadata, the items of all its other lanes are in place.
THEOREM ItemsInPlace == Spec => []InPlace
  <1>1. TypeOK /\ Flow => InPlace
    BY FlowInPlace
  <1> QED BY <1>1, LinkFlow, PTL

\* With equal settings and without other runs, no side is ever stuck: neither
\* the set-up nor the cancellation of broken lanes relies on a socket timeout.
THEOREM NobodyStuck == Spec => []NeverStuck
  <1>1. TypeOK /\ Flow => NeverStuck
    BY NotStuck DEF NeverStuck
  <1> QED BY <1>1, LinkFlow, PTL

=============================================================================
