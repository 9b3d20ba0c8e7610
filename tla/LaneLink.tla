------------------------------ MODULE LaneLink ------------------------------
(***************************************************************************)
(* One hop between two processes: how accept_rf_lanes and connect_rf_lanes *)
(* set up the lanes, and how rf_parallel_io then moves one batch over them *)
(* with a thread per lane.                                                 *)
(*                                                                         *)
(* Each process reads its own settings: lanes, count, whether it validates *)
(* metadata, and the parameters that only the digest compares.  A process  *)
(* of another run on the same port may connect too.  Ciphertexts carry no  *)
(* index on the wire; the model writes the index in to see where it ends   *)
(* up.  Messages of one kind read as another make the reader throw         *)
(* (recv_mpz rejects the metadata's version word as a sign).               *)
(***************************************************************************)
EXTENDS LaneRange, Sequences, FiniteSets

CONSTANTS
    LaneCounts,   \* values of CG_RF_LANES
    Counts,       \* values of the number of items
    Params,       \* values of chunk size and digest; Foreign stands for another run
    Validations,  \* values of validate_lane_metadata()
    Cap,          \* ciphertexts that fit into one direction of a connection
    MaxTroubles   \* bound: I/O errors that no peer causes, and connections by
                  \* processes of another run (of these, at most one)

Acceptor == "acceptor"
Connector == "connector"
Sides == {Acceptor, Connector}
Other(s) == IF s = Acceptor THEN Connector ELSE Acceptor

Foreign == -1                      \* parameters, items and connections of another run
LaneIds == UNION {0..(n - 1) : n \in LaneCounts}
Conns == LaneIds \cup {Foreign}   \* the connector's connections are in lane order
Items == UNION {0..(n - 1) : n \in Counts}
None == -2                         \* no connection, no lane, no item
Nothing == <<None, None>>

ASSUME LinkSettings ==
    /\ LaneCounts \subseteq 1..MaxLanes /\ LaneCounts # {}
    /\ Counts \subseteq Nat \ {0} /\ Counts # {}
    /\ Params \subseteq Nat /\ Validations \subseteq BOOLEAN
ASSUME LinkBounds == Cap \in Nat \ {0} /\ MaxTroubles \in Nat

VARIABLES
    lanes, count, param, validate,  \* [Sides -> ...]: the settings
    writer,     \* the side that sends the batch
    pc,         \* pc[s]: setup, transfer, or how the process ended
    listening,  \* the listening socket is open
    backlog,    \* connections not accepted yet
    made,       \* connections that the connector has made
    current,    \* <<connection, lane>> the acceptor is examining; None where unknown
    fds,        \* fds[lane]: the acceptor's connection for that lane, or None
    wire,       \* wire[s][k]: what s has sent on connection k
    down,       \* down[s]: connections that s has shut down or closed
    thread,     \* thread[s][lane]: "none", "run" or "end"
    pos,        \* pos[s][lane]: the index that lane transfers next
    failure,    \* failure[s]: a lane of s has thrown
    values,     \* values[i]: the item the reader has stored at index i
    failures, strays

settings == <<lanes, count, param, validate, writer>>
link == <<listening, backlog, made, current, fds>>
io == <<thread, pos, failure, values>>
bounds == <<failures, strays>>
vars == <<settings, pc, link, wire, down, io, bounds>>

Places == {"accept", "id", "meta", "connect", "up", "io", "done", "failed"}
Lanes(s) == 0..(lanes[s] - 1)
Ended(s) == pc[s] \in {"done", "failed"}
Reader == Other(writer)

\* The connection that lane l of s uses: the connector's are in lane order.
Conn(s, l) == IF s = Acceptor THEN fds[l] ELSE l
MyConns(s) == {Conn(s, l) : l \in Lanes(s)} \ {None}

Metadata(s) == [lanes |-> lanes[s], count |-> count[s], param |-> param[s]]

Init ==
    /\ lanes \in [Sides -> LaneCounts] /\ count \in [Sides -> Counts]
    /\ param \in [Sides -> Params] /\ validate \in [Sides -> Validations]
    /\ writer \in Sides
    /\ pc = [s \in Sides |-> IF s = Acceptor THEN "accept" ELSE "connect"]
    /\ listening = TRUE /\ backlog = <<>> /\ made = 0 /\ current = Nothing
    /\ fds = [l \in Lanes(Acceptor) |-> None]
    /\ wire = [s \in Sides |-> [k \in Conns |-> <<>>]]
    /\ down = [s \in Sides |-> {}]
    /\ thread = [s \in Sides |-> [l \in Lanes(s) |-> "none"]]
    /\ pos = [s \in Sides |-> [l \in Lanes(s) |-> RfLaneBegin(count[s], lanes[s], l)]]
    /\ failure = [s \in Sides |-> FALSE]
    /\ values = [i \in Items |-> None]
    /\ failures = 0 /\ strays = 0

(***************************************************************************)
(* Ends.                                                                   *)
(***************************************************************************)
\* s ends; the kernel closes its sockets, the listener and its backlog.
EndAs(s, place) ==
    /\ pc' = [pc EXCEPT ![s] = place]
    /\ down' = [down EXCEPT ![s] = Conns]
    /\ IF s = Acceptor THEN listening' = FALSE /\ backlog' = <<>> /\ current' = Nothing
       ELSE UNCHANGED <<listening, backlog, current>>

\* An exception leaves accept_rf_lanes or connect_rf_lanes, which close what
\* they have opened, and then the program.
Throw(s) == EndAs(s, "failed") /\ UNCHANGED <<settings, made, fds, io, bounds>>

(***************************************************************************)
(* connect_rf_lanes                                                        *)
(***************************************************************************)
\* The connector goes on to the next lane or has them all.
NextLane == IF made' < lanes[Connector] THEN "connect" ELSE "up"

\* The connector waits for the acceptor's metadata before it sends its own.
Connect_CheckFirst ==
    /\ pc[Connector] = "connect"
    /\ listening
    /\ backlog' = Append(backlog, made)
    /\ wire' = [wire EXCEPT ![Connector][made] = <<[kind |-> "id", is |-> made]>>]
    /\ made' = made + 1
    /\ pc' = [pc EXCEPT ![Connector] = IF validate[Connector] THEN "meta" ELSE NextLane]
    /\ UNCHANGED <<settings, listening, current, fds, down, io, bounds>>

Connect ==
    LET hello == <<[kind |-> "id", is |-> made]>>
        meta == IF validate[Connector]
                THEN <<[kind |-> "meta", is |-> Metadata(Connector)]>> ELSE <<>>
    IN
    /\ pc[Connector] = "connect"
    /\ listening
    /\ backlog' = Append(backlog, made)
    /\ wire' = [wire EXCEPT ![Connector][made] = hello \o meta]
    /\ made' = made + 1
    /\ pc' = [pc EXCEPT ![Connector] = IF validate[Connector] THEN "meta" ELSE NextLane]
    /\ UNCHANGED <<settings, listening, current, fds, down, io, bounds>>

\* CG_CONNECT_RETRIES are used up.
ConnectFails ==
    /\ pc[Connector] = "connect"
    /\ ~listening
    /\ Throw(Connector)
    /\ UNCHANGED wire

\* A process of another run connects to the same port, with or without
\* metadata.  The digest names the protocol and its parameters, not the run
\* (CG_PROTOCOL_ID, but no CG_SESSION_ID): its metadata may differ or be equal.
Stray ==
    /\ listening /\ strays = 0 /\ failures < MaxTroubles
    /\ strays' = strays + 1
    /\ backlog' = Append(backlog, Foreign)
    /\ \E l \in LaneIds,
          next \in {[kind |-> "meta", is |-> Metadata(Acceptor)],
                    [kind |-> "meta", is |-> [Metadata(Acceptor) EXCEPT !.param = Foreign]],
                    [kind |-> "ct", is |-> Foreign]} :
         wire' = [wire EXCEPT ![Connector][Foreign] = <<[kind |-> "id", is |-> l], next>>]
    /\ UNCHANGED <<settings, pc, listening, made, current, fds, down, io, failures>>

\* It goes on sending ciphertexts.
StraySends ==
    /\ strays > 0 /\ Foreign \notin down[Acceptor]
    /\ Len(wire[Connector][Foreign]) < Cap
    /\ wire' = [wire EXCEPT ![Connector][Foreign] = Append(@, [kind |-> "ct", is |-> Foreign])]
    /\ UNCHANGED <<settings, pc, link, down, io, bounds>>

\* It reads what it is sent.
StrayReads ==
    /\ wire[Acceptor][Foreign] # <<>>
    /\ wire' = [wire EXCEPT ![Acceptor][Foreign] = Tail(@)]
    /\ UNCHANGED <<settings, pc, link, down, io, bounds>>

\* A message for s is there; or the peer is gone and none will come.
Arrived(s, k) == wire[Other(s)][k] # <<>>
Message(s, k) == Head(wire[Other(s)][k])
Gone(s, k) == ~Arrived(s, k) /\ k \in down[Other(s)]
Take(s, k) == [wire EXCEPT ![Other(s)][k] = Tail(@)]

\* The counts are not compared.
MetadataOk_NoCount(s, m) ==
    m.kind = "meta" /\ m.is.lanes = lanes[s] /\ m.is.param = param[s]

\* check_rf_metadata does not throw.
MetadataOk(s, m) == m.kind = "meta" /\ m.is = Metadata(s)

ConnectorMeta ==
    LET k == made - 1 IN
    /\ pc[Connector] = "meta"
    /\ Arrived(Connector, k)
    /\ wire' = Take(Connector, k)
    /\ \/ /\ ~MetadataOk(Connector, Message(Connector, k))
          /\ Throw(Connector)
       \/ /\ MetadataOk(Connector, Message(Connector, k))
          /\ made' = made
          /\ pc' = [pc EXCEPT ![Connector] = NextLane]
          /\ UNCHANGED <<settings, listening, backlog, current, fds, down, io, bounds>>

(***************************************************************************)
(* accept_rf_lanes                                                         *)
(***************************************************************************)
Accept ==
    /\ pc[Acceptor] = "accept"
    /\ backlog # <<>>
    /\ current' = <<Head(backlog), None>>
    /\ backlog' = Tail(backlog)
    /\ pc' = [pc EXCEPT ![Acceptor] = "id"]
    /\ UNCHANGED <<settings, listening, made, fds, wire, down, io, bounds>>

\* fds[l] = current; after the last lane the caller closes the listener,
\* which resets the connections still in the backlog.
Store(l) ==
    LET new == [fds EXCEPT ![l] = current[1]]
        all == \A j \in Lanes(Acceptor) : new[j] # None
    IN
    /\ fds' = new
    /\ current' = Nothing
    /\ pc' = [pc EXCEPT ![Acceptor] = IF all THEN "up" ELSE "accept"]
    /\ listening' = ~all
    /\ down' = IF all THEN [down EXCEPT ![Acceptor] = Conns \ {new[j] : j \in Lanes(Acceptor)}]
               ELSE down
    /\ backlog' = IF all THEN <<>> ELSE backlog

\* "invalid or duplicate RF lane id" throws.
AcceptorId ==
    LET k == current[1]
        l == Message(Acceptor, k).is
        free == l \in Lanes(Acceptor) /\ fds[l] = None
    IN
    /\ pc[Acceptor] = "id"
    /\ Arrived(Acceptor, k)
    /\ wire' = Take(Acceptor, k)
    /\ \/ ~free /\ Throw(Acceptor)
       \/ /\ free /\ validate[Acceptor]
          /\ pc' = [pc EXCEPT ![Acceptor] = "meta"]
          /\ current' = <<k, l>>
          /\ UNCHANGED <<settings, listening, backlog, made, fds, down, io, bounds>>
       \/ /\ free /\ ~validate[Acceptor]
          /\ Store(l)
          /\ UNCHANGED <<settings, made, io, bounds>>

\* The metadata is checked and answered.
AcceptorMeta ==
    LET k == current[1]
        ok == MetadataOk(Acceptor, Message(Acceptor, k))
    IN
    /\ pc[Acceptor] = "meta"
    /\ Arrived(Acceptor, k)
    /\ \/ ~ok /\ wire' = Take(Acceptor, k) /\ Throw(Acceptor)
       \/ /\ ok
          /\ wire' = [Take(Acceptor, k) EXCEPT ![Acceptor][k] =
                        Append(@, [kind |-> "meta", is |-> Metadata(Acceptor)])]
          /\ Store(current[2])
          /\ UNCHANGED <<settings, made, io, bounds>>

\* The connection s waits on during setup.
Awaited(s) ==
    IF s = Acceptor THEN {current[1] : p \in {pc[s]} \cap {"id", "meta"}}
    ELSE {made - 1 : p \in {pc[s]} \cap {"meta"}}

SetupPeerGone(s) ==
    /\ \E k \in Awaited(s) : Gone(s, k)
    /\ Throw(s)
    /\ UNCHANGED wire

(***************************************************************************)
(* rf_parallel_io: one thread per lane with a part of [0, count).          *)
(***************************************************************************)
First(s, l) == RfLaneBegin(count[s], lanes[s], l)
Last(s, l) == RfLaneEnd(count[s], lanes[s], l)
ActiveLanes(s) == {l \in Lanes(s) : First(s, l) < Last(s, l)}

StartIo(s) ==
    /\ pc[s] = "up"
    /\ pc' = [pc EXCEPT ![s] = "io"]
    /\ thread' = [thread EXCEPT ![s] = [l \in Lanes(s) |-> IF l \in ActiveLanes(s) THEN "run" ELSE "none"]]
    /\ UNCHANGED <<settings, link, wire, down, pos, failure, values, bounds>>

\* cancel: shut down every lane, so that no thread of s stays blocked.
Cancel(s) == down' = [down EXCEPT ![s] = @ \cup MyConns(s)]

\* Thread creation throws: the threads created so far are cancelled and joined.
StartIoFails(s) ==
    /\ pc[s] = "up" /\ lanes[s] > 1
    /\ failures + strays < MaxTroubles
    /\ failures' = failures + 1
    /\ pc' = [pc EXCEPT ![s] = "io"]
    /\ \E n \in ActiveLanes(s) :
         thread' = [thread EXCEPT ![s] =
           [l \in Lanes(s) |-> IF l \in ActiveLanes(s) /\ l < n THEN "run" ELSE "none"]]
    /\ failure' = [failure EXCEPT ![s] = TRUE]
    /\ Cancel(s)
    /\ UNCHANGED <<settings, link, wire, pos, values, strays>>

Running(s, l) == pc[s] = "io" /\ l \in Lanes(s) /\ thread[s][l] = "run"

\* One item too many is written.
LaneWrite_OneMore(s, l) ==
    LET k == Conn(s, l) IN
    /\ Running(s, l) /\ s = writer
    /\ pos[s][l] <= Last(s, l)
    /\ k \notin down[s] /\ Len(wire[s][k]) < Cap
    /\ wire' = [wire EXCEPT ![s][k] = Append(@, [kind |-> "ct", is |-> pos[s][l]])]
    /\ pos' = [pos EXCEPT ![s][l] = @ + 1]
    /\ UNCHANGED <<settings, pc, link, down, thread, failure, values, bounds>>

LaneWrite(s, l) ==
    LET k == Conn(s, l) IN
    /\ Running(s, l) /\ s = writer
    /\ pos[s][l] < Last(s, l)
    /\ k \notin down[s] /\ Len(wire[s][k]) < Cap
    /\ wire' = [wire EXCEPT ![s][k] = Append(@, [kind |-> "ct", is |-> pos[s][l]])]
    /\ pos' = [pos EXCEPT ![s][l] = @ + 1]
    /\ UNCHANGED <<settings, pc, link, down, thread, failure, values, bounds>>

LaneRead(s, l) ==
    LET k == Conn(s, l) IN
    /\ Running(s, l) /\ s = Reader
    /\ pos[s][l] < Last(s, l)
    /\ k \notin down[s] /\ Arrived(s, k) /\ Message(s, k).kind = "ct"
    /\ values' = [values EXCEPT ![pos[s][l]] = Message(s, k).is]
    /\ wire' = Take(s, k)
    /\ pos' = [pos EXCEPT ![s][l] = @ + 1]
    /\ UNCHANGED <<settings, pc, link, down, thread, failure, bounds>>

LaneEnds(s, l) ==
    /\ Running(s, l) /\ pos[s][l] = Last(s, l)
    /\ thread' = [thread EXCEPT ![s][l] = "end"]
    /\ UNCHANGED <<settings, pc, link, wire, down, pos, failure, values, bounds>>

\* The lanes of the other threads are left open.
Caught_NoCancel(s, l) ==
    /\ thread' = [thread EXCEPT ![s][l] = "end"]
    /\ failure' = [failure EXCEPT ![s] = TRUE]
    /\ UNCHANGED <<settings, pc, link, wire, down, pos, values, strays>>

\* A lane's exception is caught in its thread: record it and cancel.  With a
\* single lane there are no threads: the exception ends the process.
Caught(s, l) ==
    /\ thread' = [thread EXCEPT ![s][l] = "end"]
    /\ failure' = [failure EXCEPT ![s] = TRUE]
    /\ Cancel(s)
    /\ UNCHANGED <<settings, pc, link, wire, pos, values, strays>>

\* I/O fails because of this side's cancel, of the peer, or of what the peer
\* has sent.  What a failed peer sent before may be lost with the connection.
LaneFails(s, l) ==
    LET k == Conn(s, l)
        q == Other(s)
    IN
    /\ Running(s, l) /\ pos[s][l] < Last(s, l)
    /\ \/ k \in down[s]
       \/ s = writer /\ k \in down[q]
       \/ s = Reader /\ Gone(s, k)
       \/ s = Reader /\ k \in down[q] /\ (failure[q] \/ pc[q] = "failed")
       \/ s = Reader /\ Arrived(s, k) /\ Message(s, k).kind # "ct"
    /\ Caught(s, l)
    /\ UNCHANGED failures

\* A timeout, a network error or an exception that the peer did not cause.
LaneBreaks(s, l) ==
    /\ Running(s, l) /\ pos[s][l] < Last(s, l)
    /\ failures + strays < MaxTroubles
    /\ failures' = failures + 1
    /\ Caught(s, l)

\* All threads are joined; then the stored exception is rethrown or the
\* process goes on, here to its end.
Join(s) ==
    /\ pc[s] = "io"
    /\ \A l \in Lanes(s) : thread[s][l] # "run"
    /\ EndAs(s, IF failure[s] THEN "failed" ELSE "done")
    /\ UNCHANGED <<settings, made, fds, wire, io, bounds>>

(***************************************************************************)
(* Timeouts.                                                               *)
(***************************************************************************)
Blocked(s) ==
    \/ s = Acceptor /\ pc[s] = "accept" /\ backlog = <<>>
    \/ \E k \in Awaited(s) : ~Arrived(s, k) /\ k \notin down[Other(s)]
    \/ /\ pc[s] = "io"
       /\ \E l \in Lanes(s) : Running(s, l)
       /\ \A l \in Lanes(s) : Running(s, l) =>
            LET k == Conn(s, l) IN
            /\ pos[s][l] < Last(s, l)
            /\ k \notin down[s] \cup down[Other(s)]
            /\ IF s = writer THEN Len(wire[s][k]) >= Cap ELSE ~Arrived(s, k)

\* Nobody will move any more.
Stuck(s) == Blocked(s) /\ (Blocked(Other(s)) \/ Ended(Other(s)))

\* The listening socket has no timeout.
Timeout_NoListener(s) == pc[s] # "accept" /\ Stuck(s) /\ Throw(s) /\ UNCHANGED wire

\* SO_RCVTIMEO and SO_SNDTIMEO, on the listener too, end a process that is
\* stuck.  They are taken to be longer than any delay of a live peer.
Timeout(s) == Stuck(s) /\ Throw(s) /\ UNCHANGED wire

Finished == (\A s \in Sides : Ended(s)) /\ UNCHANGED vars

SetupNext(s) ==
    \/ s = Connector /\ (Connect \/ ConnectFails \/ ConnectorMeta)
    \/ s = Acceptor /\ (Accept \/ AcceptorId \/ AcceptorMeta)
    \/ SetupPeerGone(s)

ThreadNext(s, l) == LaneWrite(s, l) \/ LaneRead(s, l) \/ LaneEnds(s, l) \/ LaneFails(s, l)

Progress ==
    \E s \in Sides :
      \/ SetupNext(s) \/ StartIo(s) \/ Join(s) \/ Timeout(s)
      \/ \E l \in Lanes(s) : ThreadNext(s, l)

Next ==
    \/ Progress \/ Stray \/ StraySends \/ StrayReads \/ Finished
    \/ \E s \in Sides : StartIoFails(s) \/ \E l \in Lanes(s) : LaneBreaks(s, l)

Spec == Init /\ [][Next]_vars

\* As long as a process, a lane thread or a timeout can go on, one of them
\* does.  Which one is left open.
Fairness == WF_vars(Progress)

FairSpec == Spec /\ Fairness

------------------------------------------------------------------------------
\* A lane id, the settings of a program, or a ciphertext.
Messages ==
    [kind : {"id"}, is : LaneIds]
      \cup [kind : {"meta"}, is : [lanes : LaneCounts, count : Counts, param : Params \cup {Foreign}]]
      \cup [kind : {"ct"}, is : Items \cup {Foreign}]

WireTyped(w) ==
    /\ w \in [Sides -> [Conns -> Seq(Messages)]]
    /\ \A s \in Sides : \A k \in Conns : Len(w[s][k]) <= Cap + 2

\* Type invariant.
TypeOK ==
    /\ lanes \in [Sides -> LaneCounts] /\ count \in [Sides -> Counts]
    /\ param \in [Sides -> Params] /\ validate \in [Sides -> Validations]
    /\ writer \in Sides /\ pc \in [Sides -> Places]
    /\ listening \in BOOLEAN /\ backlog \in Seq(Conns)
    /\ made \in 0..lanes[Connector]
    /\ current \in (Conns \cup {None}) \X (Conns \cup {None})
    /\ fds \in [Lanes(Acceptor) -> Conns \cup {None}]
    /\ down \in [Sides -> SUBSET Conns]
    /\ WireTyped(wire)
    /\ DOMAIN thread = Sides /\ DOMAIN pos = Sides
    /\ \A s \in Sides :
         /\ thread[s] \in [Lanes(s) -> {"none", "run", "end"}]
         /\ pos[s] \in [Lanes(s) -> 0..count[s]]
    /\ failure \in [Sides -> BOOLEAN]
    /\ values \in [Items -> Items \cup {None, Foreign}]
    /\ failures \in 0..MaxTroubles /\ strays \in {0, 1}

\* Equal settings on both sides.
Matched ==
    /\ Metadata(Acceptor) = Metadata(Connector)
    /\ validate[Acceptor] = validate[Connector]

\* "both endpoints compute the same ciphertext range for each lane, so lane
\* payloads need no per-item tags": a reader that ends normally has every item
\* at its own index, unless nobody validates and the counts differ, or another
\* run has been given a lane of the acceptor.  An acceptor that validates then
\* still has the items of all its other lanes in place.  A different number of
\* lanes never goes unnoticed, and a connector is never misled by another run.
InPlace ==
    LET taken(l) == Reader = Acceptor /\ fds[l] = Foreign IN
    pc[Reader] = "done" =>
        \/ /\ count[Acceptor] = count[Connector]
           /\ lanes[Acceptor] = lanes[Connector]
           /\ \A i \in 0..(count[Reader] - 1) : values[i] = i
        \/ /\ \E l \in Lanes(Reader) : taken(l)
           /\ validate[Acceptor] => \A l \in Lanes(Reader) : taken(l) \/
                \A i \in First(Reader, l)..(Last(Reader, l) - 1) : values[i] = i
        \/ (\A s \in Sides : ~validate[s]) /\ count[Acceptor] # count[Connector]

\* With equal settings the processes never depend on a timeout to end, even
\* when lanes of both break: a broken lane releases the blocked ones.
NeverStuck == Matched /\ strays = 0 => \A s \in Sides : ~Stuck(s)

(***************************************************************************)
(* What has been sent and read on each connection, and how far the set-up  *)
(* is; with the types, the inductive invariant of LaneLinkProofs.          *)
(***************************************************************************)
\* The connections of the connector, and what the acceptor does with them.
Made == 0..(made - 1)
Queued(k) == \E j \in DOMAIN backlog : backlog[j] = k
Examined(k, place) == pc[Acceptor] = place /\ current[1] = k
Stored(k) == k \in Lanes(Acceptor) /\ fds[k] = k
SettingUp == pc[Acceptor] \in {"accept", "id", "meta"}

\* Connections are examined once and stored for the lane they name, and none
\* is lost while the listener is open.
Accepting ==
    /\ pc[Acceptor] # "connect" /\ (listening <=> SettingUp)
    /\ ~listening => backlog = <<>>
    /\ \A i, j \in DOMAIN backlog : backlog[i] = backlog[j] => i = j
    /\ IF pc[Acceptor] \in {"id", "meta"} THEN current[1] # None /\ ~Queued(current[1])
       ELSE current = Nothing
    /\ pc[Acceptor] = "meta" =>
         /\ validate[Acceptor]
         /\ current[2] \in Lanes(Acceptor) /\ fds[current[2]] = None
         /\ current[1] \in {current[2], Foreign}
    /\ \A l \in Lanes(Acceptor) :
         /\ fds[l] \in {None, l, Foreign}
         /\ fds[l] # None => ~Queued(fds[l]) /\ current[1] # fds[l]
         /\ pc[Acceptor] \in {"up", "io", "done"} => fds[l] # None
    /\ SettingUp => \E l \in Lanes(Acceptor) : fds[l] = None
    /\ \A k \in LaneIds : Queued(k) \/ current[1] = k \/ Stored(k) => k \in Made
    /\ Queued(Foreign) \/ current[1] = Foreign
         \/ (\E l \in Lanes(Acceptor) : fds[l] = Foreign) => strays > 0
    /\ SettingUp => \A k \in Made : Queued(k) \/ current[1] = k \/ Stored(k)

Connecting ==
    /\ pc[Connector] \notin {"accept", "id"}
    /\ pc[Connector] = "connect" => made < lanes[Connector]
    /\ pc[Connector] = "meta" => made > 0 /\ validate[Connector]
    /\ pc[Connector] \in {"up", "io", "done"} => made = lanes[Connector]

\* Who has compared the metadata of the peer knows that it agrees.
Passed(k) == ~(pc[Connector] = "meta" /\ k = made - 1)
Compared ==
    /\ validate[Acceptor] => \A l \in Lanes(Acceptor) : fds[l] = l =>
         validate[Connector] /\ Metadata(Acceptor) = Metadata(Connector)
    /\ validate[Connector] /\ pc[Connector] # "failed" => \A k \in Made : Passed(k) =>
         Stored(k) /\ validate[Acceptor] /\ Metadata(Acceptor) = Metadata(Connector)

\* The n-th message that s sends on connection k is x: the lane id, if s is the
\* connector, the metadata, if s validates, then ciphertexts.
Hello(s) == (IF s = Connector THEN 1 ELSE 0) + (IF validate[s] THEN 1 ELSE 0)
IsMessage(s, k, n, x) ==
    x = IF s = Connector /\ n = 1 THEN [kind |-> "id", is |-> k]
        ELSE IF n <= Hello(s) THEN [kind |-> "meta", is |-> Metadata(s)]
        ELSE [kind |-> "ct", is |-> First(s, k) + (n - 1 - Hello(s))]

\* The number of messages that s has sent on k, and that s has read from it.
Given(s, k) ==
    IF s = Acceptor /\ ~Stored(k) THEN 0
    ELSE Hello(s) + (IF s = writer THEN pos[s][k] - First(s, k) ELSE 0)
Greeted(s, k) ==
    IF s = Connector THEN IF validate[s] /\ Passed(k) THEN 1 ELSE 0
    ELSE IF Stored(k) THEN IF validate[s] THEN 2 ELSE 1
    ELSE IF Examined(k, "meta") THEN 1 ELSE 0
Taken(s, k) ==
    Greeted(s, k)
      + (IF s = Reader /\ (s = Acceptor => Stored(k)) THEN pos[s][k] - First(s, k) ELSE 0)

\* s reads from connection k, now or later.
Reads(s, k) ==
    /\ pc[s] # "failed"
    /\ s = Acceptor => Queued(k) \/ current[1] = k \/ Stored(k)

\* What has been written is what has been read and what is on its way.
Aligned(s, k) ==
    LET w == wire[Other(s)][k] IN
    /\ Given(Other(s), k) = Taken(s, k) + Len(w)
    /\ \A j \in 1..Len(w) : IsMessage(Other(s), k, Taken(s, k) + j, w[j])

Streams ==
    /\ \A s \in Sides : \A k \in Made : Reads(s, k) => Aligned(s, k)
    /\ \A k \in LaneIds :
         /\ ~Stored(k) => wire[Acceptor][k] = <<>>
         /\ k \notin Made => wire[Connector][k] = <<>>
    /\ Queued(Foreign) \/ Examined(Foreign, "id") =>
         wire[Connector][Foreign] # <<>> /\ Head(wire[Connector][Foreign]).kind = "id"
    /\ (\A l \in Lanes(Acceptor) : fds[l] # Foreign) => wire[Acceptor][Foreign] = <<>>

\* Lane threads: an unfinished lane runs, or all lanes have been cancelled.
Threads ==
    \A s \in Sides :
      /\ pc[s] \notin {"io", "done", "failed"} => ~failure[s]
      /\ failure[s] /\ pc[s] = "io" => MyConns(s) \subseteq down[s]
      /\ pc[s] = "done" => ~failure[s]
      /\ \A l \in Lanes(s) :
           /\ First(s, l) <= pos[s][l] /\ pos[s][l] <= Last(s, l)
           /\ pc[s] \notin {"io", "done", "failed"} => pos[s][l] = First(s, l)
           /\ pc[s] = "io" /\ ~failure[s] /\ pos[s][l] < Last(s, l) => thread[s][l] = "run"
           /\ pc[s] = "done" => pos[s][l] = Last(s, l)

\* What a lane of the reader has read from the lane of the writer.
Read ==
    \A l \in Lanes(Reader) : pos[Reader][l] > First(Reader, l) /\ Conn(Reader, l) = l =>
        /\ l \in Lanes(writer) /\ validate[Acceptor] = validate[Connector]
        /\ Reader = Connector => Stored(l)
        /\ \A i \in First(Reader, l)..(pos[Reader][l] - 1) :
             values[i] = First(writer, l) + (i - First(Reader, l))

\* Sockets are closed at the end; with equal settings nobody fails in set-up.
Closing ==
    /\ \A s \in Sides : Ended(s) => down[s] = Conns
    /\ listening => down[Acceptor] = {}
    /\ Matched /\ strays = 0 =>
         /\ pc[Acceptor] = "failed" => \A l \in Lanes(Acceptor) : fds[l] # None
         /\ pc[Connector] = "failed" => made = lanes[Connector]

Flow == Accepting /\ Connecting /\ Compared /\ Streams /\ Threads /\ Read /\ Closing

\* Whatever the settings are, nobody waits for ever.
EveryoneEnds == <>(\A s \in Sides : Ended(s))

\* With equal settings and neither errors nor other runs, the batch arrives.
Completes ==
    Matched => <>(failures + strays > 0 \/ \A s \in Sides : pc[s] = "done")
==============================================================================
