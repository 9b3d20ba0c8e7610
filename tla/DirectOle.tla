------------------------------ MODULE DirectOle ------------------------------
(***************************************************************************)
(* Direct (two-party) batched OLE: direct_ole_batch_receive and            *)
(* direct_ole_batch_send of cg_ope_common.hpp, used by OLE, OPE, OPA and   *)
(* PSI without firewalls.  The exchange is lock-step: the receiver sends a *)
(* chunk and reads its answers before it sends the next one; a one-word    *)
(* acknowledgement ends the exchange.  The programs cg_batch_ole_receiver  *)
(* and cg_batch_ole_sender move the whole batch at once and end without an *)
(* acknowledgement.                                                        *)
(*                                                                         *)
(* The two processes read CG_RF_CHUNK_SIZE independently.  Lane setup is   *)
(* one step: with CG_VALIDATE_LANES=1 it compares the settings and throws  *)
(* on both sides when they differ, otherwise it does not look at them.     *)
(***************************************************************************)
EXTENDS AHE, LaneRange, Sequences

CONSTANTS
    N,            \* number of OLEs
    LaneCounts,   \* the values of CG_RF_LANES to consider
    ChunkSizes,   \* the values of CG_RF_CHUNK_SIZE to consider, per process
    Wholes,       \* the kinds of programs to consider: TRUE for whole-batch ones
    Validate,     \* the values of validate_lane_metadata() to consider
    Cap,          \* ciphertexts that fit into one direction of a connection
    X, A, B,      \* the inputs: functions from indexes to residues
    Sk,           \* the receiver's secret key
    Coin          \* Coin[p][i]: encryption coins

Index == 0..(N - 1)
Receiver == 1
Sender == 2
Procs == {Receiver, Sender}
Peer(p) == 3 - p

ASSUME DirectConstants ==
    /\ N \in Nat \ {0} /\ LaneCounts \subseteq 1..MaxLanes
    /\ ChunkSizes \subseteq Nat \ {0} /\ Cap \in Nat \ {0}
    /\ Validate \subseteq BOOLEAN /\ Wholes \subseteq BOOLEAN
ASSUME DirectInputs ==
    /\ X \in [Index -> Residues] /\ A \in [Index -> Residues] /\ B \in [Index -> Residues]
    /\ Sk \in Int /\ Coin \in [Procs -> [Index -> Int]]

VARIABLES
    whole,     \* the two programs are the whole-batch ones
    lanes,     \* number of transport lanes
    chunk,     \* chunk[p]: CHUNK of process p
    validate,  \* lane metadata is exchanged
    pc,        \* pc[p]: setup, the transfer p is in, the final word, or the end
    begin,     \* begin[p]: where the current chunk starts
    pos,       \* pos[p][l]: the index that lane l of p transfers next
    wire,      \* wire[p][l]: ciphertexts that p has sent on lane l
    ack,       \* the acknowledgement has been sent
    in_buf,    \* in_buf[p][i]: enc_y of the receiver, enc_x of the sender
    out_buf,   \* out_buf[p][i]: enc_x of the receiver, enc_y of the sender
               \* (enc_b of the whole-batch sender until it computes enc_y)
    y_vals     \* y_vals[i]: the receiver's outputs; -2 before they are known

vars == <<whole, lanes, chunk, validate, pc, begin, pos, wire, ack, in_buf, out_buf, y_vals>>

Settings == <<whole, lanes, chunk, validate>>
Places == {"setup", "work", "send", "recv", "ack", "done", "failed"}
Lanes == 0..(lanes - 1)
Unknown == -2
Result(i) == (A[i] * X[i] + B[i]) % Q

\* How many OLEs one round of p moves.
Size(p) == IF whole THEN N ELSE chunk[p]
End(p) == Least(N, begin[p] + Size(p))
InChunk(p, i) == begin[p] <= i /\ i < End(p)
StartAt(b) == [l \in Lanes |-> SliceBegin(N, lanes, l, b)]
LaneDone(p, l) == pos[p][l] >= SliceEnd(N, lanes, l, End(p))
ChunkDone(p) == \A l \in Lanes : LaneDone(p, l)

Init ==
    /\ whole \in Wholes
    /\ lanes \in LaneCounts
    /\ chunk \in [Procs -> ChunkSizes]
    /\ validate \in Validate
    /\ pc = [p \in Procs |-> "setup"]
    /\ begin = [p \in Procs |-> 0]
    /\ pos = [p \in Procs |-> StartAt(0)]
    /\ wire = [p \in Procs |-> [l \in Lanes |-> <<>>]]
    /\ ack = FALSE
    /\ in_buf = [p \in Procs |-> [i \in Index |-> Blank]]
    /\ out_buf = [p \in Procs |-> [i \in Index |-> Blank]]
    /\ y_vals = [i \in Index |-> Unknown]

\* check_rf_metadata does not compare the chunk sizes.
Setup_NoChunkCheck ==
    /\ pc = [p \in Procs |-> "setup"]
    /\ pc' = [p \in Procs |-> IF p = Receiver \/ whole THEN "work" ELSE "recv"]
    /\ UNCHANGED <<Settings, begin, pos, wire, ack, in_buf, out_buf, y_vals>>

\* accept_rf_lanes and connect_rf_lanes, and the public key.
Setup ==
    LET mismatch == validate /\ chunk[Receiver] # chunk[Sender] IN
    /\ pc = [p \in Procs |-> "setup"]
    /\ pc' = [p \in Procs |-> IF mismatch THEN "failed"
                              ELSE IF p = Receiver \/ whole THEN "work" ELSE "recv"]
    /\ UNCHANGED <<Settings, begin, pos, wire, ack, in_buf, out_buf, y_vals>>

(***************************************************************************)
(* Lanes.                                                                  *)
(***************************************************************************)
LaneSend(p, l) ==
    /\ pc[p] = "send"
    /\ ~LaneDone(p, l)
    /\ Len(wire[p][l]) < Cap
    /\ wire' = [wire EXCEPT ![p][l] = Append(@, out_buf[p][pos[p][l]])]
    /\ pos' = [pos EXCEPT ![p][l] = @ + 1]
    /\ UNCHANGED <<Settings, pc, begin, ack, in_buf, out_buf, y_vals>>

LaneRecv(p, l) ==
    LET q == Peer(p) IN
    /\ pc[p] = "recv"
    /\ ~LaneDone(p, l)
    /\ wire[q][l] # <<>>
    /\ in_buf' = [in_buf EXCEPT ![p][pos[p][l]] = Head(wire[q][l])]
    /\ wire' = [wire EXCEPT ![q][l] = Tail(@)]
    /\ pos' = [pos EXCEPT ![p][l] = @ + 1]
    /\ UNCHANGED <<Settings, pc, begin, ack, out_buf, y_vals>>

\* p turns to place `next`, transferring the chunk at b.
Turn(p, next, b) ==
    /\ pc' = [pc EXCEPT ![p] = next]
    /\ begin' = [begin EXCEPT ![p] = b]
    /\ pos' = [pos EXCEPT ![p] = StartAt(b)]

\* The loop test includes N.
NextRound_OffByOne(p, again) ==
    LET b == begin[p] + chunk[p] IN
    IF b <= N THEN Turn(p, again, b) ELSE Turn(p, "ack", 0)

\* Where the loop goes after a chunk: another round, or the acknowledgement.
NextRound(p, again) ==
    LET b == begin[p] + chunk[p] IN
    IF b < N THEN Turn(p, again, b) ELSE Turn(p, "ack", 0)

(***************************************************************************)
(* direct_ole_batch_receive                                                *)
(***************************************************************************)
ReceiverEncrypt ==
    /\ ~whole /\ pc[Receiver] = "work"
    /\ out_buf' = [out_buf EXCEPT ![Receiver] = [i \in Index |->
         IF InChunk(Receiver, i) THEN Encrypt(Sk, X[i], Coin[Receiver][i]) ELSE @[i]]]
    /\ Turn(Receiver, "send", begin[Receiver])
    /\ UNCHANGED <<Settings, wire, ack, in_buf, y_vals>>

\* The receiver does not wait for the answers to a chunk.
ReceiverChunkSent_Stream ==
    /\ pc[Receiver] = "send" /\ ChunkDone(Receiver)
    /\ LET b == begin[Receiver] + chunk[Receiver] IN
         IF b < N THEN Turn(Receiver, "work", b) ELSE Turn(Receiver, "recv", 0)
    /\ UNCHANGED <<Settings, wire, ack, in_buf, out_buf, y_vals>>

ReceiverChunkSent ==
    /\ pc[Receiver] = "send" /\ ChunkDone(Receiver)
    /\ Turn(Receiver, "recv", begin[Receiver])
    /\ UNCHANGED <<Settings, wire, ack, in_buf, out_buf, y_vals>>

ReceiverDecrypt ==
    /\ ~whole /\ pc[Receiver] = "recv" /\ ChunkDone(Receiver)
    /\ y_vals' = [i \in Index |->
         IF InChunk(Receiver, i) THEN Decrypt(Sk, in_buf[Receiver][i]) ELSE y_vals[i]]
    /\ NextRound(Receiver, "work")
    /\ UNCHANGED <<Settings, wire, ack, in_buf, out_buf>>

ReceiverAck ==
    /\ pc[Receiver] = "ack"
    /\ ack' = TRUE
    /\ pc' = [pc EXCEPT ![Receiver] = "done"]
    /\ UNCHANGED <<Settings, begin, pos, wire, in_buf, out_buf, y_vals>>

(***************************************************************************)
(* direct_ole_batch_send                                                   *)
(***************************************************************************)
\* The answer is sent on from the lane's first index of the whole batch.
SenderEvaluate_FullRange ==
    /\ ~whole /\ pc[Sender] = "recv" /\ ChunkDone(Sender)
    /\ out_buf' = [out_buf EXCEPT ![Sender] = [i \in Index |->
         IF InChunk(Sender, i)
         THEN Add(CMult(in_buf[Sender][i], A[i]), Encrypt(Sk, B[i], Coin[Sender][i]))
         ELSE @[i]]]
    /\ pc' = [pc EXCEPT ![Sender] = "send"]
    /\ pos' = [pos EXCEPT ![Sender] = StartAt(0)]
    /\ UNCHANGED <<Settings, begin, wire, ack, in_buf, y_vals>>

SenderEvaluate ==
    /\ ~whole /\ pc[Sender] = "recv" /\ ChunkDone(Sender)
    /\ out_buf' = [out_buf EXCEPT ![Sender] = [i \in Index |->
         IF InChunk(Sender, i)
         THEN Add(CMult(in_buf[Sender][i], A[i]), Encrypt(Sk, B[i], Coin[Sender][i]))
         ELSE @[i]]]
    /\ Turn(Sender, "send", begin[Sender])
    /\ UNCHANGED <<Settings, wire, ack, in_buf, y_vals>>

SenderChunkSent ==
    /\ ~whole /\ pc[Sender] = "send" /\ ChunkDone(Sender)
    /\ NextRound(Sender, "recv")
    /\ UNCHANGED <<Settings, wire, ack, in_buf, out_buf, y_vals>>

\* The sender closes its sockets without waiting.
SenderAck_NoWait ==
    /\ pc[Sender] = "ack"
    /\ pc' = [pc EXCEPT ![Sender] = "done"]
    /\ UNCHANGED <<Settings, begin, pos, wire, ack, in_buf, out_buf, y_vals>>

SenderAck ==
    /\ pc[Sender] = "ack" /\ ack
    /\ pc' = [pc EXCEPT ![Sender] = "done"]
    /\ UNCHANGED <<Settings, begin, pos, wire, ack, in_buf, out_buf, y_vals>>

(***************************************************************************)
(* cg_batch_ole_receiver and cg_batch_ole_sender.                          *)
(***************************************************************************)
BatchEncryptX ==
    /\ whole /\ pc[Receiver] = "work"
    /\ out_buf' = [out_buf EXCEPT ![Receiver] =
         [i \in Index |-> Encrypt(Sk, X[i], Coin[Receiver][i])]]
    /\ Turn(Receiver, "send", 0)
    /\ UNCHANGED <<Settings, wire, ack, in_buf, y_vals>>

BatchDecrypt ==
    /\ whole /\ pc[Receiver] = "recv" /\ ChunkDone(Receiver)
    /\ y_vals' = [i \in Index |-> Decrypt(Sk, in_buf[Receiver][i])]
    /\ Turn(Receiver, "done", 0)
    /\ UNCHANGED <<Settings, wire, ack, in_buf, out_buf>>

\* The b_i are encrypted before the first ciphertext is read.
BatchEncryptB ==
    /\ whole /\ pc[Sender] = "work"
    /\ out_buf' = [out_buf EXCEPT ![Sender] =
         [i \in Index |-> Encrypt(Sk, B[i], Coin[Sender][i])]]
    /\ Turn(Sender, "recv", 0)
    /\ UNCHANGED <<Settings, wire, ack, in_buf, y_vals>>

BatchEvaluate ==
    /\ whole /\ pc[Sender] = "recv" /\ ChunkDone(Sender)
    /\ out_buf' = [out_buf EXCEPT ![Sender] =
         [i \in Index |-> Add(CMult(in_buf[Sender][i], A[i]), @[i])]]
    /\ Turn(Sender, "send", 0)
    /\ UNCHANGED <<Settings, wire, ack, in_buf, y_vals>>

\* The lanes are closed as soon as the answers are in them.
BatchClose ==
    /\ whole /\ pc[Sender] = "send" /\ ChunkDone(Sender)
    /\ Turn(Sender, "done", 0)
    /\ UNCHANGED <<Settings, wire, ack, in_buf, out_buf, y_vals>>

(***************************************************************************)
(* Timeouts.                                                               *)
(***************************************************************************)
\* Every lane p still has to serve is full or empty, or the peer's word is
\* missing.
Blocked(p) ==
    \/ pc[p] = "send" /\ ~ChunkDone(p)
         /\ \A l \in Lanes : LaneDone(p, l) \/ Len(wire[p][l]) = Cap
    \/ pc[p] = "recv" /\ ~ChunkDone(p)
         /\ \A l \in Lanes : LaneDone(p, l) \/ wire[Peer(p)][l] = <<>>
    \/ p = Sender /\ pc[p] = "ack" /\ ~ack

Stuck == \A p \in Procs : Blocked(p)

\* SO_RCVTIMEO and SO_SNDTIMEO end a process that is blocked for good; its
\* peer then finds the connection closed.
GiveUp(p) ==
    /\ Stuck \/ (Blocked(p) /\ pc[Peer(p)] = "failed")
    /\ pc' = [pc EXCEPT ![p] = "failed"]
    /\ UNCHANGED <<Settings, begin, pos, wire, ack, in_buf, out_buf, y_vals>>

Finished == (\A p \in Procs : pc[p] \in {"done", "failed"}) /\ UNCHANGED vars

ReceiverNext ==
    \/ ReceiverEncrypt \/ ReceiverChunkSent \/ ReceiverDecrypt \/ ReceiverAck
    \/ BatchEncryptX \/ BatchDecrypt
SenderNext ==
    \/ SenderEvaluate \/ SenderChunkSent \/ SenderAck
    \/ BatchEncryptB \/ BatchEvaluate \/ BatchClose
LaneNext(p, l) == LaneSend(p, l) \/ LaneRecv(p, l)

Progress ==
    \/ Setup \/ ReceiverNext \/ SenderNext
    \/ \E p \in Procs : GiveUp(p) \/ \E l \in Lanes : LaneNext(p, l)

Next == Progress \/ Finished

Spec == Init /\ [][Next]_vars

\* Someone who can go on, does; timeouts do expire.
Fairness == WF_vars(Progress)

FairSpec == Spec /\ Fairness

------------------------------------------------------------------------------
\* Type invariant.
TypeOK ==
    /\ whole \in Wholes /\ lanes \in LaneCounts /\ chunk \in [Procs -> ChunkSizes]
    /\ validate \in Validate /\ ack \in BOOLEAN
    /\ pc \in [Procs -> Places]
    /\ begin \in [Procs -> Index]
    /\ pos \in [Procs -> [Lanes -> 0..N]]
    /\ wire \in [Procs -> [Lanes -> Seq(Ciphertexts)]]
    /\ in_buf \in [Procs -> [Index -> Ciphertexts]]
    /\ out_buf \in [Procs -> [Index -> Ciphertexts]]
    /\ y_vals \in [Index -> Residues \cup {Unknown, Garbage}]

Matched == chunk[Receiver] = chunk[Sender]
InFlight(p) == \E l \in Lanes : wire[p][l] # <<>>

\* "Reading here prevents full-duplex socket-buffer deadlock": with equal
\* chunk sizes ciphertexts are never in flight in both directions at once, so
\* even buffers of one ciphertext cannot block the two ends on each other.
\* Unequal chunk sizes are stopped by the metadata check when it is enabled; the
\* whole-batch programs do not depend on them.
LockStep ==
    Matched \/ validate \/ whole => ~Stuck /\ ~(InFlight(Receiver) /\ InFlight(Sender))

\* "lets the sender avoid closing sockets while the receiver is still draining
\* the final response chunk": a sender that returns has been read completely.
SenderClosesLast ==
    ~whole /\ pc[Sender] = "done" =>
        ~InFlight(Sender) /\ \A i \in Index : y_vals[i] # Unknown

\* Whatever the chunk sizes are, validated or not, the receiver only stores
\* a_i x_i + b_i in place i, and has all of them when it returns.
OutputsCorrect ==
    /\ \A i \in Index : y_vals[i] \in {Unknown, Result(i)}
    /\ pc[Receiver] = "done" => \A i \in Index : y_vals[i] = Result(i)

(***************************************************************************)
(* Where the two processes are in each other's streams; with the properties*)
(* above, the inductive invariant of DirectOleProofs.                      *)
(***************************************************************************)
\* The index that p gives to lane l next, and the one that it takes from it next.
Given(p, l) ==
    IF pc[p] \in {"ack", "done"} THEN RfLaneEnd(N, lanes, l)
    ELSE Reached(N, lanes, l, IF pc[p] = "send" THEN pos[p][l]
                              ELSE IF pc[p] = "recv" /\ p = Receiver THEN End(p) ELSE begin[p])

Taken(p, l) ==
    IF pc[p] \in {"ack", "done"} THEN RfLaneEnd(N, lanes, l)
    ELSE Reached(N, lanes, l, IF pc[p] = "recv" THEN pos[p][l]
                              ELSE IF pc[p] = "send" /\ p = Sender THEN End(p) ELSE begin[p])

\* What index i encrypts on its way from p.
Plain(p, i) == IF p = Receiver THEN X[i] ELSE Result(i)

\* The ciphertexts on a lane are those its reader expects, in order, and the
\* writer goes on where they end, whatever the chunk sizes are.
Aligned ==
    \A p \in Procs : pc[p] # "failed" =>
        \A l \in Lanes : LET w == wire[Peer(p)][l] IN
            /\ Taken(p, l) + Len(w) <= RfLaneEnd(N, lanes, l)
            /\ pc[Peer(p)] # "failed" => Given(Peer(p), l) = Taken(p, l) + Len(w)
            /\ \A j \in 1..Len(w) : Encrypts(w[j], Sk, Plain(Peer(p), Taken(p, l) + j - 1))

\* Which places go together, and where the lanes are inside the chunk.
Placed(p) ==
    /\ pc[p] = "setup" => begin[p] = 0 /\ pos[p] = StartAt(0)
    /\ pc[p] = "work" /\ p = Sender => whole
    /\ whole => begin[p] = 0 /\ pc[p] # "ack"
    /\ pc[p] \in {"send", "recv"} => \A l \in Lanes :
         /\ StartAt(begin[p])[l] <= pos[p][l]
         /\ pos[p][l] <= Greatest(StartAt(begin[p])[l], SliceEnd(N, lanes, l, End(p)))

\* What p has received of the current chunk, and what it is about to send.
Received(p) ==
    pc[p] = "recv" => \A l \in Lanes : \A i \in Index :
        InChunk(p, i) /\ RfLaneBegin(N, lanes, l) <= i /\ i < Taken(p, l) =>
            Encrypts(in_buf[p][i], Sk, Plain(Peer(p), i))

Prepared(p) ==
    pc[p] = "send" => \A i \in Index :
        InChunk(p, i) => Encrypts(out_buf[p][i], Sk, Plain(p, i))

\* The results of the earlier chunks, Enc(b_i) of the whole-batch sender, and
\* what the acknowledgement stands for.
Kept ==
    /\ pc[Receiver] \in {"work", "send", "recv"} =>
         \A i \in Index : i < begin[Receiver] => y_vals[i] = Result(i)
    /\ pc[Receiver] = "ack" => \A i \in Index : y_vals[i] = Result(i)
    /\ whole /\ pc[Sender] = "recv" =>
         out_buf[Sender] = [i \in Index |-> Encrypt(Sk, B[i], Coin[Sender][i])]
    /\ ack => pc[Receiver] = "done"
    /\ ~whole /\ pc[Sender] = "done" => ack

\* The receiver has sent its chunk.
Sent == pc[Receiver] = "recv" \/ (pc[Receiver] = "send" /\ ChunkDone(Receiver))

\* The two loops are in the same round or the sender is one ahead, having
\* answered, or one behind, having answered without having noticed.
InTurn ==
    \/ /\ pc[Sender] \in {"work", "recv"}
       /\ \/ pc[Receiver] \in {"work", "send", "recv"} /\ begin[Receiver] = begin[Sender]
          \/ Sent /\ End(Receiver) = begin[Sender]
    \/ /\ pc[Sender] = "send"
       /\ \/ Sent /\ begin[Receiver] = begin[Sender]
          \/ /\ ChunkDone(Sender)
             /\ \/ pc[Receiver] \in {"work", "send", "recv"} /\ begin[Receiver] = End(Sender)
                \/ pc[Receiver] \in {"ack", "done"} /\ End(Sender) = N
    \/ /\ pc[Sender] \in {"ack", "done"}
       /\ (Sent /\ End(Receiver) = N) \/ pc[Receiver] \in {"ack", "done"}

Sync ==
    Matched \/ validate \/ whole =>
        \/ \A p \in Procs : pc[p] = "setup"
        \/ \A p \in Procs : pc[p] = "failed" /\ ~InFlight(p)
        \/ (Matched \/ whole) /\ InTurn

Flow ==
    /\ \A p \in Procs : Placed(p) /\ Received(p) /\ Prepared(p)
    /\ Aligned /\ Kept /\ Sync /\ OutputsCorrect

\* Equal settings lead both processes to a normal end; without validation the
\* whole-batch programs get there with unequal chunk sizes too, although the
\* sender closes its lanes while the receiver is still reading.
Completes == Matched \/ (whole /\ ~validate) ~> pc = [p \in Procs |-> "done"]
==============================================================================
