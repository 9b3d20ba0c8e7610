-------------------------------- MODULE RfOle --------------------------------
(***************************************************************************)
(* Batched RF-OLE: the receiver's rf_ole_batch_receive, the two reverse    *)
(* firewalls and the sender's rf_ole_batch_send, four processes in a row   *)
(* joined by `lanes` TCP connections per hop.  Round 1 carries the public  *)
(* key and Enc(x_i) from the receiver to the sender, round 2 carries       *)
(* Enc(a_i x_i + b_i) back.  Each firewall moves the stream from one key   *)
(* to another.                                                             *)
(*                                                                         *)
(* The model starts when the lanes are connected.  A crypto loop over one  *)
(* chunk is one step (ThreadPool shows that parallel_for completes each of *)
(* them); a lane's transfer of one ciphertext is one step, and the lanes   *)
(* of a transfer run concurrently (rf_parallel_io).  Socket buffers are    *)
(* bounded.  A process may die at any step, after which its peers' I/O     *)
(* fails.                                                                  *)
(***************************************************************************)
EXTENDS AHE, LaneRange, Sequences

CONSTANTS
    N,            \* number of OLEs, the same for all processes
    LaneCounts,   \* the values of CG_RF_LANES to consider
    ChunkSizes,   \* the values of CG_RF_CHUNK_SIZE to consider, per process
    Cap,          \* ciphertexts that fit into the buffers of one connection
    X, A, B,      \* the inputs: functions from indexes to residues
    Sk,           \* the receiver's secret key
    Maul,         \* Maul[p]: r_maul of the receiver's firewall, rho of the sender's
    Coin,         \* Coin[p][round][i]: encryption and rerandomisation coins
    MaxFailures,  \* bound: processes that die by themselves
    None          \* no key, no output yet

Index == 0..(N - 1)

Receiver == 1
RRF == 2          \* cg_rf_receiver_firewall_opa
SRF == 3          \* cg_rf_sender_firewall_opa
Sender == 4
Procs == Receiver..Sender
Firewalls == {RRF, SRF}
Links == {k \in Procs \X Procs : k[2] = k[1] + 1 \/ k[2] = k[1] - 1}

ASSUME CountAssumption == N \in Nat \ {0}
ASSUME LanesAssumption == LaneCounts \subseteq 1..MaxLanes
ASSUME ChunksAssumption == ChunkSizes \subseteq Nat \ {0}
ASSUME CapAssumption == Cap \in Nat \ {0}
ASSUME InputAssumption ==
    /\ X \in [Index -> Residues]
    /\ A \in [Index -> Residues]
    /\ B \in [Index -> Residues]
ASSUME KeyAssumption == Sk \in Int /\ Maul \in [Firewalls -> Int]
ASSUME CoinAssumption == Coin \in [Procs -> [{1, 2} -> [Index -> Int]]]
ASSUME FailureAssumption == MaxFailures \in Nat
ASSUME NoneAssumption == None \notin Int

VARIABLES
    lanes,     \* number of transport lanes
    chunk,     \* chunk[p]: CHUNK of process p
    phase,     \* phase[p]: the part of the protocol p is in
    step,      \* step[p]: p receives ("in") or sends ("out") the current chunk
    begin,     \* begin[p]: where that chunk starts
    pos,       \* pos[p][l]: the index that lane l of p transfers next
    key,       \* key[p]: the exponent of the public key p works with
    pkwire,    \* pkwire[p]: the public key p has sent downstream
    wire,      \* wire[<<p, q>>][l]: ciphertexts between p and q on lane l
    in_buf,    \* in_buf[p][i]: ciphertexts received
    out_buf,   \* out_buf[p][i]: ciphertexts to send
    enc_b,     \* enc_b[i]: pre_enc_b of the sender
    y_vals,    \* y_vals[i]: the receiver's outputs
    failures   \* number of processes that have died by themselves

vars == <<lanes, chunk, phase, step, begin, pos, key, pkwire, wire, in_buf,
          out_buf, enc_b, y_vals, failures>>

Phases == {"key", "r1", "compute", "r2", "done", "failed"}
Lanes == 0..(lanes - 1)
Ended(p) == phase[p] \in {"done", "failed"}

\* The chunk p is in: [begin, end).
End(p) == Least(N, begin[p] + chunk[p])
Chunk(p) == begin[p] .. (End(p) - 1)

\* Lane l has transferred its part of the chunk; all lanes have.
LaneDone(p, l) == pos[p][l] >= SliceEnd(N, lanes, l, End(p))
ChunkDone(p) == \A l \in Lanes : LaneDone(p, l)

\* The start of a transfer of the chunk at b: each lane at its own slice.
StartAt(b) == [l \in Lanes |-> SliceBegin(N, lanes, l, b)]

\* Where p receives from and sends to in its current round.
Source(p) == IF phase[p] = "r1" THEN p - 1 ELSE p + 1
Target(p) == IF phase[p] = "r1" THEN p + 1 ELSE p - 1

Init ==
    /\ lanes \in LaneCounts
    /\ chunk \in [Procs -> ChunkSizes]
    /\ phase = [p \in Procs |-> "key"]
    /\ step = [p \in Procs |-> "in"]
    /\ begin = [p \in Procs |-> 0]
    /\ pos = [p \in Procs |-> StartAt(0)]
    /\ key = [p \in Procs |-> IF p = Receiver THEN Sk ELSE None]
    /\ pkwire = [p \in Procs |-> None]
    /\ wire = [k \in Links |-> [l \in Lanes |-> <<>>]]
    /\ in_buf = [p \in Procs |-> [i \in Index |-> Blank]]
    /\ out_buf = [p \in Procs |-> [i \in Index |-> Blank]]
    /\ enc_b = [i \in Index |-> Blank]
    /\ y_vals = [i \in Index |-> None]
    /\ failures = 0

(***************************************************************************)
(* Public keys.                                                            *)
(***************************************************************************)
EnterR1(p) == phase' = [phase EXCEPT ![p] = "r1"]

ReceiverSendPk ==
    /\ phase[Receiver] = "key"
    /\ pkwire' = [pkwire EXCEPT ![Receiver] = key[Receiver]]
    /\ EnterR1(Receiver)
    /\ UNCHANGED <<lanes, chunk, step, begin, pos, key, wire, in_buf, out_buf,
                   enc_b, y_vals, failures>>

\* A firewall receives a public key and sends the mauled one on.
ForwardPk(p) ==
    /\ phase[p] = "key"
    /\ pkwire[p - 1] # None
    /\ key' = [key EXCEPT ![p] = pkwire[p - 1]]
    /\ pkwire' = [pkwire EXCEPT ![p] = MaulPk(pkwire[p - 1], Maul[p])]
    /\ EnterR1(p)
    /\ UNCHANGED <<lanes, chunk, step, begin, pos, wire, in_buf, out_buf,
                   enc_b, y_vals, failures>>

RrfForwardPk == ForwardPk(RRF)
SrfForwardPk == ForwardPk(SRF)

SenderRecvPk ==
    /\ phase[Sender] = "key"
    /\ pkwire[SRF] # None
    /\ key' = [key EXCEPT ![Sender] = pkwire[SRF]]
    /\ EnterR1(Sender)
    /\ UNCHANGED <<lanes, chunk, step, begin, pos, pkwire, wire, in_buf,
                   out_buf, enc_b, y_vals, failures>>

(***************************************************************************)
(* Lanes: recv_ct_lanes_range and send_ct_lanes_range, one ciphertext of   *)
(* one lane per step.                                                      *)
(***************************************************************************)
Transferring(p, s) == phase[p] \in {"r1", "r2"} /\ step[p] = s

LaneRecv(p, l) ==
    LET k == <<Source(p), p>> IN
    /\ Transferring(p, "in")
    /\ k \in Links          \* the receiver has no source in round 1
    /\ ~LaneDone(p, l)
    /\ wire[k][l] # <<>>
    /\ in_buf' = [in_buf EXCEPT ![p][pos[p][l]] = Head(wire[k][l])]
    /\ wire' = [wire EXCEPT ![k][l] = Tail(@)]
    /\ pos' = [pos EXCEPT ![p][l] = @ + 1]
    /\ UNCHANGED <<lanes, chunk, phase, step, begin, key, pkwire, out_buf,
                   enc_b, y_vals, failures>>

LaneSend(p, l) ==
    LET k == <<p, Target(p)>> IN
    /\ Transferring(p, "out")
    /\ ~LaneDone(p, l)
    /\ Len(wire[k][l]) < Cap
    /\ wire' = [wire EXCEPT ![k][l] = Append(@, out_buf[p][pos[p][l]])]
    /\ pos' = [pos EXCEPT ![p][l] = @ + 1]
    /\ UNCHANGED <<lanes, chunk, phase, step, begin, key, pkwire, in_buf,
                   out_buf, enc_b, y_vals, failures>>

\* The crypto loop over a chunk has filled out_buf: start sending it.
SendChunk(p, f) ==
    /\ out_buf' = [out_buf EXCEPT ![p] = [i \in Index |-> IF i \in Chunk(p) THEN f[i] ELSE @[i]]]
    /\ step' = [step EXCEPT ![p] = "out"]
    /\ pos' = [pos EXCEPT ![p] = StartAt(begin[p])]

\* The position is not reset between the rounds.
Advance_NoReset(p, phase_after, next_step) ==
    LET b == begin[p] + chunk[p] IN
    /\ begin' = [begin EXCEPT ![p] = b]
    /\ pos' = [pos EXCEPT ![p] = StartAt(b)]
    /\ step' = [step EXCEPT ![p] = next_step]
    /\ phase' = [phase EXCEPT ![p] = IF b >= N THEN phase_after ELSE @]

\* Go on with the next chunk, or with `phase_after` after the last one.
Advance(p, phase_after, next_step) ==
    LET last == begin[p] + chunk[p] >= N
        b == IF last THEN 0 ELSE begin[p] + chunk[p]
    IN
    /\ begin' = [begin EXCEPT ![p] = b]
    /\ pos' = [pos EXCEPT ![p] = StartAt(b)]
    /\ step' = [step EXCEPT ![p] = next_step]
    /\ phase' = [phase EXCEPT ![p] = IF last THEN phase_after ELSE @]

\* The lanes have sent a chunk.  Only the sender's second loop sends the next
\* chunk at once, the others prepare it first.
ChunkSent(p) ==
    /\ Transferring(p, "out")
    /\ ChunkDone(p)
    /\ Advance(p, IF phase[p] = "r1" THEN "r2" ELSE "done",
                  IF p = Sender THEN "out" ELSE "in")
    /\ UNCHANGED <<lanes, chunk, key, pkwire, wire, in_buf, out_buf, enc_b,
                   y_vals, failures>>

(***************************************************************************)
(* The crypto loops.                                                       *)
(***************************************************************************)
Crypto == <<lanes, chunk, begin, phase, key, pkwire, wire, in_buf, enc_b,
            y_vals, failures>>

ReceiverEncrypt ==
    /\ phase[Receiver] = "r1" /\ step[Receiver] = "in"
    /\ SendChunk(Receiver,
         [i \in Index |-> Encrypt(key[Receiver], X[i], Coin[Receiver][1][i])])
    /\ UNCHANGED Crypto

ChunkReceived(p, round) ==
    phase[p] = round /\ step[p] = "in" /\ ChunkDone(p)

\* Round 1 of a firewall: key[p] -> the key it has sent on, rerandomised
\* under the latter.
Forward(p) ==
    [i \in Index |->
        MaulFwdRerand(in_buf[p][i], Maul[p], EncZero(pkwire[p], Coin[p][1][i]))]

\* The randomisers of round 2 are taken under the mauled key.
Backward_WrongKey(p) ==
    [i \in Index |->
        MaulInvRerand(in_buf[p][i], Maul[p], EncZero(pkwire[p], Coin[p][2][i]))]

\* Round 2 of a firewall: back to key[p], rerandomised under it.
Backward(p) ==
    [i \in Index |->
        MaulInvRerand(in_buf[p][i], Maul[p], EncZero(key[p], Coin[p][2][i]))]

RrfRound1 ==
    /\ ChunkReceived(RRF, "r1")
    /\ SendChunk(RRF, Forward(RRF))
    /\ UNCHANGED Crypto

RrfRound2 ==
    /\ ChunkReceived(RRF, "r2")
    /\ SendChunk(RRF, Backward(RRF))
    /\ UNCHANGED Crypto

SrfRound1 ==
    /\ ChunkReceived(SRF, "r1")
    /\ SendChunk(SRF, Forward(SRF))
    /\ UNCHANGED Crypto

SrfRound2 ==
    /\ ChunkReceived(SRF, "r2")
    /\ SendChunk(SRF, Backward(SRF))
    /\ UNCHANGED Crypto

\* The sender answers as soon as it has received a chunk.
SenderCollect_Early ==
    /\ ChunkReceived(Sender, "r1")
    /\ phase' = [phase EXCEPT ![Sender] = "compute"]
    /\ pos' = [pos EXCEPT ![Sender] = StartAt(0)]
    /\ begin' = [begin EXCEPT ![Sender] = 0]
    /\ UNCHANGED <<lanes, chunk, step, key, pkwire, wire, in_buf, out_buf,
                   enc_b, y_vals, failures>>

\* The sender collects all of round 1, chunk by chunk.
SenderCollect ==
    /\ ChunkReceived(Sender, "r1")
    /\ Advance(Sender, "compute", "in")
    /\ UNCHANGED <<lanes, chunk, key, pkwire, wire, in_buf, out_buf, enc_b,
                   y_vals, failures>>

\* Meanwhile enc_b_worker encrypts every b_i.
EncryptB ==
    /\ phase[Sender] \in {"r1", "compute"}
    /\ enc_b = [i \in Index |-> Blank]
    /\ enc_b' = [i \in Index |-> Encrypt(key[Sender], B[i], Coin[Sender][1][i])]
    /\ UNCHANGED <<lanes, chunk, phase, step, begin, pos, key, pkwire, wire,
                   in_buf, out_buf, y_vals, failures>>

\* enc_b_worker is joined, then y_i = a_i x_i + b_i is computed for all i.
SenderCompute ==
    /\ phase[Sender] = "compute"
    /\ enc_b # [i \in Index |-> Blank]
    /\ out_buf' = [out_buf EXCEPT ![Sender] =
         [i \in Index |-> Add(CMult(in_buf[Sender][i], A[i]), enc_b[i])]]
    /\ phase' = [phase EXCEPT ![Sender] = "r2"]
    /\ step' = [step EXCEPT ![Sender] = "out"]
    /\ UNCHANGED <<lanes, chunk, begin, pos, key, pkwire, wire, in_buf, enc_b,
                   y_vals, failures>>

ReceiverDecrypt ==
    /\ ChunkReceived(Receiver, "r2")
    /\ y_vals' = [i \in Index |->
         IF i \in Chunk(Receiver) THEN Decrypt(Sk, in_buf[Receiver][i]) ELSE y_vals[i]]
    /\ Advance(Receiver, "done", "in")
    /\ UNCHANGED <<lanes, chunk, key, pkwire, wire, in_buf, out_buf, enc_b, failures>>

(***************************************************************************)
(* Failures.                                                               *)
(***************************************************************************)
Die(p) ==
    /\ phase' = [phase EXCEPT ![p] = "failed"]
    /\ UNCHANGED <<lanes, chunk, step, begin, pos, key, pkwire, wire, in_buf,
                   out_buf, enc_b, y_vals>>

\* An exception leaves main, an I/O timeout expires, or the process is killed.
Fail(p) ==
    /\ ~Ended(p)
    /\ failures < MaxFailures
    /\ failures' = failures + 1
    /\ Die(p)

\* A send to a dead peer blocks.
PeerFailed_RecvOnly(p) ==
    /\ \/ phase[p] = "key" /\ p # Receiver /\ phase[p - 1] = "failed"
       \/ Transferring(p, "in") /\ ~ChunkDone(p)
            /\ Source(p) \in Procs /\ phase[Source(p)] = "failed"
    /\ Die(p)
    /\ UNCHANGED failures

\* A dead peer is taken for the end of the stream.
PeerFailed_AsEnd(p) ==
    /\ Transferring(p, "in") /\ ~ChunkDone(p)
    /\ Source(p) \in Procs /\ phase[Source(p)] = "failed"
    /\ phase' = [phase EXCEPT ![p] = "done"]
    /\ UNCHANGED <<lanes, chunk, step, begin, pos, key, pkwire, wire, in_buf,
                   out_buf, enc_b, y_vals, failures>>

\* I/O with a dead peer throws.  What the peer had sent may be lost with it,
\* so a receive may fail even when the wire still holds data.
PeerFailed(p) ==
    /\ \/ phase[p] = "key" /\ p # Receiver /\ phase[p - 1] = "failed"
       \/ Transferring(p, "in") /\ ~ChunkDone(p)
            /\ Source(p) \in Procs /\ phase[Source(p)] = "failed"
       \/ Transferring(p, "out") /\ ~ChunkDone(p) /\ phase[Target(p)] = "failed"
    /\ Die(p)
    /\ UNCHANGED failures

Finished == (\A p \in Procs : Ended(p)) /\ UNCHANGED vars

ReceiverNext == ReceiverSendPk \/ ReceiverEncrypt \/ ReceiverDecrypt
RrfNext == RrfForwardPk \/ RrfRound1 \/ RrfRound2
SrfNext == SrfForwardPk \/ SrfRound1 \/ SrfRound2
SenderNext == SenderRecvPk \/ SenderCollect \/ EncryptB \/ SenderCompute

ProcNext(p) ==
    \/ p = Receiver /\ ReceiverNext
    \/ p = RRF /\ RrfNext
    \/ p = SRF /\ SrfNext
    \/ p = Sender /\ SenderNext
    \/ ChunkSent(p)
    \/ PeerFailed(p)

LaneNext(p, l) == LaneRecv(p, l) \/ LaneSend(p, l)

Progress == \E p \in Procs : ProcNext(p) \/ \E l \in Lanes : LaneNext(p, l)

Next ==
    \/ Progress
    \/ \E p \in Procs : Fail(p)
    \/ Finished

Spec == Init /\ [][Next]_vars

\* As long as some process or lane thread can go on, one of them does.  Which
\* one is left open: every step leads on, so nobody can be overtaken for ever.
Fairness == WF_vars(Progress)

FairSpec == Spec /\ Fairness

------------------------------------------------------------------------------
\* Type invariant.
TypeOK ==
    /\ lanes \in LaneCounts
    /\ chunk \in [Procs -> ChunkSizes]
    /\ phase \in [Procs -> Phases]
    /\ step \in [Procs -> {"in", "out"}]
    /\ begin \in [Procs -> Index]
    /\ pos \in [Procs -> [Lanes -> 0..N]]
    /\ key \in [Procs -> Int \cup {None}]
    /\ pkwire \in [Procs -> Int \cup {None}]
    /\ DOMAIN wire = Links
    /\ \A k \in Links : wire[k] \in [Lanes -> Seq(Ciphertexts)]
    /\ in_buf \in [Procs -> [Index -> Ciphertexts]]
    /\ out_buf \in [Procs -> [Index -> Ciphertexts]]
    /\ enc_b \in [Index -> Ciphertexts]
    /\ y_vals \in [Index -> Residues \cup {None, Garbage}]
    /\ failures \in 0..MaxFailures

(***************************************************************************)
(* Safety.                                                                 *)
(***************************************************************************)
\* The key under which ciphertexts travel between p and p + 1.
HopKey(p) ==
    Sk + (IF p >= RRF THEN Maul[RRF] ELSE 0) + (IF p >= SRF THEN Maul[SRF] ELSE 0)

\* What index i encrypts on its way to and from the sender.
Result(i) == (A[i] * X[i] + B[i]) % Q
Plain(k, i) == IF k[1] < k[2] THEN X[i] ELSE Result(i)

Round(k) == IF k[1] < k[2] THEN "r1" ELSE "r2"

\* p has not begun the round yet.
Before(p, round) == phase[p] = "key" \/ (round = "r2" /\ phase[p] \in {"r1", "compute"})

\* The index that the reader of link k takes next from lane l, and the one that
\* its writer gives to it next.
Awaited(k, l) ==
    LET p == k[2] IN
    IF Before(p, Round(k)) THEN RfLaneBegin(N, lanes, l)
    ELSE IF phase[p] # Round(k) THEN RfLaneEnd(N, lanes, l)
    ELSE Reached(N, lanes, l, IF step[p] = "in" THEN pos[p][l] ELSE End(p))

Offered(k, l) ==
    LET p == k[1] IN
    IF Before(p, Round(k)) THEN RfLaneBegin(N, lanes, l)
    ELSE IF phase[p] # Round(k) THEN RfLaneEnd(N, lanes, l)
    ELSE Reached(N, lanes, l, IF step[p] = "out" THEN pos[p][l] ELSE begin[p])

\* Although no ciphertext carries its index, the j-th one waiting on a lane is
\* the one for the j-th index its reader expects, encrypted under the key of
\* that hop, and the writer goes on where they end: whatever the chunk sizes of
\* the two ends are, a firewall never applies its shift to a stream that is
\* under another key.
StreamsAligned ==
    \A k \in Links : phase[k[2]] # "failed" =>
        \A l \in Lanes :
            /\ Awaited(k, l) + Len(wire[k][l]) <= RfLaneEnd(N, lanes, l)
            /\ phase[k[1]] # "failed" => Offered(k, l) = Awaited(k, l) + Len(wire[k][l])
            /\ \A j \in 1..Len(wire[k][l]) :
                 Encrypts(wire[k][l][j], HopKey(Least(k[1], k[2])),
                          Plain(k, Awaited(k, l) + j - 1))

\* "R2 is intentionally phase-separated from R1: both RF firewalls finish the
\* R1 key-mauling path before the sender's response path begins."
ForwardedAll(p) ==
    \/ phase[p] \in {"r2", "done", "failed"}
    \/ phase[p] = "r1" /\ step[p] = "out" /\ End(p) = N /\ ChunkDone(p)

PhaseSeparation ==
    (\E l \in Lanes : wire[<<Sender, SRF>>][l] # <<>>)
        => \A p \in Firewalls : ForwardedAll(p)

\* The receiver only ever stores a_i x_i + b_i, in the right place, and has
\* all of them when it returns, even if other processes have died.
OutputsCorrect ==
    /\ \A i \in Index : y_vals[i] \in {None, Result(i)}
    /\ phase[Receiver] = "done" => \A i \in Index : y_vals[i] = Result(i)

(***************************************************************************)
(* What the processes hold while the streams pass through them; with the   *)
(* properties above, the inductive invariant of RfOleProofs.               *)
(***************************************************************************)
\* Which places go together, and where the lanes are inside the chunk.
Placed(p) ==
    /\ phase[p] = "key" => step[p] = "in" /\ begin[p] = 0 /\ pos[p] = StartAt(0)
    /\ phase[p] = "compute" => p = Sender /\ begin[p] = 0 /\ pos[p] = StartAt(0)
    /\ phase[p] = "r2" /\ p = Receiver => step[p] = "in"
    /\ p = Sender /\ phase[p] = "r1" => step[p] = "in"
    /\ p = Sender /\ phase[p] = "r2" => step[p] = "out"
    /\ phase[p] \in {"r1", "r2"} => \A l \in Lanes :
         /\ StartAt(begin[p])[l] <= pos[p][l]
         /\ pos[p][l] <= Greatest(StartAt(begin[p])[l], SliceEnd(N, lanes, l, End(p)))

\* The public key has been shifted once by each firewall it has passed.
KeysChained ==
    /\ key[Receiver] = Sk
    /\ \A p \in Procs :
         /\ pkwire[p] \in {None, HopKey(p)}
         /\ phase[p] \in {"r1", "compute", "r2", "done"} =>
              key[p] = HopKey(p - 1) /\ (p # Sender => pkwire[p] = HopKey(p))

\* What a process has received in its current round is there, under its key.
Received(p, k) ==
    phase[p] = Round(k) \/ (p = Sender /\ phase[p] = "compute") =>
        \A l \in Lanes : \A i \in Index :
            RfLaneBegin(N, lanes, l) <= i /\ i < Awaited(k, l) =>
                Encrypts(in_buf[p][i], HopKey(Least(k[1], k[2])), Plain(k, i))

\* What a process is about to send is right.
Prepared(p) ==
    Transferring(p, "out") =>
        \A i \in Index : p = Sender \/ i \in Chunk(p) =>
            Encrypts(out_buf[p][i], HopKey(Least(p, Target(p))), Plain(<<p, Target(p)>>, i))

BuffersRight ==
    /\ \A k \in Links : Received(k[2], k)
    /\ \A p \in Procs : Prepared(p)
    /\ enc_b \in {[i \in Index |-> Blank],
                  [i \in Index |-> Encrypt(HopKey(SRF), B[i], Coin[Sender][1][i])]}
    /\ phase[Receiver] = "r2" =>
         \A i \in Index : i < begin[Receiver] => y_vals[i] = Result(i)

\* The sender's firewall passes on only what the receiver's firewall has sent,
\* and the sender answers only when both have forwarded everything, even if one
\* of them has died meanwhile.
Relayed ==
    /\ phase[Sender] # "failed" /\ phase[RRF] # "failed" => \A l \in Lanes :
         Awaited(<<SRF, Sender>>, l) + Len(wire[<<SRF, Sender>>][l]) <= Offered(<<RRF, SRF>>, l)
    /\ phase[Sender] \in {"compute", "r2", "done"} => \A p \in Firewalls : ForwardedAll(p)

Flow ==
    /\ \A p \in Procs : Placed(p)
    /\ KeysChained /\ BuffersRight /\ Relayed
    /\ StreamsAligned /\ PhaseSeparation /\ OutputsCorrect

(***************************************************************************)
(* Liveness.                                                               *)
(***************************************************************************)
\* With buffers for a single ciphertext, with any lane count and with
\* different chunk sizes, every process ends: the rounds cannot block each
\* other, and a death reaches all processes along the chain.
EveryoneEnds == <>(\A p \in Procs : Ended(p))
==============================================================================
