----------------------------- MODULE RelayChain -----------------------------
(***************************************************************************)
(* The protocols in which the key belongs to the sender's side and         *)
(* messages alternate in direction: three-round OLE, direct and through    *)
(* the two reverse firewalls, and the reveal-back phase of two-way PSI     *)
(* through the firewalls.  From left to right: sender (Party A in the      *)
(* reveal), S-RF, R-RF, receiver (Party B); a direct run has only the ends.*)
(*                                                                         *)
(*   pk ->   the public key             on lane 0                          *)
(*   a, b -> Enc(a_i), Enc(b_i)         sharded over the lanes             *)
(*   y <-    Enc(a_i x_i + b_i + r_i), or Enc(value of slot i)   likewise  *)
(*   z ->    the decrypted y_i, as plain integers on lane 0                *)
(*                                                                         *)
(* A program is a script of sends, receives and relays that one set of     *)
(* actions interprets.  The messages carry neither a kind nor an index on  *)
(* the wire; the model writes both in to see what a program takes them     *)
(* for.  The lanes are connected and their metadata, the common count N    *)
(* among it, agrees (LaneLink).  A loop of the thread pool is one step.    *)
(***************************************************************************)
EXTENDS AHE, LaneRange, Sequences, FiniteSets

CONSTANTS
    N,              \* n_oles, CG_RF_EXPECTED_N or CG_PSI2_REVEAL_BOUND
    Protocols,      \* the protocols to consider
    LaneCounts,     \* the values of CG_RF_LANES to consider
    ChunkSizes,     \* the values of CG_RF_CHUNK_SIZE to consider, per firewall
    Cap,            \* items that fit into one direction of a connection
    A, B, X, R,     \* a_vals, b_vals, x_vals, r_vals of OLE3
    ABlind, BBlind, \* a_blinds[p][i], b_blinds[p][i] of firewall p
    Sk, Maul,       \* the sender's secret key; rho of each firewall
    Coin,           \* Coin[p][m][i]: coins of p for item i of message m
    OwnValues,      \* own_values: the set of Party A
    Intersections,  \* the vectors `intersection` Party B may have read
    MaxFailures,    \* bound: processes that die by themselves
    None            \* not known yet

Index == 0..(N - 1)
Sender == 1
SRF == 2
RRF == 3
Receiver == 4
Procs == Sender..Receiver
Firewalls == {SRF, RRF}
Messages == {"pk", "a", "b", "y", "z"}

ASSUME ChainBounds ==
    /\ N \in Nat \ {0} /\ Cap \in Nat \ {0} /\ MaxFailures \in Nat
    /\ Protocols \subseteq {"ole3", "rf_ole3", "reveal"}
    /\ LaneCounts \subseteq 1..MaxLanes /\ ChunkSizes \subseteq 1..N
ASSUME ChainInputs ==
    /\ {A, B, X, R} \subseteq [Index -> Residues]
    /\ {ABlind, BBlind} \subseteq [Firewalls -> [Index -> Residues]]
    /\ Sk \in Int /\ Maul \in [Firewalls -> Int]
    /\ Coin \in [Procs -> [Messages -> [Index -> Int]]]
    /\ OwnValues \subseteq Residues
    /\ \A s \in Intersections : s \in Seq(Residues)
    /\ None \notin Int

VARIABLES
    protocol,      \* which programs run
    lanes,         \* number of transport lanes
    chunk,         \* chunk[p]: CHUNK of firewall p
    intersection,  \* what Party B has read
    line,          \* line[p]: the line of its script that p is at
    failed,        \* processes that have thrown or died
    step,          \* step[p]: p receives ("in") or sends ("out")
    begin,         \* begin[p]: where the chunk in hand starts
    pos,           \* pos[p][l]: the index that lane l of p transfers next
    wire,          \* wire[<<p, q>>][l]: items on their way from p to q
    key,           \* key[p]: the exponent of the public key p has
    got,           \* got[p][m][i]: item i of message m, as p has received it
    out,           \* out[p][i]: what p sends
    result,        \* out_vals of the OLE3 receiver, `intersection` of Party A
    examined,      \* slots of the reveal that Party A has looked at
    failures       \* number of processes that have died by themselves

inputs == <<protocol, lanes, chunk, intersection>>
vars == <<inputs, line, failed, step, begin, pos, wire, key, got, out, result, examined, failures>>

------------------------------------------------------------------------------
(***************************************************************************)
(* The programs: what each sends, receives, relays or checks, in the order *)
(* of its main().                                                          *)
(***************************************************************************)
Send(m) == [op |-> "send", msg |-> m]
Recv(m) == [op |-> "recv", msg |-> m]
Relay(m) == [op |-> "relay", msg |-> m]
Check == [op |-> "check", msg |-> "y"]

Ole3Sender == <<Send("pk"), Send("a"), Send("b"), Recv("y"), Send("z")>>

Ole3Receiver == <<Recv("pk"), Recv("a"), Recv("b"), Send("y"), Recv("z")>>
RfOle3Sender == <<Send("pk"), Send("a"), Send("b"), Recv("y"), Send("z")>>
RfOle3Receiver == <<Recv("pk"), Recv("a"), Recv("b"), Send("y"), Recv("z")>>

SenderFirewallOle3 == <<Relay("pk"), Relay("a"), Relay("b"), Relay("y"), Relay("z")>>

\* Enc(b) is taken for Enc(a).
ReceiverFirewallOle3_Swapped == <<Relay("pk"), Relay("b"), Relay("a"), Relay("y"), Relay("z")>>

ReceiverFirewallOle3 == <<Relay("pk"), Relay("a"), Relay("b"), Relay("y"), Relay("z")>>
RevealSender == <<Send("pk"), Recv("y")>>
RevealSrf == <<Relay("pk"), Relay("y")>>
RevealRrf == <<Relay("pk"), Relay("y")>>
RevealReceiver == <<Recv("pk"), Check, Send("y")>>

Script(p) ==
    CASE protocol = "ole3" -> <<Ole3Sender, <<>>, <<>>, Ole3Receiver>>[p]
      [] protocol = "rf_ole3" ->
           <<RfOle3Sender, SenderFirewallOle3, ReceiverFirewallOle3, RfOle3Receiver>>[p]
      [] protocol = "reveal" -> <<RevealSender, RevealSrf, RevealRrf, RevealReceiver>>[p]

\* The programs of this run, and p's neighbours.
Members == IF protocol = "ole3" THEN {Sender, Receiver} ELSE Procs
Right(p) == IF protocol = "ole3" THEN Receiver ELSE p + 1
Left(p) == IF protocol = "ole3" THEN Sender ELSE p - 1

Failed(p) == p \in failed
Over(p) == line[p] > Len(Script(p))
Done(p) == ~Failed(p) /\ Over(p)
Ended(p) == Failed(p) \/ Over(p)
Op(p) == Script(p)[line[p]].op
At(p, op) == ~Ended(p) /\ Op(p) = op
Msg(p) == Script(p)[line[p]].msg

Source(p) == IF Msg(p) = "y" THEN Right(p) ELSE Left(p)
Target(p) == IF Msg(p) = "y" THEN Left(p) ELSE Right(p)

(***************************************************************************)
(* Which items of a message go over which lane.                            *)
(***************************************************************************)
Lanes == 0..(lanes - 1)
Size(m) == IF m = "pk" THEN 1 ELSE N

\* Lane l's part of items b..e-1 of message m is First(m, l, b)..Last(m, l, e)-1.
First(m, l, b) == IF m \in {"pk", "z"} THEN b ELSE SliceBegin(N, lanes, l, b)
Last(m, l, e) ==
    IF m \in {"pk", "z"} THEN IF l = 0 THEN e ELSE 0 ELSE SliceEnd(N, lanes, l, e)
StartAt(m, b) == [l \in Lanes |-> First(m, l, b)]

\* Only the ciphertext relays work in chunks.
ChunkOf(p) ==
    IF Op(p) = "relay" /\ Msg(p) \notin {"pk", "z"} THEN chunk[p] ELSE Size(Msg(p))
End(p) == Least(Size(Msg(p)), begin[p] + ChunkOf(p))
InHand(p) == begin[p] .. (End(p) - 1)
LaneDone(p, l) == pos[p][l] >= Last(Msg(p), l, End(p))
ChunkDone(p) == \A l \in Lanes : LaneDone(p, l)

Receiving(p) == (At(p, "recv") \/ At(p, "relay")) /\ step[p] = "in"
Sending(p) == (At(p, "send") \/ At(p, "relay")) /\ step[p] = "out"

Init ==
    /\ protocol \in Protocols /\ lanes \in LaneCounts
    /\ chunk \in (IF protocol = "ole3" THEN {[p \in Firewalls |-> N]}
                  ELSE [Firewalls -> ChunkSizes])
    /\ intersection \in (IF protocol = "reveal" THEN Intersections ELSE {<<>>})
    /\ line = [p \in Procs |-> 1]
    /\ failed = {}
    /\ step = [p \in Procs |-> "in"]
    /\ begin = [p \in Procs |-> 0]
    /\ pos = [p \in Procs |-> StartAt("pk", 0)]
    /\ wire = [k \in Procs \X Procs |-> [l \in Lanes |-> <<>>]]
    /\ key = [p \in Procs |-> None]
    /\ got = [p \in Procs |-> [m \in Messages |-> [i \in Index |-> None]]]
    /\ out = [p \in Procs |-> [i \in Index |-> None]]
    /\ result = <<>> /\ examined = 0
    /\ failures = 0

(***************************************************************************)
(* Lanes: one item of one lane per step.                                   *)
(***************************************************************************)
\* An item takes the place of the peer's message that is awaited there.
LaneRecv(p, l) ==
    /\ Receiving(p) /\ ~LaneDone(p, l)
    /\ LET k == <<Source(p), p>> IN
         /\ wire[k][l] # <<>>
         /\ got' = [got EXCEPT ![p][Msg(p)][pos[p][l]] = Head(wire[k][l]).is]
         /\ wire' = [wire EXCEPT ![k][l] = Tail(@)]
    /\ pos' = [pos EXCEPT ![p][l] = @ + 1]
    /\ UNCHANGED <<inputs, line, failed, step, begin, key, out, result, examined, failures>>

LaneSend(p, l) ==
    /\ Sending(p) /\ ~LaneDone(p, l)
    /\ LET k == <<p, Target(p)>>
           i == pos[p][l]
       IN
         /\ Len(wire[k][l]) < Cap
         /\ wire' = [wire EXCEPT ![k][l] = Append(@, [msg |-> Msg(p), at |-> i, is |-> out[p][i]])]
    /\ pos' = [pos EXCEPT ![p][l] = @ + 1]
    /\ UNCHANGED <<inputs, line, failed, step, begin, key, got, out, result, examined, failures>>

\* p holds batch f (or its part in hand) and starts to send it.
StartSending(p, f) ==
    /\ out' = [out EXCEPT ![p] = [i \in Index |-> IF i \in InHand(p) THEN f[i] ELSE @[i]]]
    /\ step' = [step EXCEPT ![p] = "out"]
    /\ pos' = [pos EXCEPT ![p] = StartAt(Msg(p), begin[p])]
    /\ UNCHANGED <<inputs, line, failed, begin, wire, key, got, result, examined, failures>>

\* p goes on to the next line.
NextLine(p) ==
    /\ line' = [line EXCEPT ![p] = @ + 1]
    /\ step' = [step EXCEPT ![p] = "in"]
    /\ begin' = [begin EXCEPT ![p] = 0]
    /\ pos' = [pos EXCEPT ![p] = IF line'[p] > Len(Script(p)) THEN @
                                 ELSE StartAt(Script(p)[line'[p]].msg, 0)]

NextChunk(p) ==
    LET b == End(p) IN
    /\ begin' = [begin EXCEPT ![p] = b]
    /\ pos' = [pos EXCEPT ![p] = StartAt(Msg(p), b)]
    /\ step' = [step EXCEPT ![p] = "in"]
    /\ UNCHANGED line

\* The lanes have sent what was in hand.
Sent(p) ==
    /\ Sending(p) /\ ChunkDone(p)
    /\ IF End(p) < Size(Msg(p)) THEN NextChunk(p) ELSE NextLine(p)
    /\ UNCHANGED <<inputs, failed, wire, key, got, out, result, examined, failures>>

------------------------------------------------------------------------------
(***************************************************************************)
(* What the ends send.                                                     *)
(***************************************************************************)
EncA == [i \in Index |-> Encrypt(Sk, A[i], Coin[Sender]["a"][i])]
EncB == [i \in Index |-> Encrypt(Sk, B[i], Coin[Sender]["b"][i])]

\* The mask is left out.
MaskedY_NoMask ==
    LET enc == got[Receiver] IN
    [i \in Index |-> Add(CMult(enc["a"][i], X[i]), enc["b"][i])]

\* Enc(a_i x_i + b_i + r_i)
MaskedY ==
    LET enc == got[Receiver] IN
    [i \in Index |-> Add(Add(CMult(enc["a"][i], X[i]), enc["b"][i]),
                         Encrypt(key[Receiver], R[i], Coin[Receiver]["y"][i]))]

\* z_vals
DecryptedY == [i \in Index |-> Decrypt(Sk, got[Sender]["y"][i])]
Plain(values) == [i \in Index |-> [plain |-> values[i]]]

\* The intersection of Party B, then zeros.
Slot(i) == IF i < Len(intersection) THEN intersection[i + 1] ELSE 0
RevealSlots == [i \in Index |-> Encrypt(key[Receiver], Slot(i), Coin[Receiver]["y"][i])]

Batch(p) ==
    CASE Msg(p) = "pk" -> [i \in Index |-> [key |-> Sk]]
      [] Msg(p) = "a" -> EncA
      [] Msg(p) = "b" -> EncB
      [] Msg(p) = "y" -> IF protocol = "reveal" THEN RevealSlots ELSE MaskedY
      [] Msg(p) = "z" -> Plain(DecryptedY)

Prepare(p) == At(p, "send") /\ step[p] = "in" /\ StartSending(p, Batch(p))

(***************************************************************************)
(* What the ends do with what they have received.                          *)
(***************************************************************************)
\* The difference is not reduced.
Unmasked_NoMod == [n \in 1..N |-> got[Receiver]["z"][n - 1].plain - R[n - 1]]

\* out_vals of the OLE3 receiver
Unmasked == [n \in 1..N |-> (got[Receiver]["z"][n - 1].plain - R[n - 1]) % Q]

\* Values of other parties' sets are kept.
Keeps_Unfiltered(v) == \A j \in DOMAIN result : result[j] # v

\* Party A keeps each value of its own set once.
Keeps(v) == v \in OwnValues /\ \A j \in DOMAIN result : result[j] # v

\* Party A has all slots and looks at them one by one.
Filtering(p) == protocol = "reveal" /\ At(p, "recv") /\ Msg(p) = "y" /\ ChunkDone(p)

Examine(p) ==
    /\ Filtering(p) /\ examined < N
    /\ examined' = examined + 1
    /\ LET v == DecryptedY[examined] IN
         result' = IF Keeps(v) THEN Append(result, v) ELSE result
    /\ UNCHANGED <<inputs, line, failed, step, begin, pos, wire, key, got, out, failures>>

Received(p) ==
    /\ At(p, "recv") /\ ChunkDone(p) /\ (Filtering(p) => examined = N)
    /\ key' = IF Msg(p) = "pk" THEN [key EXCEPT ![p] = got[p]["pk"][0].key] ELSE key
    /\ result' = IF Msg(p) = "z" THEN Unmasked ELSE result
    /\ NextLine(p)
    /\ UNCHANGED <<inputs, failed, wire, got, out, examined, failures>>

\* "intersection larger than CG_PSI2_REVEAL_BOUND" is thrown only after the
\* key has come, when everyone else is already waiting.
CheckBound(p) ==
    /\ At(p, "check")
    /\ IF Len(intersection) > N
       THEN failed' = failed \cup {p} /\ UNCHANGED <<line, step, begin, pos>>
       ELSE NextLine(p) /\ UNCHANGED failed
    /\ UNCHANGED <<inputs, wire, key, got, out, result, examined, failures>>

(***************************************************************************)
(* What the firewalls relay.  A firewall works with the key it received    *)
(* and with the mauled one it has passed on.                               *)
(***************************************************************************)
KeyIn(p) == got[p]["pk"][0].key
KeyOut(p) == MaulPk(KeyIn(p), Maul[p])

\* transform_ct_fwd_with_additive_blind_batch
FwdWithBlind(p) ==
    [i \in Index |->
        MaulFwdRerand(Add(got[p]["a"][i], Encrypt(KeyIn(p), ABlind[p][i], Coin[p]["z"][i])),
                      Maul[p], EncZero(KeyOut(p), Coin[p]["a"][i]))]

\* transform_ct_fwd_batch
Fwd(p) ==
    [i \in Index |->
        MaulFwdRerand(got[p]["b"][i], Maul[p], EncZero(KeyOut(p), Coin[p]["b"][i]))]

\* transform_ct_inv_batch, and the loops of the reveal firewalls
Inv(p) ==
    [i \in Index |->
        MaulInvRerand(got[p]["y"][i], Maul[p], EncZero(KeyIn(p), Coin[p]["y"][i]))]

\* add_plain_blind_mod_ole3
PlainBlind(p) == Plain([i \in Index |-> (got[p]["z"][i].plain + BBlind[p][i]) % Q])

\* Items that have not come yet are not looked at.
Relayed(p) ==
    CASE Msg(p) = "pk" -> [i \in Index |-> [key |-> KeyOut(p)]]
      [] Msg(p) = "a" -> FwdWithBlind(p)
      [] Msg(p) = "b" -> Fwd(p)
      [] Msg(p) = "y" -> Inv(p)
      [] Msg(p) = "z" -> PlainBlind(p)

Transform(p) ==
    /\ At(p, "relay") /\ step[p] = "in" /\ ChunkDone(p)
    /\ StartSending(p, Relayed(p))

------------------------------------------------------------------------------
(***************************************************************************)
(* Failures.                                                               *)
(***************************************************************************)
Die(p) ==
    /\ failed' = failed \cup {p}
    /\ UNCHANGED <<inputs, line, step, begin, pos, wire, key, got, out, result, examined>>

\* An exception leaves main, an I/O timeout expires, or the process is killed.
Fail(p) ==
    /\ ~Ended(p) /\ failures < MaxFailures
    /\ failures' = failures + 1
    /\ Die(p)

\* Only a receive notices that the peer is gone.
PeerFailed_RecvOnly(p) ==
    /\ Receiving(p) /\ ~ChunkDone(p) /\ Failed(Source(p))
    /\ Die(p) /\ UNCHANGED failures

\* I/O with a dead peer throws; what it had sent may be lost with it.
PeerFailed(p) ==
    /\ \/ Receiving(p) /\ ~ChunkDone(p) /\ Failed(Source(p))
       \/ Sending(p) /\ ~ChunkDone(p) /\ Failed(Target(p))
    /\ Die(p) /\ UNCHANGED failures

Finished == (\A p \in Members : Ended(p)) /\ UNCHANGED vars

Progress ==
    \E p \in Members :
      \/ Prepare(p) \/ Transform(p) \/ Sent(p) \/ Received(p) \/ CheckBound(p) \/ Examine(p)
      \/ PeerFailed(p)
      \/ \E l \in Lanes : LaneRecv(p, l) \/ LaneSend(p, l)

Next == Progress \/ (\E p \in Members : Fail(p)) \/ Finished

\* As long as some process or lane thread can go on, one of them does.  Every
\* step leads on, so nobody is overtaken for ever.
Spec == Init /\ [][Next]_vars /\ WF_vars(Progress)

------------------------------------------------------------------------------
\* What the wire carries: a key, a ciphertext or a plain integer.
Contents == [key : Int] \cup Ciphertexts \cup [plain : Residues]
Items == [msg : Messages, at : Index, is : Contents]

\* Type invariant.
TypeOK ==
    /\ protocol \in Protocols /\ lanes \in LaneCounts
    /\ chunk \in [Firewalls -> 1..N] /\ intersection \in Seq(Residues)
    /\ line \in [Procs -> 1..6] /\ failed \subseteq Members
    /\ step \in [Procs -> {"in", "out"}] /\ begin \in [Procs -> 0..N]
    /\ pos \in [Procs -> [Lanes -> 0..N]]
    /\ wire \in [Procs \X Procs -> [Lanes -> Seq(Items)]]
    /\ \A k \in Procs \X Procs : \A l \in Lanes : Len(wire[k][l]) <= Cap
    /\ key \in [Procs -> Int \cup {None}]
    /\ got \in [Procs -> [Messages -> [Index -> Contents \cup {None}]]]
    /\ out \in [Procs -> [Index -> Contents \cup {None}]]
    /\ result \in Seq(Residues \cup {Garbage}) /\ examined \in 0..N
    /\ failures \in 0..MaxFailures

\* Five kinds of messages share the lanes untagged: whatever a program takes
\* from a lane is the item, of the message, that it takes it for.  Hence a
\* firewall never blinds b instead of a, or shifts a ciphertext twice, and no
\* key or plain integer is read where a ciphertext was sent.
InTurn ==
    \A p \in Members : Receiving(p) =>
        \A l \in Lanes :
            LET w == wire[<<Source(p), p>>][l] IN
            ~LaneDone(p, l) /\ w # <<>> =>
                Head(w).msg = Msg(p) /\ Head(w).at = pos[p][l]

\* cg_check_batch_ole: the blinds of the firewalls that take part, and the
\* output it expects from the sender's and the receiver's dumps.
BlindSum(blind, i) == IF protocol = "ole3" THEN 0 ELSE (blind[SRF][i] + blind[RRF][i]) % Q
CheckedOutput(i) ==
    LET a == (A[i] + BlindSum(ABlind, i)) % Q
        b == (B[i] + BlindSum(BBlind, i)) % Q
    IN  (a * X[i] + b) % Q

\* "verify the sanitized OLE relation": whoever dies, the receiver has either
\* no outputs or all (a_i + a'_i + a''_i) x_i + b_i + b'_i + b''_i; and its
\* mask hides the result from the sender, whose z_i is off by exactly r_i.
Ole3Exact ==
    protocol # "reveal" =>
        /\ result # <<>> => result = [n \in 1..N |-> CheckedOutput(n - 1)]
        /\ line[Sender] > 4 => \A i \in Index :
             DecryptedY[i] = ((A[i] + BlindSum(ABlind, i)) * X[i] + B[i] + R[i]) % Q

\* A value is listed once and later than those that Party B has sent before it.
InOrder ==
    \A j, k \in DOMAIN result : j < k =>
        \E n \in Index : Slot(n) = result[j] /\ \A i \in 0..n : Slot(i) # result[k]

\* When Party A ends normally it has exactly those of Party B's values that it
\* owns, in order and once, and apart from them only a zero of its own set if
\* a slot was padded.  If B has more values than slots, A never ends normally:
\* there is no truncated output.
RevealExact ==
    protocol = "reveal" /\ Done(Sender) =>
        /\ Len(intersection) <= N
        /\ {result[j] : j \in DOMAIN result} =
             OwnValues \cap ({intersection[n] : n \in DOMAIN intersection}
                              \cup (IF Len(intersection) < N THEN {0} ELSE {}))
        /\ InOrder

(***************************************************************************)
(* What the programs hold while the streams pass through them; with the    *)
(* types, the inductive invariant of RelayChainProofs.                     *)
(***************************************************************************)
\* The messages of the protocol in the order of all scripts, and how far p is.
Carried == IF protocol = "reveal" THEN {"pk", "y"} ELSE Messages
Rank == [pk |-> 1, a |-> 2, b |-> 3, y |-> 4, z |-> 5]
Stage(p) == IF Over(p) THEN 6 ELSE Rank[Msg(p)]

\* Lane l's part of a message, and where the lane is in it when everything
\* below i has been transferred.
From(m, l) == First(m, l, 0)
Upto(m, l) == Last(m, l, Size(m))
Where(m, l, i) == Least(Upto(m, l), Greatest(From(m, l), i))

\* The item of message m that lane l of p receives ("in") or sends ("out") next.
Cursor(p, m, l, dir) ==
    IF Rank[m] > Stage(p) THEN From(m, l)
    ELSE IF Rank[m] < Stage(p) THEN Upto(m, l)
    ELSE Where(m, l, IF step[p] = dir THEN pos[p][l]
                     ELSE IF dir = "in" THEN End(p) ELSE begin[p])

\* Of a stream of several messages: the items of m, and those before m.
Span(m, l) == IF m \in Carried THEN Upto(m, l) - From(m, l) ELSE 0
Before(m, l) ==
    CASE m = "a" -> Span("pk", l)
      [] m = "b" -> Span("pk", l) + Span("a", l)
      [] m = "z" -> Span("pk", l) + Span("a", l) + Span("b", l)
      [] OTHER -> 0

\* The number of items that p has handled on a lane, from or to a neighbour.
Handled(p, m, l, dir) == IF m \in Carried THEN Cursor(p, m, l, dir) - From(m, l) ELSE 0
Total(p, l, dir, back) ==
    IF back THEN Handled(p, "y", l, dir)
    ELSE Handled(p, "pk", l, dir) + Handled(p, "a", l, dir)
           + Handled(p, "b", l, dir) + Handled(p, "z", l, dir)

\* Links join neighbours; the y_i go from right to left.
Back(k) == k[2] < k[1]
Hop(k) == Least(k[1], k[2])
Links == {k \in Members \X Members : k[1] # k[2] /\ Right(Hop(k)) = Greatest(k[1], k[2])}
Given(k, l) == Total(k[1], l, "out", Back(k))
Taken(k, l) == Total(k[2], l, "in", Back(k))

\* What item i of message m is between h and its right neighbour.
HopKey(h) ==
    IF h = Sender THEN Sk
    ELSE IF h = SRF THEN MaulPk(Sk, Maul[SRF]) ELSE MaulPk(MaulPk(Sk, Maul[SRF]), Maul[RRF])
Blinded(h, v, blind) ==
    IF h = Sender THEN v
    ELSE IF h = SRF THEN (v + blind[SRF]) % Q ELSE (((v + blind[SRF]) % Q) + blind[RRF]) % Q
AValue(h, i) == Blinded(h, A[i], [p \in Firewalls |-> ABlind[p][i]])
YValue(i) ==
    IF protocol = "reveal" THEN Slot(i)
    ELSE (AValue(Left(Receiver), i) * X[i] + B[i] + R[i]) % Q
ZValue(h, i) == Blinded(h, YValue(i), [p \in Firewalls |-> BBlind[p][i]])
Enciphers(c, k, v) == c \in Ciphertexts /\ Encrypts(c, k, v)

IsRight(h, m, i, c) ==
    CASE m = "pk" -> c = [key |-> HopKey(h)]
      [] m = "a" -> Enciphers(c, HopKey(h), AValue(h, i))
      [] m = "b" -> Enciphers(c, HopKey(h), B[i])
      [] m = "y" -> /\ Enciphers(c, HopKey(h), YValue(i))
                    /\ protocol = "reveal" => Len(intersection) <= N
      [] m = "z" -> c = [plain |-> ZValue(h, i)]

\* The n-th item of lane l on link k is x.
IsItem(k, l, n, x) ==
    \A m \in Carried : (m = "y" <=> Back(k)) /\ Before(m, l) < n /\ n <= Before(m, l) + Span(m, l) =>
        /\ x.msg = m /\ x.at = From(m, l) + (n - 1 - Before(m, l))
        /\ IsRight(Hop(k), m, x.at, x.is)

\* What has been written is what has been read and what is on its way.
Aligned ==
    \A k \in Links : \A l \in Lanes :
        /\ Given(k, l) = Taken(k, l) + Len(wire[k][l])
        /\ \A j \in 1..Len(wire[k][l]) : IsItem(k, l, Taken(k, l) + j, wire[k][l][j])

\* Where p can be, and where its lanes are inside the chunk in hand.
Placed(p) ==
    /\ line[p] <= Len(Script(p)) + 1
    /\ step[p] = "out" => ~Over(p) /\ Op(p) \in {"send", "relay"}
    /\ Over(p) \/ Op(p) # "relay" => begin[p] = 0
    /\ ~Over(p) =>
         /\ begin[p] < Size(Msg(p))
         /\ \A l \in Lanes :
              /\ First(Msg(p), l, begin[p]) <= pos[p][l]
              /\ pos[p][l] = First(Msg(p), l, begin[p]) \/ pos[p][l] <= Last(Msg(p), l, End(p))

\* What p has received is right, and so is what it is about to send.
HopIn(p, m) == IF m = "y" THEN p ELSE Left(p)
HopOut(p, m) == IF m = "y" THEN Left(p) ELSE p
Held(p) ==
    /\ \A m \in Carried : p # (IF m = "y" THEN Receiver ELSE Sender) =>
         \A l \in Lanes : \A i \in Index : From(m, l) <= i /\ i < Cursor(p, m, l, "in") =>
             IsRight(HopIn(p, m), m, i, got[p][m][i])
    /\ p = Receiver /\ Stage(p) > 1 => key[p] = HopKey(Left(p))
Prepared(p) ==
    step[p] = "out" => \A i \in InHand(p) : IsRight(HopOut(p, Msg(p)), Msg(p), i, out[p][i])

\* What the ends have computed.  Party A has all slots when it looks at one.
Outputs ==
    /\ protocol # "reveal" =>
         result = IF Over(Receiver) THEN [n \in 1..N |-> CheckedOutput(n - 1)] ELSE <<>>
    /\ protocol = "reveal" =>
         /\ line[Receiver] > 2 => Len(intersection) <= N
         /\ Over(Sender) => examined = N
         /\ examined > 0 => \A l \in Lanes : Cursor(Sender, "y", l, "in") = Upto("y", l)
         /\ {result[j] : j \in DOMAIN result} = OwnValues \cap {Slot(n) : n \in 0..(examined - 1)}
         /\ InOrder

Flow ==
    /\ \A p \in Members : Placed(p) /\ Held(p) /\ Prepared(p)
    /\ Aligned /\ Outputs

\* Everybody ends: normally, unless a process has died or Party B has too many
\* values.  Neither bounded buffers nor the late check of the bound leave a
\* program waiting.
EveryoneEnds ==
    <>(/\ \A p \in Members : Ended(p)
       /\ failed = {} \/ failures > 0 \/ Len(intersection) > N)
=============================================================================
