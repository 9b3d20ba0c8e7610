---------------------------- MODULE StandaloneOle ----------------------------
(***************************************************************************)
(* The four standalone RF-OLE programs cg_receiver, cg_rrf, cg_srf and     *)
(* cg_sender: one connection per hop, one ciphertext at a time.  Unlike    *)
(* rf_ole_batch_send (RfOle), cg_sender answers each ciphertext before it  *)
(* reads the next one, while the firewalls forward all of round 1 before   *)
(* they read any of round 2.                                               *)
(*                                                                         *)
(* The model starts when the connections exist.  The count and the public  *)
(* key are sent back to back and are one message here.  Sockets are        *)
(* bounded in both directions, and a blocked send or receive times out     *)
(* (SO_SNDTIMEO, SO_RCVTIMEO), which ends the process.                     *)
(***************************************************************************)
EXTENDS AHE, Sequences

CONSTANTS
    Counts,       \* the values of n_oles given to the receiver and the sender
    Cap,          \* messages that fit into one direction of a connection
    X, A, B,      \* the inputs, functions on Index
    Sk, Maul,     \* the receiver's key, and gamma and rho of the firewalls
    Coin          \* Coin[p][round][i]: encryption and rerandomisation coins

Receiver == 1
RRF == 2
SRF == 3
Sender == 4
Procs == Receiver..Sender
Firewalls == {RRF, SRF}
Links == {k \in Procs \X Procs : k[2] = k[1] + 1 \/ k[2] = k[1] - 1}

Index == UNION {0..(n - 1) : n \in Counts}

ASSUME StandaloneCounts == Counts \subseteq Nat \ {0}
ASSUME StandaloneCap == Cap \in Nat \ {0}
ASSUME StandaloneInputs ==
    /\ X \in [Index -> Residues] /\ A \in [Index -> Residues] /\ B \in [Index -> Residues]
    /\ Sk \in Int /\ Maul \in [Firewalls -> Int]
    /\ Coin \in [Procs -> [{1, 2} -> [Index -> Int]]]

VARIABLES
    n,       \* n[p]: n_oles of p; 0 while a firewall has not received it
    pc,      \* pc[p]: the I/O p is at
    i,       \* i[p]: the loop counter
    key,     \* key[p]: the public key that p has received
    held,    \* held[p]: the ciphertext p is about to send
    wire,    \* wire[<<p, q>>]: messages on their way from p to q
    results, \* results[j]: the receiver's outputs, those before i
    ver      \* ver[p]: the verdict p knows, 0 or 1

vars == <<n, pc, i, key, held, wire, results, ver>>

\* A count and a public key, a ciphertext, or the verdict.
Messages == [count : Counts, pk : Int] \cup Ciphertexts \cup [verdict : {0, 1}]

Places == {"header", "r1in", "r1out", "r2in", "r2out", "verdict", "done", "failed"}
Ended(p) == pc[p] \in {"done", "failed"}

Result(j) == (A[j] * X[j] + B[j]) % Q

\* The key a firewall sends on.
Mauled(p) == MaulPk(key[p], Maul[p])

Init ==
    /\ n \in [Procs -> Counts \cup {0}]
    /\ \A p \in Procs : (n[p] = 0) <=> (p \in Firewalls)
    /\ pc = [p \in Procs |-> "header"]
    /\ i = [p \in Procs |-> 0]
    /\ key = [p \in Procs |-> IF p = Receiver THEN Sk ELSE 0]
    /\ held = [p \in Procs |-> Blank]
    /\ wire = [k \in Links |-> <<>>]
    /\ results = <<>>
    /\ ver = [p \in Procs |-> 0]

(***************************************************************************)
(* I/O.                                                                    *)
(***************************************************************************)
CanRecv(p, q) == wire[<<q, p>>] # <<>>
CanSend(p, q) == Len(wire[<<p, q>>]) < Cap
Message(p, q) == Head(wire[<<q, p>>])
Take(p, q) == wire' = [wire EXCEPT ![<<q, p>>] = Tail(@)]
Put(p, q, m) == wire' = [wire EXCEPT ![<<p, q>>] = Append(@, m)]
TakeAndPut(p, from, to, m) ==
    wire' = [wire EXCEPT ![<<from, p>>] = Tail(@), ![<<p, to>>] = Append(@, m)]

Goto(p, place) == pc' = [pc EXCEPT ![p] = place]

\* The peer that p waits for, to receive from or to send to.
RecvPeer(p) ==
    CASE pc[p] \in {"header", "verdict"} /\ p # Receiver -> {p - 1}
      [] pc[p] = "r1in" -> {p - 1}
      [] pc[p] = "r2in" -> {p + 1}
      [] OTHER -> {}
SendPeer(p) ==
    CASE pc[p] \in {"header", "verdict"} /\ p # Sender -> {p + 1}
      [] pc[p] = "r1out" -> {p + 1}
      [] pc[p] = "r2out" -> {p - 1}
      [] OTHER -> {}

Blocked(p) ==
    \/ \E q \in RecvPeer(p) : ~CanRecv(p, q)
    \/ \E q \in SendPeer(p) : ~CanSend(p, q)

(***************************************************************************)
(* cg_receiver                                                             *)
(***************************************************************************)
ReceiverHeader ==
    /\ pc[Receiver] = "header"
    /\ Put(Receiver, RRF, [count |-> n[Receiver], pk |-> Sk])
    /\ Goto(Receiver, "r1out")
    /\ UNCHANGED <<n, i, key, held, results, ver>>

\* One iteration too many.
Loop_OffByOne(p, again, after) ==
    LET last == i[p] >= n[p] IN
    /\ i' = [i EXCEPT ![p] = IF last THEN 0 ELSE @ + 1]
    /\ Goto(p, IF last THEN after ELSE again)

\* The end of a loop body: the next index at `again`, or `after` from 0.
Loop(p, again, after) ==
    LET last == i[p] + 1 >= n[p] IN
    /\ i' = [i EXCEPT ![p] = IF last THEN 0 ELSE @ + 1]
    /\ Goto(p, IF last THEN after ELSE again)

\* The receiver waits for an answer before it sends the next ciphertext.
ReceiverSend_Interleaved ==
    /\ pc[Receiver] = "r1out"
    /\ CanSend(Receiver, RRF)
    /\ Put(Receiver, RRF, Encrypt(Sk, X[i[Receiver]], Coin[Receiver][1][i[Receiver]]))
    /\ Goto(Receiver, "r2in")
    /\ UNCHANGED <<n, i, key, held, results, ver>>

\* All Enc(x_i) are precomputed.
ReceiverSend ==
    /\ pc[Receiver] = "r1out"
    /\ CanSend(Receiver, RRF)
    /\ Put(Receiver, RRF, Encrypt(Sk, X[i[Receiver]], Coin[Receiver][1][i[Receiver]]))
    /\ Loop(Receiver, "r1out", "r2in")
    /\ UNCHANGED <<n, key, held, results, ver>>

ReceiverRecv ==
    /\ pc[Receiver] = "r2in"
    /\ CanRecv(Receiver, RRF)
    /\ results' = Append(results, Decrypt(Sk, Message(Receiver, RRF)))
    /\ Take(Receiver, RRF)
    /\ Loop(Receiver, "r2in", "verdict")
    /\ UNCHANGED <<n, key, held, ver>>

\* The receiver recomputes every a_i x_i + b_i and sends the verdict.
ReceiverVerdict ==
    LET verified == IF \A j \in 0..(n[Receiver] - 1) : results[j + 1] = Result(j)
                    THEN 1 ELSE 0
    IN
    /\ pc[Receiver] = "verdict"
    /\ CanSend(Receiver, RRF)
    /\ Put(Receiver, RRF, [verdict |-> verified])
    /\ ver' = [ver EXCEPT ![Receiver] = verified]
    /\ Goto(Receiver, "done")
    /\ UNCHANGED <<n, i, key, held, results>>

(***************************************************************************)
(* cg_rrf and cg_srf                                                       *)
(***************************************************************************)
FirewallHeader(p) ==
    /\ pc[p] = "header"
    /\ CanRecv(p, p - 1) /\ CanSend(p, p + 1)
    /\ LET m == Message(p, p - 1) IN
         /\ n' = [n EXCEPT ![p] = m.count]
         /\ key' = [key EXCEPT ![p] = m.pk]
         /\ TakeAndPut(p, p - 1, p + 1,
                       [count |-> m.count, pk |-> MaulPk(m.pk, Maul[p])])
    /\ Goto(p, "r1in")
    /\ UNCHANGED <<i, held, results, ver>>

\* Round 1: re-key to the mauled key, rerandomise under it.
FirewallRound1In(p) ==
    /\ pc[p] = "r1in"
    /\ CanRecv(p, p - 1)
    /\ held' = [held EXCEPT ![p] =
         MaulFwdRerand(Message(p, p - 1), Maul[p], EncZero(Mauled(p), Coin[p][1][i[p]]))]
    /\ Take(p, p - 1)
    /\ Goto(p, "r1out")
    /\ UNCHANGED <<n, i, key, results, ver>>

FirewallRound1Out(p) ==
    /\ pc[p] = "r1out"
    /\ CanSend(p, p + 1)
    /\ Put(p, p + 1, held[p])
    /\ Loop(p, "r1in", "r2in")
    /\ UNCHANGED <<n, key, held, results, ver>>

\* Round 2: back to the key received, rerandomised under it.
FirewallRound2In(p) ==
    /\ pc[p] = "r2in"
    /\ CanRecv(p, p + 1)
    /\ held' = [held EXCEPT ![p] =
         MaulInvRerand(Message(p, p + 1), Maul[p], EncZero(key[p], Coin[p][2][i[p]]))]
    /\ Take(p, p + 1)
    /\ Goto(p, "r2out")
    /\ UNCHANGED <<n, i, key, results, ver>>

FirewallRound2Out(p) ==
    /\ pc[p] = "r2out"
    /\ CanSend(p, p - 1)
    /\ Put(p, p - 1, held[p])
    /\ Loop(p, "r2in", "verdict")
    /\ UNCHANGED <<n, key, held, results, ver>>

FirewallVerdict(p) ==
    /\ pc[p] = "verdict"
    /\ CanRecv(p, p - 1) /\ CanSend(p, p + 1)
    /\ ver' = [ver EXCEPT ![p] = Message(p, p - 1).verdict]
    /\ TakeAndPut(p, p - 1, p + 1, Message(p, p - 1))
    /\ Goto(p, "done")
    /\ UNCHANGED <<n, i, key, held, results>>

(***************************************************************************)
(* cg_sender                                                               *)
(***************************************************************************)
\* A count that differs from the sender's own ends it with status 1.
SenderHeader ==
    /\ pc[Sender] = "header"
    /\ CanRecv(Sender, SRF)
    /\ key' = [key EXCEPT ![Sender] = Message(Sender, SRF).pk]
    /\ Take(Sender, SRF)
    /\ Goto(Sender, IF Message(Sender, SRF).count = n[Sender] THEN "r1in" ELSE "failed")
    /\ UNCHANGED <<n, i, held, results, ver>>

\* The online loop: Enc(a_i x_i + b_i), with a precomputed Enc(b_i) ...
SenderRecv ==
    LET j == i[Sender] IN
    /\ pc[Sender] = "r1in"
    /\ CanRecv(Sender, SRF)
    /\ held' = [held EXCEPT ![Sender] =
         Add(CMult(Message(Sender, SRF), A[j]), Encrypt(key[Sender], B[j], Coin[Sender][1][j]))]
    /\ Take(Sender, SRF)
    /\ Goto(Sender, "r2out")
    /\ UNCHANGED <<n, i, key, results, ver>>

\* ... is sent before the next ciphertext is received.
SenderSend ==
    /\ pc[Sender] = "r2out"
    /\ CanSend(Sender, SRF)
    /\ Put(Sender, SRF, held[Sender])
    /\ Loop(Sender, "r1in", "verdict")
    /\ UNCHANGED <<n, key, held, results, ver>>

SenderVerdict ==
    /\ pc[Sender] = "verdict"
    /\ CanRecv(Sender, SRF)
    /\ ver' = [ver EXCEPT ![Sender] = Message(Sender, SRF).verdict]
    /\ Take(Sender, SRF)
    /\ Goto(Sender, "done")
    /\ UNCHANGED <<n, i, key, held, results>>

(***************************************************************************)
(* Failures.                                                               *)
(***************************************************************************)
Die(p) == Goto(p, "failed") /\ UNCHANGED <<n, i, key, held, wire, results, ver>>

\* The peer has closed its end: a receive finds no more data, a send fails.
PeerGone(p) ==
    /\ \/ \E q \in RecvPeer(p) : ~CanRecv(p, q) /\ Ended(q)
       \/ \E q \in SendPeer(p) : pc[q] = "failed"
    /\ Die(p)

\* Only receives time out.
Timeout_RecvOnly(p) == (\E q \in RecvPeer(p) : ~CanRecv(p, q)) /\ Die(p)

\* A send or a receive has been blocked for CG_IO_TIMEOUT_S seconds.
Timeout(p) == Blocked(p) /\ Die(p)

Finished == (\A p \in Procs : Ended(p)) /\ UNCHANGED vars

ReceiverNext == ReceiverHeader \/ ReceiverSend \/ ReceiverRecv \/ ReceiverVerdict
FirewallNext(p) ==
    \/ FirewallHeader(p)
    \/ FirewallRound1In(p) \/ FirewallRound1Out(p)
    \/ FirewallRound2In(p) \/ FirewallRound2Out(p)
    \/ FirewallVerdict(p)
RrfNext == FirewallNext(RRF)
SrfNext == FirewallNext(SRF)
SenderNext == SenderHeader \/ SenderRecv \/ SenderSend \/ SenderVerdict

Protocol == ReceiverNext \/ RrfNext \/ SrfNext \/ SenderNext

Next ==
    \/ Protocol
    \/ \E p \in Procs : PeerGone(p) \/ Timeout(p)
    \/ Finished

Spec == Init /\ [][Next]_vars

\* No process stops by itself, and the kernel's timeouts do expire.
Fairness ==
    /\ WF_vars(ReceiverNext) /\ WF_vars(RrfNext)
    /\ WF_vars(SrfNext) /\ WF_vars(SenderNext)
    /\ \A p \in Procs : WF_vars(PeerGone(p)) /\ WF_vars(Timeout(p))

FairSpec == Spec /\ Fairness

------------------------------------------------------------------------------
\* Type invariant.
TypeOK ==
    /\ n \in [Procs -> Counts \cup {0}]
    /\ pc \in [Procs -> Places]
    /\ i \in [Procs -> Index]
    /\ key \in [Procs -> Int]
    /\ held \in [Procs -> Ciphertexts]
    /\ wire \in [Links -> Seq(Messages)] /\ \A k \in Links : Len(wire[k]) <= Cap
    /\ results \in Seq(Residues \cup {Garbage})
    /\ ver \in [Procs -> {0, 1}]

\* Each program that ends normally knows the verdict "verified", the counts
\* agreed, and the receiver then holds a_i x_i + b_i for every i: a process
\* that dies anywhere, at any point, never leaves another one with a success.
VerdictSound ==
    \A p \in Procs : pc[p] = "done" =>
        /\ ver[p] = 1
        /\ n[Receiver] = n[Sender]
        /\ results = [j \in 1..n[Receiver] |-> Result(j - 1)]

(***************************************************************************)
(* Where the programs are in each other's streams; with TypeOK, the        *)
(* inductive invariant of StandaloneOleProofs.                             *)
(***************************************************************************)
\* Towards the sender travel the header, Enc(x_j) and the verdict; towards the
\* receiver Enc(a_j x_j + b_j).
Forward(k) == k[1] < k[2]

\* The key between p and p + 1.
HopKey(p) ==
    Sk + (IF p >= RRF THEN Maul[RRF] ELSE 0) + (IF p >= SRF THEN Maul[SRF] ELSE 0)

\* How many messages the writer of link k has put on it, and its reader taken.
Given(k) ==
    LET p == k[1] IN
    IF Forward(k)
    THEN CASE pc[p] = "header" -> 0
           [] pc[p] \in {"r1in", "r1out"} -> i[p] + 1
           [] pc[p] = "done" -> n[p] + 2
           [] OTHER -> n[p] + 1
    ELSE CASE pc[p] \in {"verdict", "done"} -> n[p]
           [] pc[p] \in {"r2in", "r2out"} \/ (p = Sender /\ pc[p] = "r1in") -> i[p]
           [] OTHER -> 0

Taken(k) ==
    LET p == k[2] IN
    IF Forward(k)
    THEN CASE pc[p] = "header" -> 0
           [] pc[p] = "r1in" -> i[p] + 1
           [] pc[p] = "r1out" \/ (p = Sender /\ pc[p] = "r2out") -> i[p] + 2
           [] pc[p] = "done" -> n[p] + 2
           [] OTHER -> n[p] + 1
    ELSE CASE pc[p] \in {"verdict", "done"} -> n[p]
           [] pc[p] = "r2in" -> i[p]
           [] pc[p] = "r2out" -> i[p] + 1
           [] OTHER -> 0

\* m is the j-th message of link k.
IsMessage(k, j, m) ==
    IF Forward(k)
    THEN \/ j = 1 /\ m = [count |-> n[Receiver], pk |-> HopKey(k[1])]
         \/ /\ j \in 2..(n[Receiver] + 1)
            /\ m \in Ciphertexts /\ Encrypts(m, HopKey(k[1]), X[j - 2])
         \/ j = n[Receiver] + 2 /\ m = [verdict |-> 1] /\ pc[Receiver] = "done"
    ELSE /\ j \in 1..n[Receiver]
         /\ m \in Ciphertexts /\ Encrypts(m, HopKey(k[2]), Result(j - 1))

\* What is on a link is what its reader expects next, and the writer goes on
\* from there.
Aligned ==
    \A k \in Links : pc[k[2]] # "failed" =>
        /\ pc[k[1]] # "failed" => Given(k) = Taken(k) + Len(wire[k])
        /\ \A j \in 1..Len(wire[k]) : IsMessage(k, Taken(k) + j, wire[k][j])

\* Which places p visits, with which count, key, counter and ciphertext in hand.
Placed(p) ==
    /\ p = Receiver => pc[p] \notin {"r1in", "r2out"}
    /\ p = Sender => pc[p] \notin {"r1out", "r2in"}
    /\ pc[p] = "header" => (p = Receiver => wire[<<p, RRF>>] = <<>>)
    /\ pc[p] \in {"header", "verdict", "done"} => i[p] = 0
    /\ pc[p] \in {"r1in", "r1out", "r2in", "r2out"} => i[p] < n[p]
    /\ pc[p] \notin {"header", "failed"} =>
         n[p] = n[Receiver] /\ (p # Receiver => key[p] = HopKey(p - 1))
    /\ p # Receiver /\ pc[p] = "r1out" => Encrypts(held[p], HopKey(p), X[i[p]])
    /\ pc[p] = "r2out" => Encrypts(held[p], HopKey(p - 1), Result(i[p]))
    /\ pc[p] = "done" => ver[p] = 1 /\ pc[Receiver] = "done"

\* The receiver's outputs.
Outputs ==
    /\ n[Receiver] \in Counts /\ n[Sender] \in Counts
    /\ pc[Receiver] \in {"header", "r1out"} => results = <<>>
    /\ pc[Receiver] = "r2in" => results = [j \in 1..i[Receiver] |-> Result(j - 1)]
    /\ pc[Receiver] \in {"verdict", "done"} =>
         results = [j \in 1..n[Receiver] |-> Result(j - 1)]

\* Only a sender that agrees on the count answers.
Agreed ==
    \/ pc[Sender] \notin {"header", "failed"}
    \/ \E k \in Links : /\ ~Forward(k)
                        /\ wire[k] # <<>> \/ (pc[k[2]] # "failed" /\ Taken(k) > 0)
    => n[Receiver] = n[Sender]

Flow == (\A p \in Procs : Placed(p)) /\ Aligned /\ Outputs /\ Agreed

\* Nobody has ended, and everybody waits for somebody else.
Stuck == \A p \in Procs : ~Ended(p) /\ Blocked(p)

\* A batch fits when its tail finds room next to the answers: at most Cap
\* answers and the sender's current one, and Cap ciphertexts not yet read.
\* Then the protocol never blocks itself, whatever the interleaving.
FitsNeverStuck == n[Receiver] <= 2 * Cap + 1 => ~Stuck

\* The phase boundary that rf_ole_batch_send keeps so that the firewalls
\* cannot "deadlock on socket backpressure" is kept by cg_sender too.
NeverStuck == ~Stuck

\* Blocked or not, with equal counts or not, every program ends.
EveryoneEnds == <>(\A p \in Procs : Ended(p))
==============================================================================
