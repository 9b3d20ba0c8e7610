------------------------- MODULE StandaloneOleProofs -------------------------
(***************************************************************************)
(* The four standalone programs are correct for every count, buffer size,  *)
(* input, key, shift and coin, and whatever programs time out: a program   *)
(* that ends normally knows a verdict that is right, and a batch that fits *)
(* into the sockets is never stuck.                                        *)
(*                                                                         *)
(* The inductive invariant is TypeOK /\ Flow.  A step moves one program,   *)
(* takes at most one message and puts at most one: StreamStep says when    *)
(* the streams stay aligned, OthersStay that the other programs do.        *)
(***************************************************************************)
EXTENDS StandaloneOle, ArithmeticProofs

------------------------------------------------------------------------------
(***************************************************************************)
(* Types and places.                                                       *)
(***************************************************************************)
\* A link joins neighbours.
LEMMA LinkFacts ==
    /\ Procs = {1, 2, 3, 4}
    /\ \A k \in Links :
         /\ k[1] \in Procs /\ k[2] \in Procs /\ k[1] # k[2] /\ k = <<k[1], k[2]>>
         /\ Forward(k) => k[2] = k[1] + 1
         /\ ~Forward(k) => k[2] = k[1] - 1
    /\ \A p, q \in Procs : q = p + 1 \/ q = p - 1 => <<p, q>> \in Links
  <1>1. Procs = {1, 2, 3, 4}
    BY DEF Procs, Receiver, Sender
  <1>2. ASSUME NEW k \in Links
        PROVE  /\ k[1] \in Procs /\ k[2] \in Procs /\ k = <<k[1], k[2]>>
               /\ k[2] = k[1] + 1 \/ k[2] = k[1] - 1
    BY DEF Links
  <1>3. ASSUME NEW k \in Links
        PROVE  /\ k[1] # k[2]
               /\ Forward(k) => k[2] = k[1] + 1
               /\ ~Forward(k) => k[2] = k[1] - 1
    BY <1>1, <1>2 DEF Forward
  <1>4. \A p, q \in Procs : q = p + 1 \/ q = p - 1 => <<p, q>> \in Links
    BY <1>1 DEF Links
  <1> QED BY <1>1, <1>2, <1>3, <1>4

\* The links of a program, by direction.
LEMMA LinkEnds ==
    ASSUME NEW p \in Procs, NEW k \in Links
    PROVE  /\ k[1] = p => \/ Forward(k) /\ k = <<p, p + 1>> /\ p # Sender
                          \/ ~Forward(k) /\ k = <<p, p - 1>> /\ p # Receiver
           /\ k[2] = p => \/ Forward(k) /\ k = <<p - 1, p>> /\ p # Receiver
                          \/ ~Forward(k) /\ k = <<p + 1, p>> /\ p # Sender
  <1>1. Procs = {1, 2, 3, 4} /\ k[1] \in Procs /\ k[2] \in Procs /\ k = <<k[1], k[2]>>
        /\ (Forward(k) => k[2] = k[1] + 1) /\ (~Forward(k) => k[2] = k[1] - 1)
    BY LinkFacts
  <1>2. k[2] = k[1] + 1 => k[1] = k[2] - 1 /\ k[1] # 4 /\ k[2] # 1
    BY <1>1
  <1>3. k[2] = k[1] - 1 => k[1] = k[2] + 1 /\ k[1] # 1 /\ k[2] # 4
    BY <1>1
  <1> QED BY <1>1, <1>2, <1>3 DEF Sender, Receiver

LEMMA LinkOf ==
    ASSUME NEW p \in Procs
    PROVE  /\ p # Sender =>
                /\ p + 1 \in Procs /\ <<p, p + 1>> \in Links /\ <<p + 1, p>> \in Links
                /\ Forward(<<p, p + 1>>) /\ ~Forward(<<p + 1, p>>)
           /\ p # Receiver =>
                /\ p - 1 \in Procs /\ <<p - 1, p>> \in Links /\ <<p, p - 1>> \in Links
                /\ Forward(<<p - 1, p>>) /\ ~Forward(<<p, p - 1>>)
  BY LinkFacts DEF Sender, Receiver, Forward

\* The key between two programs is an integer, shifted by the firewall it passes.
LEMMA HopKeys ==
    /\ \A p \in 0..4 : HopKey(p) \in Int
    /\ HopKey(0) = Sk /\ HopKey(Receiver) = Sk
    /\ \A p \in Firewalls : Maul[p] \in Int /\ HopKey(p) = MaulPk(HopKey(p - 1), Maul[p])
  <1>1. Maul[RRF] \in Int /\ Maul[SRF] \in Int /\ Sk \in Int
    BY StandaloneInputs DEF Firewalls
  <1> QED BY <1>1 DEF HopKey, MaulPk, Firewalls, RRF, SRF, Receiver

\* The indexes of a batch, and what is stored under them.
LEMMA IndexFacts ==
    /\ Index \subseteq Nat
    /\ \A c \in Counts : c \in Nat \ {0} /\ \A j \in Nat : j < c => j \in Index
    /\ \A j \in Index : /\ X[j] \in Residues /\ A[j] \in Residues /\ B[j] \in Residues
                        /\ Result(j) \in Residues
                        /\ \A p \in Procs : Coin[p][1][j] \in Int /\ Coin[p][2][j] \in Int
  <1>1. Index \subseteq Nat
    BY StandaloneCounts DEF Index
  <1>2. ASSUME NEW c \in Counts
        PROVE  c \in Nat \ {0} /\ \A j \in Nat : j < c => j \in Index
    <2>1. c \in Nat \ {0}
      BY StandaloneCounts
    <2>2. \A j \in Nat : j < c => j \in 0..(c - 1)
      BY <2>1
    <2> QED BY <2>1, <2>2 DEF Index
  <1>3. ASSUME NEW j \in Index
        PROVE  /\ X[j] \in Residues /\ A[j] \in Residues /\ B[j] \in Residues
               /\ \A p \in Procs : Coin[p][1][j] \in Int /\ Coin[p][2][j] \in Int
    BY StandaloneInputs
  <1>4. ASSUME NEW j \in Index
        PROVE  Result(j) \in Residues
    <2>1. A[j] \in Nat /\ X[j] \in Nat /\ B[j] \in Nat /\ Q \in Nat /\ Q > 0
      BY <1>3, QAssumption DEF Residues
    <2>2. A[j] * X[j] \in Nat
      BY <2>1
    <2> DEFINE u == A[j] * X[j]
    <2>3. Result(j) = (u + B[j]) % Q
      BY DEF Result
    <2> HIDE DEF u
    <2>4. (u + B[j]) % Q \in 0..(Q - 1)
      BY <2>1, <2>2 DEF u
    <2> QED BY <2>3, <2>4 DEF Residues
  <1> QED BY <1>1, <1>2, <1>3, <1>4

\* The values of the cursors, place by place.
Cursors(k) ==
    LET p == k[1]
        q == k[2]
    IN
    /\ Forward(k) =>
         /\ pc[p] = "header" => Given(k) = 0
         /\ pc[p] \in {"r1in", "r1out"} => Given(k) = i[p] + 1
         /\ pc[p] \in {"r2in", "r2out", "verdict"} => Given(k) = n[p] + 1
         /\ pc[p] = "done" => Given(k) = n[p] + 2
         /\ pc[q] = "header" => Taken(k) = 0
         /\ pc[q] = "r1in" => Taken(k) = i[q] + 1
         /\ pc[q] = "r1out" \/ (q = Sender /\ pc[q] = "r2out") => Taken(k) = i[q] + 2
         /\ pc[q] \in {"r2in", "verdict"} \/ (q # Sender /\ pc[q] = "r2out") =>
              Taken(k) = n[q] + 1
         /\ pc[q] = "done" => Taken(k) = n[q] + 2
    /\ ~Forward(k) =>
         /\ pc[p] \in {"verdict", "done"} => Given(k) = n[p]
         /\ pc[p] \in {"r2in", "r2out"} \/ (p = Sender /\ pc[p] = "r1in") => Given(k) = i[p]
         /\ pc[p] = "header" \/ (p # Sender /\ pc[p] \in {"r1in", "r1out"}) => Given(k) = 0
         /\ pc[q] \in {"verdict", "done"} => Taken(k) = n[q]
         /\ pc[q] = "r2in" => Taken(k) = i[q]
         /\ pc[q] = "r2out" => Taken(k) = i[q] + 1
         /\ pc[q] \in {"header", "r1in", "r1out"} => Taken(k) = 0

LEMMA CursorTable == \A k \in Links : Cursors(k) /\ Cursors(k)'
  <1> SUFFICES ASSUME NEW k \in Links PROVE Cursors(k) /\ Cursors(k)'
    OBVIOUS
  <1>1. Cursors(k)
    BY DEF Cursors, Given, Taken
  <1>2. Cursors(k)'
    BY DEF Cursors, Given, Taken, Forward
  <1> QED BY <1>1, <1>2

\* The numbers a program works with.
LEMMA Basics ==
    ASSUME TypeOK, Flow
    PROVE  /\ n[Receiver] \in Counts /\ n[Receiver] \in Nat \ {0} /\ n[Sender] \in Counts
           /\ \A p \in Procs : i[p] \in Nat /\ n[p] \in Nat
           /\ \A k \in Links : Given(k) \in Nat /\ Taken(k) \in Nat /\ Len(wire[k]) \in Nat
  <1>1. n[Receiver] \in Counts /\ n[Receiver] \in Nat \ {0} /\ n[Sender] \in Counts
    BY IndexFacts DEF Flow, Outputs
  <1>2. ASSUME NEW p \in Procs
        PROVE  i[p] \in Nat /\ n[p] \in Nat
    <2>1. i[p] \in Index /\ n[p] \in Counts \cup {0}
      BY DEF TypeOK
    <2>2. Index \subseteq Nat /\ Counts \subseteq Nat
      BY IndexFacts
    <2>3. i[p] \in Nat
      BY <2>1, <2>2
    <2>4. n[p] \in Nat
      <3>1. CASE n[p] = 0
        BY <3>1
      <3>2. CASE n[p] \in Counts
        BY <3>2, <2>2
      <3> QED BY <2>1, <3>1, <3>2
    <2> QED BY <2>3, <2>4
  <1>3. ASSUME NEW k \in Links
        PROVE  Given(k) \in Nat /\ Taken(k) \in Nat /\ Len(wire[k]) \in Nat
    <2>1. i[k[1]] \in Nat /\ n[k[1]] \in Nat /\ i[k[2]] \in Nat /\ n[k[2]] \in Nat
      BY <1>2, LinkFacts
    <2>2. Len(wire[k]) \in Nat
      BY DEF TypeOK
    <2>3. Given(k) \in Nat
      BY <2>1 DEF Given
    <2>4. Taken(k) \in Nat
      BY <2>1 DEF Taken
    <2> QED BY <2>2, <2>3, <2>4
  <1> QED BY <1>1, <1>2, <1>3

------------------------------------------------------------------------------
(***************************************************************************)
(* Frames.                                                                 *)
(***************************************************************************)
\* Only program p moves; it was running, and the two given counts stay.
Moves(p) ==
    /\ ~Ended(p)
    /\ \A q \in Procs : q # p =>
         /\ n'[q] = n[q] /\ pc'[q] = pc[q] /\ i'[q] = i[q]
         /\ key'[q] = key[q] /\ held'[q] = held[q] /\ ver'[q] = ver[q]
    /\ n'[Receiver] = n[Receiver] /\ n'[Sender] = n[Sender]

\* What a step of p leaves as it is.
LEMMA OthersStay ==
    ASSUME NEW p \in Procs, Moves(p),
           wire[<<Receiver, RRF>>] = <<>> /\ p # Receiver => wire'[<<Receiver, RRF>>] = <<>>
    PROVE  /\ pc[Receiver] = "done" => pc'[Receiver] = "done"
           /\ \A q \in Procs : q # p /\ Placed(q) => Placed(q)'
           /\ \A k \in Links : k[1] # p => Given(k)' = Given(k)
           /\ \A k \in Links : k[2] # p => Taken(k)' = Taken(k)
           /\ \A k \in Links : \A j, m : IsMessage(k, j, m) => IsMessage(k, j, m)'
  <1>1. Receiver \in Procs
    BY LinkFacts DEF Receiver
  <1>2. pc[Receiver] = "done" => pc'[Receiver] = "done"
    BY <1>1 DEF Moves, Ended
  <1>3. \A q \in Procs : q # p =>
         /\ n'[q] = n[q] /\ pc'[q] = pc[q] /\ i'[q] = i[q]
         /\ key'[q] = key[q] /\ held'[q] = held[q] /\ ver'[q] = ver[q]
    BY DEF Moves
  <1>4. n'[Receiver] = n[Receiver]
    BY DEF Moves
  <1>5. ASSUME NEW q \in Procs, q # p, Placed(q)
        PROVE  Placed(q)'
    <2>1. /\ n'[q] = n[q] /\ pc'[q] = pc[q] /\ i'[q] = i[q]
          /\ key'[q] = key[q] /\ held'[q] = held[q] /\ ver'[q] = ver[q]
      BY <1>3, <1>5
    <2> QED BY <1>2, <1>4, <1>5, <2>1 DEF Placed, HopKey, Result
  <1>6. ASSUME NEW k \in Links, k[1] # p
        PROVE  Given(k)' = Given(k)
    BY <1>3, <1>6, LinkFacts DEF Given, Forward
  <1>7. ASSUME NEW k \in Links, k[2] # p
        PROVE  Taken(k)' = Taken(k)
    BY <1>3, <1>7, LinkFacts DEF Taken, Forward
  <1>8. ASSUME NEW k \in Links, NEW j, NEW m, IsMessage(k, j, m)
        PROVE  IsMessage(k, j, m)'
    BY <1>2, <1>4, <1>8 DEF IsMessage, Forward, HopKey, Result
  <1> QED BY <1>2, <1>5, <1>6, <1>7, <1>8

\* What may travel is a message.
LEMMA MessageTypes ==
    ASSUME TypeOK, Flow, NEW k \in Links, NEW j, NEW m, IsMessage(k, j, m)
    PROVE  m \in Messages
  <1>1. n[Receiver] \in Counts /\ HopKey(k[1]) \in Int
    <2>1. k[1] \in 0..4
      BY LinkFacts
    <2> QED BY <2>1, Basics, HopKeys
  <1> QED BY <1>1 DEF IsMessage, Messages

\* p takes from the links In and puts m on the links Out.
Advance(p, In, Out) ==
    \A k \in Links :
        /\ k[2] = p => Taken(k)' = Taken(k) + (IF k \in In THEN 1 ELSE 0)
        /\ k[1] = p => Given(k)' = Given(k) + (IF k \in Out THEN 1 ELSE 0)

\* The message at the head of a link is the one its reader expects.
LEMMA HeadFacts ==
    ASSUME TypeOK, Flow, NEW k \in Links, pc[k[2]] # "failed", wire[k] # <<>>
    PROVE  IsMessage(k, Taken(k) + 1, Head(wire[k]))
  <1>1. wire[k] \in Seq(Messages) /\ Len(wire[k]) \in Nat \ {0} /\ Head(wire[k]) = wire[k][1]
    BY DEF TypeOK
  <1>2. \A j \in 1..Len(wire[k]) : IsMessage(k, Taken(k) + j, wire[k][j])
    BY DEF Flow, Aligned
  <1> QED BY <1>1, <1>2

\* Taking from a queue and putting into it.
LEMMA QueueFacts ==
    ASSUME NEW S, NEW w \in Seq(S)
    PROVE  /\ w # <<>> =>
                /\ Len(w) \in Nat \ {0} /\ Head(w) = w[1]
                /\ Tail(w) \in Seq(S) /\ Len(Tail(w)) = Len(w) - 1
                /\ \A j \in 1..Len(Tail(w)) : Tail(w)[j] = w[j + 1]
           /\ \A m \in S :
                /\ Append(w, m) \in Seq(S) /\ Len(Append(w, m)) = Len(w) + 1
                /\ Append(w, m)[Len(w) + 1] = m
                /\ \A j \in 1..Len(w) : Append(w, m)[j] = w[j]
  <1>1. ASSUME w # <<>>
        PROVE  /\ Len(w) \in Nat \ {0} /\ Head(w) = w[1]
               /\ Tail(w) \in Seq(S) /\ Len(Tail(w)) = Len(w) - 1
    BY <1>1
  <1>2. ASSUME w # <<>>, NEW j \in 1..Len(Tail(w))
        PROVE  Tail(w)[j] = w[j + 1]
    BY <1>1, <1>2
  <1>3. ASSUME NEW m \in S
        PROVE  /\ Append(w, m) \in Seq(S) /\ Len(Append(w, m)) = Len(w) + 1
               /\ Append(w, m)[Len(w) + 1] = m
               /\ \A j \in 1..Len(w) : Append(w, m)[j] = w[j]
    OBVIOUS
  <1> QED BY <1>1, <1>2, <1>3

\* A step of p that takes from In and puts m on Out keeps the streams aligned, if
\* its cursors follow and m is the next message.
LEMMA StreamStep ==
    ASSUME TypeOK, Flow, NEW p \in Procs, Moves(p),
           NEW In \in SUBSET Links, NEW Out \in SUBSET Links, NEW m,
           \A k \in In : k[2] = p /\ wire[k] # <<>>,
           \A k \in Out : /\ k[1] = p /\ Len(wire[k]) < Cap
                          /\ m \in Messages
                          /\ \A j : j = Given(k) + 1 => IsMessage(k, j, m)'
                          /\ ~Forward(k) => n[Receiver] = n[Sender],
           wire' = [k \in Links |-> IF k \in In THEN Tail(wire[k])
                                    ELSE IF k \in Out THEN Append(wire[k], m)
                                    ELSE wire[k]],
           (pc'[p] = "failed" /\ Out = {}) \/ Advance(p, In, Out),
           p = Sender /\ pc'[p] \notin {"header", "failed"} => n[Receiver] = n[Sender]
    PROVE  /\ wire' \in [Links -> Seq(Messages)] /\ \A k \in Links : Len(wire'[k]) <= Cap
           /\ Aligned' /\ Agreed'
           /\ \A q \in Procs : q # p => Placed(q)'
  <1>1. \A k \in Links : wire[k] \in Seq(Messages) /\ Len(wire[k]) <= Cap /\ Len(wire[k]) \in Nat
    BY DEF TypeOK
  <1>2. /\ pc[Receiver] = "done" => pc'[Receiver] = "done"
        /\ \A q \in Procs : q # p /\ Placed(q) => Placed(q)'
        /\ \A k \in Links : k[1] # p => Given(k)' = Given(k)
        /\ \A k \in Links : k[2] # p => Taken(k)' = Taken(k)
        /\ \A k \in Links : \A j, mm : IsMessage(k, j, mm) => IsMessage(k, j, mm)'
    <2>1. wire[<<Receiver, RRF>>] = <<>> /\ p # Receiver => wire'[<<Receiver, RRF>>] = <<>>
      <3> SUFFICES ASSUME wire[<<Receiver, RRF>>] = <<>>, p # Receiver
                   PROVE  wire'[<<Receiver, RRF>>] = <<>>
        OBVIOUS
      <3>1. <<Receiver, RRF>> \in Links
        BY LinkFacts DEF Receiver, RRF
      <3>2. <<Receiver, RRF>> \notin In /\ <<Receiver, RRF>> \notin Out
        OBVIOUS
      <3> QED BY <3>1, <3>2
    <2> QED BY <2>1, OthersStay
  <1>3. ASSUME NEW k \in Links, k \in In
        PROVE  /\ k \notin Out /\ k[2] = p /\ wire[k] # <<>> /\ wire'[k] = Tail(wire[k])
               /\ wire'[k] \in Seq(Messages) /\ Len(wire[k]) \in Nat \ {0}
               /\ Len(wire'[k]) = Len(wire[k]) - 1
               /\ \A j \in 1..Len(wire'[k]) : wire'[k][j] = wire[k][j + 1]
    <2>1. k \notin Out /\ k[2] = p /\ wire[k] # <<>> /\ wire'[k] = Tail(wire[k])
      BY <1>3, LinkFacts
    <2>2. wire[k] \in Seq(Messages)
      BY <1>1
    <2>3. /\ Len(wire[k]) \in Nat \ {0}
          /\ Tail(wire[k]) \in Seq(Messages) /\ Len(Tail(wire[k])) = Len(wire[k]) - 1
          /\ \A j \in 1..Len(Tail(wire[k])) : Tail(wire[k])[j] = wire[k][j + 1]
      BY <2>1, <2>2, QueueFacts, Zenon
    <2> QED BY <2>1, <2>3
  <1>4. ASSUME NEW k \in Links, k \in Out
        PROVE  /\ k \notin In /\ k[1] = p /\ Len(wire[k]) < Cap
               /\ wire'[k] = Append(wire[k], m)
               /\ wire'[k] \in Seq(Messages) /\ Len(wire'[k]) = Len(wire[k]) + 1
               /\ wire'[k][Len(wire[k]) + 1] = m
               /\ \A j \in 1..Len(wire[k]) : wire'[k][j] = wire[k][j]
    <2>1. k \notin In /\ k[1] = p /\ Len(wire[k]) < Cap /\ wire'[k] = Append(wire[k], m)
          /\ m \in Messages
      BY <1>4, LinkFacts
    <2>2. wire[k] \in Seq(Messages)
      BY <1>1
    <2> QED BY <2>1, <2>2
  <1>5. ASSUME NEW k \in Links, k \notin In, k \notin Out
        PROVE  wire'[k] = wire[k]
    BY <1>5
  <1>6. wire' \in [Links -> Seq(Messages)] /\ \A k \in Links : Len(wire'[k]) <= Cap
    <2>1. ASSUME NEW k \in Links
          PROVE  wire'[k] \in Seq(Messages) /\ Len(wire'[k]) <= Cap
      BY <1>1, <1>3, <1>4, <1>5, StandaloneCap
    <2>2. wire' = [k \in Links |-> wire'[k]]
      OBVIOUS
    <2> QED BY <2>1, <2>2
  <1>7. ASSUME NEW k \in Links
        PROVE  /\ pc[k[2]] = "failed" => pc'[k[2]] = "failed"
               /\ pc[k[1]] = "failed" => pc'[k[1]] = "failed"
    BY LinkFacts DEF Moves, Ended
  <1>8. ASSUME NEW k \in Links, pc'[k[2]] # "failed"
        PROVE  /\ Taken(k)' = Taken(k) + (IF k \in In THEN 1 ELSE 0)
               /\ pc'[k[1]] # "failed" => Given(k)' = Given(k) + (IF k \in Out THEN 1 ELSE 0)
    <2>1. Given(k) \in Nat /\ Taken(k) \in Nat
      BY Basics
    <2>2. Taken(k)' = Taken(k) + (IF k \in In THEN 1 ELSE 0)
      <3>1. CASE k[2] = p
        BY <1>8, <3>1 DEF Advance
      <3>2. CASE k[2] # p
        BY <1>2, <2>1, <3>2
      <3> QED BY <3>1, <3>2
    <2>3. ASSUME pc'[k[1]] # "failed"
          PROVE  Given(k)' = Given(k) + (IF k \in Out THEN 1 ELSE 0)
      <3>1. CASE k[1] = p
        BY <2>3, <3>1 DEF Advance
      <3>2. CASE k[1] # p
        BY <1>2, <2>1, <3>2
      <3> QED BY <3>1, <3>2
    <2> QED BY <2>2, <2>3
  <1>9. Aligned'
    <2> SUFFICES ASSUME NEW k \in Links, pc'[k[2]] # "failed"
                 PROVE  /\ pc'[k[1]] # "failed" => Given(k)' = Taken(k)' + Len(wire'[k])
                        /\ \A j \in 1..Len(wire'[k]) : \A t, mm :
                             t = Taken(k)' + j /\ mm = wire'[k][j] => IsMessage(k, t, mm)'
      BY DEF Aligned
    <2>1. Given(k) \in Nat /\ Taken(k) \in Nat /\ Len(wire[k]) \in Nat
      BY Basics
    <2>2. /\ pc[k[1]] # "failed" => Given(k) = Taken(k) + Len(wire[k])
          /\ \A j \in 1..Len(wire[k]) : IsMessage(k, Taken(k) + j, wire[k][j])
      BY <1>7 DEF Flow, Aligned
    <2>3. \A j \in 1..Len(wire[k]) : \A t, mm :
            t = Taken(k) + j /\ mm = wire[k][j] => IsMessage(k, t, mm)'
      BY <1>2, <2>2
    <2>4. CASE k \in In
      <3>1. Taken(k)' = Taken(k) + 1 /\ (pc'[k[1]] # "failed" => Given(k)' = Given(k))
        BY <1>3, <1>8, <2>1, <2>4
      <3>2. Len(wire'[k]) = Len(wire[k]) - 1
        BY <1>3, <2>4
      <3>3. pc'[k[1]] # "failed" => Given(k)' = Taken(k)' + Len(wire'[k])
        BY <1>7, <2>1, <2>2, <3>1, <3>2
      <3>4. ASSUME NEW j \in 1..Len(wire'[k]), NEW t, NEW mm,
                   t = Taken(k)' + j, mm = wire'[k][j]
            PROVE  IsMessage(k, t, mm)'
        <4>1. wire'[k][j] = wire[k][j + 1]
          BY <1>3, <2>4
        <4>2. j \in Int /\ j + 1 \in 1..Len(wire[k])
          BY <2>1, <3>2
        <4>3. Taken(k)' + j = Taken(k) + (j + 1)
          BY <2>1, <3>1, <4>2
        <4> QED BY <2>3, <3>4, <4>1, <4>2, <4>3
      <3> QED BY <3>3, <3>4
    <2>5. CASE k \in Out
      <3>1. Taken(k)' = Taken(k) /\ (pc'[k[1]] # "failed" => Given(k)' = Given(k) + 1)
        BY <1>4, <1>8, <2>1, <2>5
      <3>2. Len(wire'[k]) = Len(wire[k]) + 1 /\ k[1] = p
        BY <1>4, <2>5
      <3>3. pc[p] # "failed"
        BY DEF Moves, Ended
      <3>4. pc'[k[1]] # "failed" => Given(k)' = Taken(k)' + Len(wire'[k])
        BY <1>7, <2>1, <2>2, <3>1, <3>2
      <3>5. ASSUME NEW j \in 1..Len(wire'[k]), NEW t, NEW mm,
                   t = Taken(k)' + j, mm = wire'[k][j]
            PROVE  IsMessage(k, t, mm)'
        <4>1. CASE j \in 1..Len(wire[k])
          BY <1>4, <2>3, <2>5, <3>1, <3>5, <4>1
        <4>2. CASE j = Len(wire[k]) + 1
          <5>1. Taken(k)' + j = Given(k) + 1 /\ wire'[k][j] = m
            BY <1>4, <2>1, <2>2, <2>5, <3>1, <3>2, <3>3, <4>2
          <5> QED BY <2>5, <3>5, <5>1
        <4> QED BY <2>1, <3>2, <4>1, <4>2
      <3> QED BY <3>4, <3>5
    <2>6. CASE k \notin In /\ k \notin Out
      <3>1. Taken(k)' = Taken(k) /\ (pc'[k[1]] # "failed" => Given(k)' = Given(k))
        BY <1>8, <2>1, <2>6
      <3>2. wire'[k] = wire[k]
        BY <1>5, <2>6
      <3> QED BY <1>7, <2>2, <2>3, <3>1, <3>2
    <2> QED BY <2>4, <2>5, <2>6
  <1>10. Agreed'
    <2>1. n'[Receiver] = n[Receiver] /\ n'[Sender] = n[Sender]
      BY DEF Moves
    <2>2. Agreed
      BY DEF Flow
    <2>3. ASSUME pc'[Sender] \notin {"header", "failed"}
          PROVE  n[Receiver] = n[Sender]
      <3>1. CASE p = Sender
        BY <2>3, <3>1
      <3>2. CASE p # Sender
        <4>1. pc'[Sender] = pc[Sender]
          BY <3>2, LinkFacts DEF Moves, Sender
        <4> QED BY <2>2, <2>3, <4>1 DEF Agreed
      <3> QED BY <3>1, <3>2
    <2>4. ASSUME NEW k \in Links, ~Forward(k),
                 wire'[k] # <<>> \/ (pc'[k[2]] # "failed" /\ Taken(k)' > 0)
          PROVE  n[Receiver] = n[Sender]
      <3>1. CASE k \in Out
        BY <2>4, <3>1
      <3>2. CASE k \in In
        BY <1>3, <2>2, <2>4, <3>2 DEF Agreed
      <3>3. CASE k \notin In /\ k \notin Out
        <4>1. wire'[k] = wire[k]
          BY <1>5, <3>3
        <4>2. pc'[k[2]] # "failed" => pc[k[2]] # "failed" /\ Taken(k)' = Taken(k)
          BY <1>7, <1>8, <3>3, Basics
        <4>3. wire[k] # <<>> \/ (pc[k[2]] # "failed" /\ Taken(k) > 0)
          BY <2>4, <4>1, <4>2
        <4> QED BY <2>2, <2>4, <4>3 DEF Agreed
      <3> QED BY <3>1, <3>2, <3>3
    <2>5. \A k \in Links : Forward(k)' <=> Forward(k)
      BY DEF Forward
    <2> QED BY <2>1, <2>3, <2>4, <2>5 DEF Agreed
  <1>11. \A q \in Procs : q # p => Placed(q)'
    BY <1>2 DEF Flow
  <1> QED BY <1>6, <1>9, <1>10, <1>11

\* A receive of p.
LEMMA TakeStep ==
    ASSUME TypeOK, Flow, NEW p \in Procs, NEW q \in Procs, Moves(p), <<q, p>> \in Links,
           CanRecv(p, q), Take(p, q), pc'[p] = "failed" \/ Advance(p, {<<q, p>>}, {}),
           p = Sender /\ pc'[p] \notin {"header", "failed"} => n[Receiver] = n[Sender]
    PROVE  /\ wire' \in [Links -> Seq(Messages)] /\ \A k \in Links : Len(wire'[k]) <= Cap
           /\ Aligned' /\ Agreed'
           /\ \A r \in Procs : r # p => Placed(r)'
  <1> DEFINE In == {<<q, p>>}
             Out == {}
             a == <<q, p>>
  <1>1. a[2] = p /\ wire[a] # <<>> /\ In \in SUBSET Links /\ Out \in SUBSET Links
    BY DEF CanRecv
  <1>2. wire' = [k \in Links |-> IF k \in In THEN Tail(wire[k])
                                 ELSE IF k \in Out THEN Append(wire[k], 0)
                                 ELSE wire[k]]
    <2>1. wire' = [wire EXCEPT ![a] = Tail(wire[a])] /\ DOMAIN wire = Links
      BY DEF Take, TypeOK
    <2> HIDE DEF a
    <2>2. wire' = [k \in Links |-> IF k = a THEN Tail(wire[k]) ELSE wire[k]]
      BY <2>1
    <2> QED BY <2>2 DEF a
  <1>3. \A k \in In : k[2] = p /\ wire[k] # <<>>
    BY <1>1
  <1>4. (pc'[p] = "failed" /\ Out = {}) \/ Advance(p, In, Out)
    OBVIOUS
  <1>5. \A k \in Out : /\ k[1] = p /\ Len(wire[k]) < Cap
                       /\ 0 \in Messages
                       /\ \A j : j = Given(k) + 1 => IsMessage(k, j, 0)'
                       /\ ~Forward(k) => n[Receiver] = n[Sender]
    OBVIOUS
  <1> HIDE DEF In, Out, a
  <1> QED BY <1>1, <1>2, <1>3, <1>4, <1>5, StreamStep

\* A send of p.
LEMMA PutStep ==
    ASSUME TypeOK, Flow, NEW p \in Procs, NEW q \in Procs, Moves(p), <<p, q>> \in Links,
           CanSend(p, q), NEW m \in Messages, Put(p, q, m), Advance(p, {}, {<<p, q>>}),
           \A j : j = Given(<<p, q>>) + 1 => IsMessage(<<p, q>>, j, m)',
           ~Forward(<<p, q>>) \/ p = Sender => n[Receiver] = n[Sender]
    PROVE  /\ wire' \in [Links -> Seq(Messages)] /\ \A k \in Links : Len(wire'[k]) <= Cap
           /\ Aligned' /\ Agreed'
           /\ \A r \in Procs : r # p => Placed(r)'
  <1> DEFINE In == {}
             Out == {<<p, q>>}
             a == <<p, q>>
  <1>1. a[1] = p /\ Len(wire[a]) < Cap /\ In \in SUBSET Links /\ Out \in SUBSET Links
    BY DEF CanSend
  <1>2. wire' = [k \in Links |-> IF k \in In THEN Tail(wire[k])
                                 ELSE IF k \in Out THEN Append(wire[k], m)
                                 ELSE wire[k]]
    <2>1. wire' = [wire EXCEPT ![a] = Append(wire[a], m)] /\ DOMAIN wire = Links
      BY DEF Put, TypeOK
    <2> HIDE DEF a
    <2>2. wire' = [k \in Links |-> IF k = a THEN Append(wire[k], m) ELSE wire[k]]
      BY <2>1
    <2> QED BY <2>2 DEF a
  <1>3. \A k \in In : k[2] = p /\ wire[k] # <<>>
    OBVIOUS
  <1>4. (pc'[p] = "failed" /\ Out = {}) \/ Advance(p, In, Out)
    OBVIOUS
  <1>5. \A k \in Out : /\ k[1] = p /\ Len(wire[k]) < Cap
                       /\ m \in Messages
                       /\ \A j : j = Given(k) + 1 => IsMessage(k, j, m)'
                       /\ ~Forward(k) => n[Receiver] = n[Sender]
    BY <1>1
  <1>6. p = Sender /\ pc'[p] \notin {"header", "failed"} => n[Receiver] = n[Sender]
    OBVIOUS
  <1> HIDE DEF In, Out, a
  <1> QED BY <1>1, <1>2, <1>3, <1>4, <1>5, <1>6, StreamStep

\* A firewall passes a header or a verdict on.
LEMMA TakePutStep ==
    ASSUME TypeOK, Flow, NEW p \in Firewalls, Moves(p),
           CanRecv(p, p - 1), CanSend(p, p + 1), NEW m \in Messages,
           TakeAndPut(p, p - 1, p + 1, m), Advance(p, {<<p - 1, p>>}, {<<p, p + 1>>}),
           \A j : j = Given(<<p, p + 1>>) + 1 => IsMessage(<<p, p + 1>>, j, m)'
    PROVE  /\ wire' \in [Links -> Seq(Messages)] /\ \A k \in Links : Len(wire'[k]) <= Cap
           /\ Aligned' /\ Agreed'
           /\ \A r \in Procs : r # p => Placed(r)'
  <1> DEFINE a == <<p - 1, p>>
             b == <<p, p + 1>>
             In == {a}
             Out == {b}
  <1>1. p \in Procs /\ p # Sender /\ p # Receiver
    BY LinkFacts DEF Firewalls, RRF, SRF, Sender, Receiver
  <1>2. a \in Links /\ b \in Links /\ Forward(b) /\ a # b
    BY <1>1, LinkOf, LinkFacts
  <1>3. a[2] = p /\ wire[a] # <<>> /\ b[1] = p /\ Len(wire[b]) < Cap
        /\ In \in SUBSET Links /\ Out \in SUBSET Links
    BY <1>2 DEF CanRecv, CanSend
  <1>4. wire' = [k \in Links |-> IF k \in In THEN Tail(wire[k])
                                 ELSE IF k \in Out THEN Append(wire[k], m)
                                 ELSE wire[k]]
    <2>1. /\ wire' = [wire EXCEPT ![a] = Tail(wire[a]), ![b] = Append(@, m)]
          /\ DOMAIN wire = Links
      BY DEF TakeAndPut, TypeOK
    <2> HIDE DEF a, b
    <2>2. wire' = [k \in Links |-> IF k = a THEN Tail(wire[k])
                                   ELSE IF k = b THEN Append(wire[k], m)
                                   ELSE wire[k]]
      BY <1>2, <2>1
    <2> QED BY <2>2
  <1>5. \A k \in In : k[2] = p /\ wire[k] # <<>>
    BY <1>3
  <1>6. (pc'[p] = "failed" /\ Out = {}) \/ Advance(p, In, Out)
    OBVIOUS
  <1>7. \A k \in Out : /\ k[1] = p /\ Len(wire[k]) < Cap
                       /\ m \in Messages
                       /\ \A j : j = Given(k) + 1 => IsMessage(k, j, m)'
                       /\ ~Forward(k) => n[Receiver] = n[Sender]
    BY <1>2, <1>3
  <1> HIDE DEF In, Out, a, b
  <1> QED BY <1>1, <1>3, <1>4, <1>5, <1>6, <1>7, StreamStep

\* The end of a loop body.
LEMMA LoopFacts ==
    ASSUME TypeOK, Flow, NEW p \in Procs, NEW again \in Places, NEW after \in Places,
           Loop(p, again, after), i[p] < n[p], n[p] = n[Receiver]
    PROVE  /\ \/ i[p] + 1 < n[p] /\ i'[p] = i[p] + 1 /\ pc'[p] = again
              \/ i[p] + 1 = n[p] /\ i'[p] = 0 /\ pc'[p] = after
           /\ i' \in [Procs -> Index] /\ pc' \in [Procs -> Places]
           /\ \A q \in Procs : q # p => i'[q] = i[q] /\ pc'[q] = pc[q]
  <1>1. i[p] \in Nat /\ n[p] \in Nat /\ n[p] \in Counts
    BY Basics
  <1>2. i \in [Procs -> Index] /\ pc \in [Procs -> Places]
    BY DEF TypeOK
  <1>3. 0 \in Index /\ (i[p] + 1 < n[p] => i[p] + 1 \in Index)
    BY <1>1, IndexFacts
  <1>4. CASE i[p] + 1 >= n[p]
    <2>1. i' = [i EXCEPT ![p] = 0] /\ pc' = [pc EXCEPT ![p] = after]
      BY <1>4 DEF Loop, Goto
    <2>2. i[p] + 1 = n[p]
      BY <1>1, <1>4
    <2> QED BY <1>2, <1>3, <2>1, <2>2
  <1>5. CASE ~(i[p] + 1 >= n[p])
    <2>1. i' = [i EXCEPT ![p] = i[p] + 1] /\ pc' = [pc EXCEPT ![p] = again]
      BY <1>5 DEF Loop, Goto
    <2>2. i[p] + 1 < n[p]
      BY <1>1, <1>5
    <2> QED BY <1>2, <1>3, <2>1, <2>2
  <1> QED BY <1>4, <1>5

\* The outputs are the receiver's.
LEMMA OutputsStay ==
    ASSUME Flow, NEW p \in Procs, Moves(p), p # Receiver, results' = results
    PROVE  Outputs'
  <1>1. n'[Receiver] = n[Receiver] /\ n'[Sender] = n[Sender] /\ pc'[Receiver] = pc[Receiver]
        /\ i'[Receiver] = i[Receiver]
    BY LinkFacts DEF Moves, Receiver
  <1> QED BY <1>1 DEF Flow, Outputs, Result

------------------------------------------------------------------------------
(***************************************************************************)
(* The ciphertexts in the streams.                                         *)
(***************************************************************************)
\* The (j + 2)-nd message towards the sender is an encryption of x_j.
LEMMA Round1Message ==
    ASSUME TypeOK, Flow, NEW k \in Links, Forward(k), NEW j \in Nat, j < n[Receiver], NEW m
    PROVE  /\ IsMessage(k, j + 2, m) => m \in Ciphertexts /\ Encrypts(m, HopKey(k[1]), X[j])
           /\ m \in Ciphertexts /\ Encrypts(m, HopKey(k[1]), X[j])
                /\ n'[Receiver] = n[Receiver] =>
                m \in Messages /\ \A t : t = j + 2 => IsMessage(k, t, m)'
  <1>1. n[Receiver] \in Nat /\ j + 2 # 1 /\ j + 2 # n[Receiver] + 2
        /\ j + 2 \in 2..(n[Receiver] + 1) /\ (j + 2) - 2 = j
    BY Basics
  <1>2. IsMessage(k, j + 2, m) => m \in Ciphertexts /\ Encrypts(m, HopKey(k[1]), X[j])
    BY <1>1 DEF IsMessage
  <1>3. ASSUME m \in Ciphertexts, Encrypts(m, HopKey(k[1]), X[j]),
               n'[Receiver] = n[Receiver], NEW t, t = j + 2
        PROVE  IsMessage(k, t, m)'
    BY <1>1, <1>3 DEF IsMessage, Forward, HopKey
  <1>4. m \in Ciphertexts => m \in Messages
    BY DEF Messages
  <1> QED BY <1>2, <1>3, <1>4

\* The (j + 1)-st message towards the receiver is an encryption of a_j x_j + b_j.
LEMMA Round2Message ==
    ASSUME TypeOK, Flow, NEW k \in Links, ~Forward(k), NEW j \in Nat, j < n[Receiver], NEW m
    PROVE  /\ IsMessage(k, j + 1, m) => m \in Ciphertexts /\ Encrypts(m, HopKey(k[2]), Result(j))
           /\ m \in Ciphertexts /\ Encrypts(m, HopKey(k[2]), Result(j))
                /\ n'[Receiver] = n[Receiver] =>
                m \in Messages /\ \A t : t = j + 1 => IsMessage(k, t, m)'
  <1>1. n[Receiver] \in Nat /\ j + 1 \in 1..n[Receiver] /\ (j + 1) - 1 = j
    BY Basics
  <1>2. IsMessage(k, j + 1, m) => m \in Ciphertexts /\ Encrypts(m, HopKey(k[2]), Result(j))
    BY <1>1 DEF IsMessage
  <1>3. ASSUME m \in Ciphertexts, Encrypts(m, HopKey(k[2]), Result(j)),
               n'[Receiver] = n[Receiver], NEW t, t = j + 1
        PROVE  IsMessage(k, t, m)'
    BY <1>1, <1>3 DEF IsMessage, Forward, HopKey, Result
  <1>4. m \in Ciphertexts => m \in Messages
    BY DEF Messages
  <1> QED BY <1>2, <1>3, <1>4

------------------------------------------------------------------------------
(***************************************************************************)
(* cg_receiver                                                             *)
(***************************************************************************)
LEMMA ReceiverHeaderStep ==
    ASSUME TypeOK, Flow, ReceiverHeader
    PROVE  TypeOK' /\ Flow'
  <1> DEFINE p == Receiver
             b == <<Receiver, RRF>>
  <1> PICK m : m = [count |-> n[Receiver], pk |-> Sk]
    OBVIOUS
  <1>1. p \in Procs /\ RRF \in Procs /\ p # Sender /\ b = <<p, p + 1>> /\ b \in Links
        /\ Forward(b) /\ b[1] = p /\ b[2] = RRF
    BY LinkFacts, LinkOf DEF Receiver, RRF, Sender
  <1>2. /\ pc[p] = "header" /\ pc' = [pc EXCEPT ![p] = "r1out"] /\ Put(p, RRF, m)
        /\ UNCHANGED <<n, i, key, held, results, ver>>
    BY DEF ReceiverHeader, Goto
  <1>3. pc'[p] = "r1out" /\ pc' \in [Procs -> Places] /\ \A q \in Procs : q # p => pc'[q] = pc[q]
    BY <1>1, <1>2 DEF TypeOK, Places
  <1>4. Placed(p) /\ i[p] = 0 /\ wire[b] = <<>> /\ results = <<>>
    BY <1>1, <1>2 DEF Flow, Placed, Outputs
  <1>5. Moves(p)
    BY <1>2, <1>3 DEF Moves, Ended
  <1>6. Advance(p, {}, {b})
    <2> SUFFICES ASSUME NEW k \in Links
                 PROVE  /\ k[2] = p => Taken(k)' = Taken(k) + (IF k \in {} THEN 1 ELSE 0)
                        /\ k[1] = p => Given(k)' = Given(k) + (IF k \in {b} THEN 1 ELSE 0)
      BY DEF Advance
    <2>1. /\ k[2] = p => ~Forward(k)
          /\ k[1] = p => Forward(k) /\ k = b
      BY <1>1, LinkEnds
    <2>2. Cursors(k) /\ Cursors(k)'
      BY CursorTable
    <2> QED BY <1>2, <1>3, <1>4, <2>1, <2>2 DEF Cursors, Forward
  <1>7. CanSend(p, RRF)
    BY <1>4, StandaloneCap DEF CanSend
  <1>8. \A j : j = Given(b) + 1 => IsMessage(b, j, m) /\ IsMessage(b, j, m)'
    <2>1. Given(b) = 0
      BY <1>1, <1>2, CursorTable DEF Cursors
    <2>2. HopKey(b[1]) = Sk /\ n' = n
      BY <1>1, <1>2, HopKeys
    <2> QED BY <1>1, <2>1, <2>2 DEF IsMessage, Forward, HopKey
  <1>9. m \in Messages
    BY <1>1, <1>8, MessageTypes
  <1>10. /\ wire' \in [Links -> Seq(Messages)] /\ \A k \in Links : Len(wire'[k]) <= Cap
         /\ Aligned' /\ Agreed'
         /\ \A r \in Procs : r # p => Placed(r)'
    BY <1>1, <1>2, <1>5, <1>6, <1>7, <1>8, <1>9, PutStep
  <1>11. TypeOK'
    BY <1>2, <1>3, <1>10 DEF TypeOK
  <1>12. Placed(p)'
    BY <1>1, <1>2, <1>3, <1>4, Basics DEF Placed
  <1>13. Outputs'
    BY <1>2, <1>3, <1>4 DEF Flow, Outputs
  <1> QED BY <1>10, <1>11, <1>12, <1>13 DEF Flow

LEMMA ReceiverSendStep ==
    ASSUME TypeOK, Flow, ReceiverSend
    PROVE  TypeOK' /\ Flow'
  <1> DEFINE p == Receiver
             b == <<Receiver, RRF>>
  <1> PICK m : m = Encrypt(Sk, X[i[Receiver]], Coin[Receiver][1][i[Receiver]])
    OBVIOUS
  <1>1. p \in Procs /\ RRF \in Procs /\ p # Sender /\ b = <<p, p + 1>> /\ b \in Links
        /\ Forward(b) /\ b[1] = p /\ b[2] = RRF
    BY LinkFacts, LinkOf DEF Receiver, RRF, Sender
  <1>2. /\ pc[p] = "r1out" /\ CanSend(p, RRF) /\ Put(p, RRF, m) /\ Loop(p, "r1out", "r2in")
        /\ UNCHANGED <<n, key, held, results, ver>>
    BY DEF ReceiverSend
  <1>3. i[p] \in Nat /\ i[p] < n[p] /\ n[p] \in Nat /\ results = <<>>
    BY <1>1, <1>2, Basics DEF Flow, Placed, Outputs
  <1>4. /\ \/ i[p] + 1 < n[p] /\ i'[p] = i[p] + 1 /\ pc'[p] = "r1out"
           \/ i[p] + 1 = n[p] /\ i'[p] = 0 /\ pc'[p] = "r2in"
        /\ i' \in [Procs -> Index] /\ pc' \in [Procs -> Places]
        /\ \A q \in Procs : q # p => i'[q] = i[q] /\ pc'[q] = pc[q]
    BY <1>1, <1>2, <1>3, LoopFacts DEF Places
  <1>5. Moves(p)
    BY <1>2, <1>4 DEF Moves, Ended
  <1>6. Advance(p, {}, {b})
    <2> SUFFICES ASSUME NEW k \in Links
                 PROVE  /\ k[2] = p => Taken(k)' = Taken(k) + (IF k \in {} THEN 1 ELSE 0)
                        /\ k[1] = p => Given(k)' = Given(k) + (IF k \in {b} THEN 1 ELSE 0)
      BY DEF Advance
    <2>1. /\ k[2] = p => ~Forward(k)
          /\ k[1] = p => Forward(k) /\ k = b
      BY <1>1, LinkEnds
    <2>2. Cursors(k) /\ Cursors(k)'
      BY CursorTable
    <2> QED BY <1>2, <1>3, <1>4, <2>1, <2>2 DEF Cursors, Forward
  <1>7. m \in Ciphertexts /\ Encrypts(m, HopKey(b[1]), X[i[p]])
    <2>1. i[p] \in Index
      BY <1>1 DEF TypeOK
    <2>2. X[i[p]] \in Residues /\ Coin[p][1][i[p]] \in Int /\ Sk \in Int
      BY <1>1, <2>1, IndexFacts, StandaloneInputs
    <2>3. HopKey(b[1]) = Sk
      BY <1>1, HopKeys
    <2> QED BY <2>2, <2>3, EncryptFacts
  <1>8. Given(b) + 1 = i[p] + 2
    BY <1>1, <1>2, <1>3, CursorTable DEF Cursors
  <1>9. m \in Messages /\ \A t : t = Given(b) + 1 => IsMessage(b, t, m)'
    BY <1>1, <1>2, <1>3, <1>7, <1>8, Round1Message
  <1>10. /\ wire' \in [Links -> Seq(Messages)] /\ \A k \in Links : Len(wire'[k]) <= Cap
         /\ Aligned' /\ Agreed'
         /\ \A r \in Procs : r # p => Placed(r)'
    BY <1>1, <1>2, <1>5, <1>6, <1>9, PutStep
  <1>11. TypeOK'
    BY <1>2, <1>4, <1>10 DEF TypeOK
  <1>12. Placed(p)'
    BY <1>1, <1>2, <1>3, <1>4 DEF Placed
  <1>13. Outputs'
    <2>1. i'[p] = 0 => results = [j \in 1..i'[p] |-> Result(j - 1)]
      BY <1>3
    <2> QED BY <1>2, <1>3, <1>4, <2>1 DEF Flow, Outputs, Result
  <1> QED BY <1>10, <1>11, <1>12, <1>13 DEF Flow

LEMMA ReceiverRecvStep ==
    ASSUME TypeOK, Flow, ReceiverRecv
    PROVE  TypeOK' /\ Flow'
  <1> DEFINE p == Receiver
             a == <<RRF, Receiver>>
  <1>1. p \in Procs /\ RRF \in Procs /\ p # Sender /\ a = <<p + 1, p>> /\ a \in Links
        /\ ~Forward(a) /\ a[1] = RRF /\ a[2] = p
    BY LinkFacts, LinkOf DEF Receiver, RRF, Sender
  <1>2. /\ pc[p] = "r2in" /\ CanRecv(p, RRF) /\ Take(p, RRF) /\ Loop(p, "r2in", "verdict")
        /\ results' = Append(results, Decrypt(Sk, Head(wire[a])))
        /\ UNCHANGED <<n, key, held, ver>>
    BY DEF ReceiverRecv, Message
  <1>3. i[p] \in Nat /\ i[p] < n[p] /\ n[p] \in Nat /\ n[p] \in Counts
        /\ results = [j \in 1..i[p] |-> Result(j - 1)]
    BY <1>1, <1>2, Basics DEF Flow, Placed, Outputs
  <1>4. /\ \/ i[p] + 1 < n[p] /\ i'[p] = i[p] + 1 /\ pc'[p] = "r2in"
           \/ i[p] + 1 = n[p] /\ i'[p] = 0 /\ pc'[p] = "verdict"
        /\ i' \in [Procs -> Index] /\ pc' \in [Procs -> Places]
        /\ \A q \in Procs : q # p => i'[q] = i[q] /\ pc'[q] = pc[q]
    BY <1>1, <1>2, <1>3, LoopFacts DEF Places
  <1>5. Moves(p)
    BY <1>2, <1>4 DEF Moves, Ended
  <1>6. Advance(p, {a}, {})
    <2> SUFFICES ASSUME NEW k \in Links
                 PROVE  /\ k[2] = p => Taken(k)' = Taken(k) + (IF k \in {a} THEN 1 ELSE 0)
                        /\ k[1] = p => Given(k)' = Given(k) + (IF k \in {} THEN 1 ELSE 0)
      BY DEF Advance
    <2>1. /\ k[2] = p => ~Forward(k) /\ k = a
          /\ k[1] = p => Forward(k)
      BY <1>1, LinkEnds
    <2>2. Cursors(k) /\ Cursors(k)'
      BY CursorTable
    <2> QED BY <1>2, <1>3, <1>4, <2>1, <2>2 DEF Cursors, Forward
  <1>7. Decrypt(Sk, Head(wire[a])) = Result(i[p])
    <2>1. Taken(a) = i[p]
      BY <1>1, <1>2, CursorTable DEF Cursors
    <2>2. IsMessage(a, i[p] + 1, Head(wire[a]))
      BY <1>1, <1>2, <2>1, HeadFacts DEF CanRecv
    <2>3. Head(wire[a]) \in Ciphertexts /\ Encrypts(Head(wire[a]), HopKey(p), Result(i[p]))
      BY <1>1, <1>3, <2>2, Round2Message
    <2> QED BY <2>3, HopKeys, StandaloneInputs, DecryptFacts
  <1>8. /\ results' = [j \in 1..(i[p] + 1) |-> Result(j - 1)]
        /\ results' \in Seq(Residues \cup {Garbage})
    <2>1. \A j \in Nat : j < n[p] => Result(j) \in Residues
      BY <1>3, IndexFacts
    <2>2. results' = Append(results, Result(i[p]))
      BY <1>2, <1>7
    <2>3. results \in Seq(Residues \cup {Garbage}) /\ Len(results) = i[p]
      BY <1>3 DEF TypeOK
    <2>4. results' = [j \in 1..(i[p] + 1) |-> Result(j - 1)]
      BY <1>3, <2>2, <2>3
    <2>5. results' \in Seq(Residues \cup {Garbage})
      BY <1>3, <2>1, <2>2, <2>3
    <2> QED BY <2>4, <2>5
  <1>9. /\ wire' \in [Links -> Seq(Messages)] /\ \A k \in Links : Len(wire'[k]) <= Cap
        /\ Aligned' /\ Agreed'
        /\ \A r \in Procs : r # p => Placed(r)'
    BY <1>1, <1>2, <1>5, <1>6, TakeStep
  <1>10. TypeOK'
    BY <1>2, <1>4, <1>8, <1>9 DEF TypeOK
  <1>11. Placed(p)'
    BY <1>1, <1>2, <1>3, <1>4 DEF Placed
  <1>12. Outputs'
    <2>1. n' = n
      BY <1>2
    <2> QED BY <1>3, <1>4, <1>8, <2>1 DEF Flow, Outputs, Result
  <1> QED BY <1>9, <1>10, <1>11, <1>12 DEF Flow

LEMMA ReceiverVerdictStep ==
    ASSUME TypeOK, Flow, ReceiverVerdict
    PROVE  TypeOK' /\ Flow'
  <1> DEFINE p == Receiver
             b == <<Receiver, RRF>>
  <1> PICK m : m = [verdict |-> 1]
    OBVIOUS
  <1>1. p \in Procs /\ RRF \in Procs /\ p # Sender /\ b = <<p, p + 1>> /\ b \in Links
        /\ Forward(b) /\ b[1] = p /\ b[2] = RRF
    BY LinkFacts, LinkOf DEF Receiver, RRF, Sender
  <1>2. pc[p] = "verdict" /\ CanSend(p, RRF) /\ UNCHANGED <<n, i, key, held, results>>
    BY DEF ReceiverVerdict
  <1>3. i[p] = 0 /\ n[p] \in Nat /\ results = [j \in 1..n[p] |-> Result(j - 1)]
    BY <1>1, <1>2, Basics DEF Flow, Placed, Outputs
  <1>4. \A j \in 0..(n[Receiver] - 1) : results[j + 1] = Result(j)
    BY <1>3
  <1>5. /\ Put(p, RRF, m) /\ ver' = [ver EXCEPT ![p] = 1] /\ pc' = [pc EXCEPT ![p] = "done"]
    BY <1>4 DEF ReceiverVerdict, Goto
  <1>6. /\ pc'[p] = "done" /\ ver'[p] = 1
        /\ pc' \in [Procs -> Places] /\ ver' \in [Procs -> {0, 1}]
        /\ \A q \in Procs : q # p => pc'[q] = pc[q] /\ ver'[q] = ver[q]
    BY <1>1, <1>5 DEF TypeOK, Places
  <1>7. Moves(p)
    BY <1>2, <1>6 DEF Moves, Ended
  <1>8. Advance(p, {}, {b})
    <2> SUFFICES ASSUME NEW k \in Links
                 PROVE  /\ k[2] = p => Taken(k)' = Taken(k) + (IF k \in {} THEN 1 ELSE 0)
                        /\ k[1] = p => Given(k)' = Given(k) + (IF k \in {b} THEN 1 ELSE 0)
      BY DEF Advance
    <2>1. /\ k[2] = p => ~Forward(k)
          /\ k[1] = p => Forward(k) /\ k = b
      BY <1>1, LinkEnds
    <2>2. Cursors(k) /\ Cursors(k)'
      BY CursorTable
    <2> QED BY <1>2, <1>3, <1>6, <2>1, <2>2 DEF Cursors, Forward
  <1>9. m \in Messages /\ \A t : t = Given(b) + 1 => IsMessage(b, t, m)'
    <2>1. Given(b) + 1 = n[p] + 2
      BY <1>1, <1>2, <1>3, CursorTable DEF Cursors
    <2> QED BY <1>1, <1>2, <1>6, <2>1 DEF IsMessage, Forward, Messages
  <1>10. /\ wire' \in [Links -> Seq(Messages)] /\ \A k \in Links : Len(wire'[k]) <= Cap
         /\ Aligned' /\ Agreed'
         /\ \A r \in Procs : r # p => Placed(r)'
    BY <1>1, <1>2, <1>5, <1>7, <1>8, <1>9, PutStep
  <1>11. TypeOK'
    BY <1>2, <1>6, <1>10 DEF TypeOK
  <1>12. Placed(p)'
    BY <1>1, <1>2, <1>3, <1>6 DEF Placed
  <1>13. Outputs'
    BY <1>2, <1>3, <1>6 DEF Flow, Outputs, Result
  <1> QED BY <1>10, <1>11, <1>12, <1>13 DEF Flow

------------------------------------------------------------------------------
(***************************************************************************)
(* cg_rrf and cg_srf                                                       *)
(***************************************************************************)
\* A firewall has a program on either side.
LEMMA FirewallFacts ==
    ASSUME NEW p \in Firewalls
    PROVE  /\ p \in Procs /\ p # Sender /\ p # Receiver /\ p \in Int
           /\ p - 1 \in Procs /\ p + 1 \in Procs /\ p \in 0..4 /\ p - 1 \in 0..4
           /\ <<p - 1, p>> \in Links /\ Forward(<<p - 1, p>>)
           /\ <<p, p + 1>> \in Links /\ Forward(<<p, p + 1>>)
           /\ <<p + 1, p>> \in Links /\ ~Forward(<<p + 1, p>>)
           /\ <<p, p - 1>> \in Links /\ ~Forward(<<p, p - 1>>)
  <1>1. p \in Procs /\ p # Sender /\ p # Receiver /\ p \in Int /\ p \in 0..4 /\ p - 1 \in 0..4
    BY LinkFacts DEF Firewalls, RRF, SRF, Sender, Receiver
  <1> QED BY <1>1, LinkOf

LEMMA FirewallHeaderStep ==
    ASSUME TypeOK, Flow, NEW p \in Firewalls, FirewallHeader(p)
    PROVE  TypeOK' /\ Flow'
  <1> DEFINE a == <<p - 1, p>>
             b == <<p, p + 1>>
  <1>1. /\ p \in Procs /\ p # Sender /\ p # Receiver /\ p \in 0..4 /\ p - 1 \in 0..4
        /\ a \in Links /\ Forward(a) /\ b \in Links /\ Forward(b)
        /\ a[1] = p - 1 /\ a[2] = p /\ b[1] = p
    BY FirewallFacts
  <1>2. /\ pc[p] = "header" /\ CanRecv(p, p - 1) /\ CanSend(p, p + 1)
        /\ UNCHANGED <<i, held, results, ver>>
    BY DEF FirewallHeader
  <1>3. i[p] = 0 /\ n[Receiver] \in Counts
    BY <1>1, <1>2, Basics DEF Flow, Placed
  <1>4. Head(wire[a]) = [count |-> n[Receiver], pk |-> HopKey(p - 1)]
    <2>1. Taken(a) = 0
      BY <1>1, <1>2, CursorTable DEF Cursors
    <2>2. IsMessage(a, 1, Head(wire[a]))
      BY <1>1, <1>2, <2>1, HeadFacts DEF CanRecv
    <2>3. n[Receiver] \in Nat
      BY Basics
    <2> QED BY <1>1, <2>2, <2>3 DEF IsMessage
  <1> PICK m : m = [count |-> n[Receiver], pk |-> HopKey(p)]
    OBVIOUS
  <1>5. /\ n' = [n EXCEPT ![p] = n[Receiver]] /\ key' = [key EXCEPT ![p] = HopKey(p - 1)]
        /\ TakeAndPut(p, p - 1, p + 1, m) /\ pc' = [pc EXCEPT ![p] = "r1in"]
    <2>1. Message(p, p - 1) = [count |-> n[Receiver], pk |-> HopKey(p - 1)]
      BY <1>4 DEF Message
    <2>2. m = [count |-> n[Receiver], pk |-> MaulPk(HopKey(p - 1), Maul[p])]
      BY HopKeys
    <2>3. /\ n' = [n EXCEPT ![p] = Message(p, p - 1).count]
          /\ key' = [key EXCEPT ![p] = Message(p, p - 1).pk]
          /\ TakeAndPut(p, p - 1, p + 1, [count |-> Message(p, p - 1).count,
                                         pk |-> MaulPk(Message(p, p - 1).pk, Maul[p])])
          /\ pc' = [pc EXCEPT ![p] = "r1in"]
      BY DEF FirewallHeader, Goto
    <2>4. Message(p, p - 1).count = n[Receiver] /\ Message(p, p - 1).pk = HopKey(p - 1)
      BY <2>1
    <2> QED BY <2>2, <2>3, <2>4
  <1>6. /\ n'[p] = n[Receiver] /\ key'[p] = HopKey(p - 1) /\ pc'[p] = "r1in"
        /\ \A q \in Procs : q # p => n'[q] = n[q] /\ key'[q] = key[q] /\ pc'[q] = pc[q]
        /\ n' \in [Procs -> Counts \cup {0}] /\ key' \in [Procs -> Int]
        /\ pc' \in [Procs -> Places]
    <2>1. HopKey(p - 1) \in Int
      BY <1>1, HopKeys
    <2> QED BY <1>1, <1>3, <1>5, <2>1 DEF TypeOK, Places
  <1>7. Moves(p)
    BY <1>1, <1>2, <1>6, LinkFacts DEF Moves, Ended, Receiver, Sender
  <1>8. Advance(p, {a}, {b})
    <2> SUFFICES ASSUME NEW k \in Links
                 PROVE  /\ k[2] = p => Taken(k)' = Taken(k) + (IF k \in {a} THEN 1 ELSE 0)
                        /\ k[1] = p => Given(k)' = Given(k) + (IF k \in {b} THEN 1 ELSE 0)
      BY DEF Advance
    <2>1. /\ k[2] = p => (k = a <=> Forward(k))
          /\ k[1] = p => (k = b <=> Forward(k))
      BY <1>1, LinkEnds
    <2>2. Cursors(k) /\ Cursors(k)'
      BY CursorTable
    <2> QED BY <1>1, <1>2, <1>3, <1>6, <2>1, <2>2 DEF Cursors, Forward
  <1>9. m \in Messages /\ \A t : t = Given(b) + 1 => IsMessage(b, t, m)'
    <2>1. Given(b) + 1 = 1
      BY <1>1, <1>2, CursorTable DEF Cursors
    <2>2. HopKey(p) \in Int /\ n'[Receiver] = n[Receiver]
      BY <1>1, <1>7, HopKeys DEF Moves
    <2>3. m \in Messages
      BY <1>3, <2>2 DEF Messages
    <2>4. \A t : t = 1 => IsMessage(b, t, m)'
      BY <1>1, <2>2 DEF IsMessage, Forward, HopKey
    <2> QED BY <2>1, <2>3, <2>4
  <1>10. /\ wire' \in [Links -> Seq(Messages)] /\ \A k \in Links : Len(wire'[k]) <= Cap
         /\ Aligned' /\ Agreed'
         /\ \A r \in Procs : r # p => Placed(r)'
    BY <1>2, <1>5, <1>7, <1>8, <1>9, TakePutStep
  <1>11. TypeOK'
    BY <1>2, <1>6, <1>10 DEF TypeOK
  <1>12. Placed(p)'
    <2>1. n'[Receiver] = n[Receiver] /\ 0 < n[Receiver]
      BY <1>7, Basics DEF Moves
    <2> QED BY <1>1, <1>2, <1>3, <1>6, <2>1 DEF Placed, HopKey
  <1>13. Outputs'
    BY <1>1, <1>2, <1>7, OutputsStay
  <1> QED BY <1>10, <1>11, <1>12, <1>13 DEF Flow

LEMMA FirewallRound1InStep ==
    ASSUME TypeOK, Flow, NEW p \in Firewalls, FirewallRound1In(p)
    PROVE  TypeOK' /\ Flow'
  <1> DEFINE a == <<p - 1, p>>
  <1>1. /\ p \in Procs /\ p # Sender /\ p # Receiver /\ p - 1 \in Procs
        /\ p \in 0..4 /\ p - 1 \in 0..4
        /\ a \in Links /\ Forward(a) /\ a[1] = p - 1 /\ a[2] = p
    BY FirewallFacts
  <1>2. /\ pc[p] = "r1in" /\ CanRecv(p, p - 1) /\ Take(p, p - 1)
        /\ pc' = [pc EXCEPT ![p] = "r1out"]
        /\ UNCHANGED <<n, i, key, results, ver>>
    BY DEF FirewallRound1In, Goto
  <1>3. /\ i[p] \in Nat /\ i[p] < n[p] /\ n[p] = n[Receiver] /\ key[p] = HopKey(p - 1)
    BY <1>1, <1>2, Basics DEF Flow, Placed
  <1> PICK c : c = MaulFwdRerand(Head(wire[a]), Maul[p], EncZero(Mauled(p), Coin[p][1][i[p]]))
    OBVIOUS
  <1>4. held' = [held EXCEPT ![p] = c]
    BY DEF FirewallRound1In, Message
  <1>5. c \in Ciphertexts /\ Encrypts(c, HopKey(p), X[i[p]])
    <2>1. Taken(a) + 1 = i[p] + 2
      BY <1>1, <1>2, <1>3, CursorTable DEF Cursors
    <2>2. IsMessage(a, i[p] + 2, Head(wire[a]))
      BY <1>1, <1>2, <2>1, HeadFacts DEF CanRecv
    <2>3. Head(wire[a]) \in Ciphertexts /\ Encrypts(Head(wire[a]), HopKey(p - 1), X[i[p]])
      BY <1>1, <1>3, <2>2, Round1Message
    <2>4. i[p] \in Index
      BY <1>1 DEF TypeOK
    <2>5. HopKey(p - 1) \in Int /\ Maul[p] \in Int /\ Coin[p][1][i[p]] \in Int
          /\ HopKey(p) = MaulPk(HopKey(p - 1), Maul[p])
      BY <1>1, <2>4, HopKeys, IndexFacts
    <2>6. Mauled(p) = MaulPk(HopKey(p - 1), Maul[p])
      BY <1>3 DEF Mauled
    <2> QED BY <2>3, <2>5, <2>6, ForwardMovesKey
  <1>6. /\ pc'[p] = "r1out" /\ held'[p] = c
        /\ \A q \in Procs : q # p => pc'[q] = pc[q] /\ held'[q] = held[q]
        /\ pc' \in [Procs -> Places] /\ held' \in [Procs -> Ciphertexts]
    BY <1>1, <1>2, <1>4, <1>5 DEF TypeOK, Places
  <1>7. Moves(p)
    BY <1>2, <1>6 DEF Moves, Ended
  <1>8. Advance(p, {a}, {})
    <2> SUFFICES ASSUME NEW k \in Links
                 PROVE  /\ k[2] = p => Taken(k)' = Taken(k) + (IF k \in {a} THEN 1 ELSE 0)
                        /\ k[1] = p => Given(k)' = Given(k) + (IF k \in {} THEN 1 ELSE 0)
      BY DEF Advance
    <2>1. k[2] = p => (k = a <=> Forward(k))
      BY <1>1, LinkEnds
    <2>2. Cursors(k) /\ Cursors(k)'
      BY CursorTable
    <2> QED BY <1>1, <1>2, <1>3, <1>6, <2>1, <2>2 DEF Cursors, Forward
  <1>9. /\ wire' \in [Links -> Seq(Messages)] /\ \A k \in Links : Len(wire'[k]) <= Cap
        /\ Aligned' /\ Agreed'
        /\ \A r \in Procs : r # p => Placed(r)'
    BY <1>1, <1>2, <1>7, <1>8, TakeStep
  <1>10. TypeOK'
    BY <1>2, <1>6, <1>9 DEF TypeOK
  <1>11. Placed(p)'
    BY <1>1, <1>2, <1>3, <1>5, <1>6 DEF Placed, HopKey
  <1>12. Outputs'
    BY <1>1, <1>2, <1>7, OutputsStay
  <1> QED BY <1>9, <1>10, <1>11, <1>12 DEF Flow

LEMMA FirewallRound1OutStep ==
    ASSUME TypeOK, Flow, NEW p \in Firewalls, FirewallRound1Out(p)
    PROVE  TypeOK' /\ Flow'
  <1> DEFINE b == <<p, p + 1>>
  <1> PICK m : m = held[p]
    OBVIOUS
  <1>1. /\ p \in Procs /\ p # Sender /\ p # Receiver /\ p + 1 \in Procs
        /\ b \in Links /\ Forward(b) /\ b[1] = p
    BY FirewallFacts
  <1>2. /\ pc[p] = "r1out" /\ CanSend(p, p + 1) /\ Put(p, p + 1, m) /\ Loop(p, "r1in", "r2in")
        /\ UNCHANGED <<n, key, held, results, ver>>
    BY DEF FirewallRound1Out
  <1>3. /\ i[p] \in Nat /\ i[p] < n[p] /\ n[p] \in Nat /\ n[p] = n[Receiver]
        /\ key[p] = HopKey(p - 1) /\ m \in Ciphertexts /\ Encrypts(m, HopKey(p), X[i[p]])
    BY <1>1, <1>2, Basics DEF Flow, Placed, TypeOK
  <1>4. /\ \/ i[p] + 1 < n[p] /\ i'[p] = i[p] + 1 /\ pc'[p] = "r1in"
           \/ i[p] + 1 = n[p] /\ i'[p] = 0 /\ pc'[p] = "r2in"
        /\ i' \in [Procs -> Index] /\ pc' \in [Procs -> Places]
        /\ \A q \in Procs : q # p => i'[q] = i[q] /\ pc'[q] = pc[q]
    BY <1>1, <1>2, <1>3, LoopFacts DEF Places
  <1>5. Moves(p)
    BY <1>2, <1>4 DEF Moves, Ended
  <1>6. Advance(p, {}, {b})
    <2> SUFFICES ASSUME NEW k \in Links
                 PROVE  /\ k[2] = p => Taken(k)' = Taken(k) + (IF k \in {} THEN 1 ELSE 0)
                        /\ k[1] = p => Given(k)' = Given(k) + (IF k \in {b} THEN 1 ELSE 0)
      BY DEF Advance
    <2>1. k[1] = p => (k = b <=> Forward(k))
      BY <1>1, LinkEnds
    <2>2. Cursors(k) /\ Cursors(k)'
      BY CursorTable
    <2> QED BY <1>1, <1>2, <1>3, <1>4, <2>1, <2>2 DEF Cursors, Forward
  <1>7. Given(b) + 1 = i[p] + 2
    BY <1>1, <1>2, <1>3, CursorTable DEF Cursors
  <1>8. m \in Messages /\ \A t : t = Given(b) + 1 => IsMessage(b, t, m)'
    BY <1>1, <1>2, <1>3, <1>7, Round1Message
  <1>9. /\ wire' \in [Links -> Seq(Messages)] /\ \A k \in Links : Len(wire'[k]) <= Cap
        /\ Aligned' /\ Agreed'
        /\ \A r \in Procs : r # p => Placed(r)'
    BY <1>1, <1>2, <1>5, <1>6, <1>8, PutStep
  <1>10. TypeOK'
    BY <1>2, <1>4, <1>9 DEF TypeOK
  <1>11. Placed(p)'
    BY <1>1, <1>2, <1>3, <1>4 DEF Placed, HopKey
  <1>12. Outputs'
    BY <1>1, <1>2, <1>5, OutputsStay
  <1> QED BY <1>9, <1>10, <1>11, <1>12 DEF Flow

LEMMA FirewallRound2InStep ==
    ASSUME TypeOK, Flow, NEW p \in Firewalls, FirewallRound2In(p)
    PROVE  TypeOK' /\ Flow'
  <1> DEFINE a == <<p + 1, p>>
  <1>1. /\ p \in Procs /\ p # Sender /\ p # Receiver /\ p + 1 \in Procs
        /\ p \in 0..4 /\ p - 1 \in 0..4
        /\ a \in Links /\ ~Forward(a) /\ a[1] = p + 1 /\ a[2] = p
    BY FirewallFacts
  <1>2. /\ pc[p] = "r2in" /\ CanRecv(p, p + 1) /\ Take(p, p + 1)
        /\ pc' = [pc EXCEPT ![p] = "r2out"]
        /\ UNCHANGED <<n, i, key, results, ver>>
    BY DEF FirewallRound2In, Goto
  <1>3. /\ i[p] \in Nat /\ i[p] < n[p] /\ n[p] = n[Receiver] /\ key[p] = HopKey(p - 1)
    BY <1>1, <1>2, Basics DEF Flow, Placed
  <1> PICK c : c = MaulInvRerand(Head(wire[a]), Maul[p], EncZero(key[p], Coin[p][2][i[p]]))
    OBVIOUS
  <1>4. held' = [held EXCEPT ![p] = c]
    BY DEF FirewallRound2In, Message
  <1>5. c \in Ciphertexts /\ Encrypts(c, HopKey(p - 1), Result(i[p]))
    <2>1. Taken(a) + 1 = i[p] + 1
      BY <1>1, <1>2, <1>3, CursorTable DEF Cursors
    <2>2. IsMessage(a, i[p] + 1, Head(wire[a]))
      BY <1>1, <1>2, <2>1, HeadFacts DEF CanRecv
    <2>3. Head(wire[a]) \in Ciphertexts /\ Encrypts(Head(wire[a]), HopKey(p), Result(i[p]))
      BY <1>1, <1>3, <2>2, Round2Message
    <2>4. i[p] \in Index
      BY <1>1 DEF TypeOK
    <2>5. HopKey(p - 1) \in Int /\ Maul[p] \in Int /\ Coin[p][2][i[p]] \in Int
          /\ HopKey(p) = MaulPk(HopKey(p - 1), Maul[p])
      BY <1>1, <2>4, HopKeys, IndexFacts
    <2> QED BY <1>3, <2>3, <2>5, BackwardMovesKey
  <1>6. /\ pc'[p] = "r2out" /\ held'[p] = c
        /\ \A q \in Procs : q # p => pc'[q] = pc[q] /\ held'[q] = held[q]
        /\ pc' \in [Procs -> Places] /\ held' \in [Procs -> Ciphertexts]
    BY <1>1, <1>2, <1>4, <1>5 DEF TypeOK, Places
  <1>7. Moves(p)
    BY <1>2, <1>6 DEF Moves, Ended
  <1>8. Advance(p, {a}, {})
    <2> SUFFICES ASSUME NEW k \in Links
                 PROVE  /\ k[2] = p => Taken(k)' = Taken(k) + (IF k \in {a} THEN 1 ELSE 0)
                        /\ k[1] = p => Given(k)' = Given(k) + (IF k \in {} THEN 1 ELSE 0)
      BY DEF Advance
    <2>1. k[2] = p => (k = a <=> ~Forward(k))
      BY <1>1, LinkEnds
    <2>2. Cursors(k) /\ Cursors(k)'
      BY CursorTable
    <2>3. n[p] \in Nat
      BY <1>1, Basics
    <2> QED BY <1>1, <1>2, <1>3, <1>6, <2>1, <2>2, <2>3 DEF Cursors, Forward
  <1>9. /\ wire' \in [Links -> Seq(Messages)] /\ \A k \in Links : Len(wire'[k]) <= Cap
        /\ Aligned' /\ Agreed'
        /\ \A r \in Procs : r # p => Placed(r)'
    BY <1>1, <1>2, <1>7, <1>8, TakeStep
  <1>10. TypeOK'
    BY <1>2, <1>6, <1>9 DEF TypeOK
  <1>11. Placed(p)'
    BY <1>1, <1>2, <1>3, <1>5, <1>6 DEF Placed, HopKey, Result
  <1>12. Outputs'
    BY <1>1, <1>2, <1>7, OutputsStay
  <1> QED BY <1>9, <1>10, <1>11, <1>12 DEF Flow

LEMMA FirewallRound2OutStep ==
    ASSUME TypeOK, Flow, NEW p \in Firewalls, FirewallRound2Out(p)
    PROVE  TypeOK' /\ Flow'
  <1> DEFINE b == <<p, p - 1>>
  <1> PICK m : m = held[p]
    OBVIOUS
  <1>1. /\ p \in Procs /\ p # Sender /\ p # Receiver /\ p - 1 \in Procs
        /\ b \in Links /\ ~Forward(b) /\ b[1] = p /\ b[2] = p - 1
    BY FirewallFacts
  <1>2. /\ pc[p] = "r2out" /\ CanSend(p, p - 1) /\ Put(p, p - 1, m) /\ Loop(p, "r2in", "verdict")
        /\ UNCHANGED <<n, key, held, results, ver>>
    BY DEF FirewallRound2Out
  <1>3. /\ i[p] \in Nat /\ i[p] < n[p] /\ n[p] \in Nat /\ n[p] = n[Receiver]
        /\ key[p] = HopKey(p - 1) /\ m \in Ciphertexts /\ Encrypts(m, HopKey(p - 1), Result(i[p]))
    BY <1>1, <1>2, Basics DEF Flow, Placed, TypeOK
  <1>4. /\ \/ i[p] + 1 < n[p] /\ i'[p] = i[p] + 1 /\ pc'[p] = "r2in"
           \/ i[p] + 1 = n[p] /\ i'[p] = 0 /\ pc'[p] = "verdict"
        /\ i' \in [Procs -> Index] /\ pc' \in [Procs -> Places]
        /\ \A q \in Procs : q # p => i'[q] = i[q] /\ pc'[q] = pc[q]
    BY <1>1, <1>2, <1>3, LoopFacts DEF Places
  <1>5. Moves(p)
    BY <1>2, <1>4 DEF Moves, Ended
  <1>6. Advance(p, {}, {b})
    <2> SUFFICES ASSUME NEW k \in Links
                 PROVE  /\ k[2] = p => Taken(k)' = Taken(k) + (IF k \in {} THEN 1 ELSE 0)
                        /\ k[1] = p => Given(k)' = Given(k) + (IF k \in {b} THEN 1 ELSE 0)
      BY DEF Advance
    <2>1. k[1] = p => (k = b <=> ~Forward(k))
      BY <1>1, LinkEnds
    <2>2. Cursors(k) /\ Cursors(k)'
      BY CursorTable
    <2> QED BY <1>1, <1>2, <1>3, <1>4, <2>1, <2>2 DEF Cursors, Forward
  <1>7. Given(b) + 1 = i[p] + 1
    BY <1>1, <1>2, <1>3, CursorTable DEF Cursors
  <1>8. m \in Messages /\ \A t : t = Given(b) + 1 => IsMessage(b, t, m)'
    BY <1>1, <1>2, <1>3, <1>7, Round2Message
  <1>9. n[Receiver] = n[Sender]
    <2> DEFINE a == <<p + 1, p>>
    <2>1. a \in Links /\ ~Forward(a) /\ a[2] = p
      BY FirewallFacts
    <2>2. Taken(a) = i[p] + 1
      BY <1>2, <2>1, CursorTable DEF Cursors
    <2>3. pc[a[2]] # "failed" /\ Taken(a) > 0
      BY <1>2, <1>3, <2>1, <2>2
    <2> QED BY <2>1, <2>3 DEF Flow, Agreed
  <1>10. /\ wire' \in [Links -> Seq(Messages)] /\ \A k \in Links : Len(wire'[k]) <= Cap
         /\ Aligned' /\ Agreed'
         /\ \A r \in Procs : r # p => Placed(r)'
    BY <1>1, <1>2, <1>5, <1>6, <1>8, <1>9, PutStep
  <1>11. TypeOK'
    BY <1>2, <1>4, <1>10 DEF TypeOK
  <1>12. Placed(p)'
    BY <1>1, <1>2, <1>3, <1>4 DEF Placed, HopKey
  <1>13. Outputs'
    BY <1>1, <1>2, <1>5, OutputsStay
  <1> QED BY <1>10, <1>11, <1>12, <1>13 DEF Flow

\* The last message towards the sender is the verdict of a receiver that is done.
LEMMA VerdictMessage ==
    ASSUME TypeOK, Flow, NEW k \in Links, Forward(k), NEW p \in Procs, k[2] = p,
           pc[p] = "verdict", wire[k] # <<>>
    PROVE  Head(wire[k]) = [verdict |-> 1] /\ pc[Receiver] = "done"
  <1>1. n[p] = n[Receiver] /\ n[Receiver] \in Nat \ {0}
    BY Basics DEF Flow, Placed
  <1>2. Taken(k) + 1 = n[Receiver] + 2
    BY <1>1, CursorTable DEF Cursors
  <1>3. IsMessage(k, n[Receiver] + 2, Head(wire[k]))
    BY <1>2, HeadFacts
  <1>4. n[Receiver] + 2 # 1 /\ n[Receiver] + 2 \notin 2..(n[Receiver] + 1)
    BY <1>1
  <1> QED BY <1>3, <1>4 DEF IsMessage

LEMMA FirewallVerdictStep ==
    ASSUME TypeOK, Flow, NEW p \in Firewalls, FirewallVerdict(p)
    PROVE  TypeOK' /\ Flow'
  <1> DEFINE a == <<p - 1, p>>
             b == <<p, p + 1>>
  <1> PICK m : m = [verdict |-> 1]
    OBVIOUS
  <1>1. /\ p \in Procs /\ p # Sender /\ p # Receiver
        /\ a \in Links /\ Forward(a) /\ b \in Links /\ Forward(b)
        /\ a[1] = p - 1 /\ a[2] = p /\ b[1] = p
    BY FirewallFacts
  <1>2. /\ pc[p] = "verdict" /\ CanRecv(p, p - 1) /\ CanSend(p, p + 1)
        /\ pc' = [pc EXCEPT ![p] = "done"]
        /\ UNCHANGED <<n, i, key, held, results>>
    BY DEF FirewallVerdict, Goto
  <1>3. Message(p, p - 1) = m /\ m.verdict = 1 /\ pc[Receiver] = "done"
    BY <1>1, <1>2, VerdictMessage DEF CanRecv, Message
  <1>4. TakeAndPut(p, p - 1, p + 1, m) /\ ver' = [ver EXCEPT ![p] = 1]
    BY <1>3 DEF FirewallVerdict
  <1>5. /\ pc'[p] = "done" /\ ver'[p] = 1
        /\ \A q \in Procs : q # p => pc'[q] = pc[q] /\ ver'[q] = ver[q]
        /\ pc' \in [Procs -> Places] /\ ver' \in [Procs -> {0, 1}]
    BY <1>1, <1>2, <1>4 DEF TypeOK, Places
  <1>6. /\ i[p] = 0 /\ n[p] \in Nat /\ n[p] = n[Receiver] /\ key[p] = HopKey(p - 1)
        /\ pc'[Receiver] = "done"
    BY <1>1, <1>2, <1>3, <1>5, Basics, LinkFacts DEF Flow, Placed, Receiver
  <1>7. Moves(p)
    BY <1>2, <1>5 DEF Moves, Ended
  <1>8. Advance(p, {a}, {b})
    <2> SUFFICES ASSUME NEW k \in Links
                 PROVE  /\ k[2] = p => Taken(k)' = Taken(k) + (IF k \in {a} THEN 1 ELSE 0)
                        /\ k[1] = p => Given(k)' = Given(k) + (IF k \in {b} THEN 1 ELSE 0)
      BY DEF Advance
    <2>1. /\ k[2] = p => (k = a <=> Forward(k))
          /\ k[1] = p => (k = b <=> Forward(k))
      BY <1>1, LinkEnds
    <2>2. Cursors(k) /\ Cursors(k)'
      BY CursorTable
    <2> QED BY <1>1, <1>2, <1>5, <1>6, <2>1, <2>2 DEF Cursors, Forward
  <1>9. m \in Messages /\ \A t : t = Given(b) + 1 => IsMessage(b, t, m)'
    <2>1. Given(b) + 1 = n[Receiver] + 2
      BY <1>1, <1>2, <1>6, CursorTable DEF Cursors
    <2>2. n'[Receiver] = n[Receiver] /\ m \in Messages
      BY <1>2 DEF Messages
    <2>3. \A t : t = n[Receiver] + 2 => IsMessage(b, t, m)'
      BY <1>1, <1>6, <2>2 DEF IsMessage, Forward
    <2> QED BY <2>1, <2>2, <2>3
  <1>10. /\ wire' \in [Links -> Seq(Messages)] /\ \A k \in Links : Len(wire'[k]) <= Cap
         /\ Aligned' /\ Agreed'
         /\ \A r \in Procs : r # p => Placed(r)'
    BY <1>2, <1>4, <1>7, <1>8, <1>9, TakePutStep
  <1>11. TypeOK'
    BY <1>2, <1>5, <1>10 DEF TypeOK
  <1>12. Placed(p)'
    BY <1>1, <1>2, <1>5, <1>6 DEF Placed, HopKey
  <1>13. Outputs'
    BY <1>1, <1>2, <1>7, OutputsStay
  <1> QED BY <1>10, <1>11, <1>12, <1>13 DEF Flow

------------------------------------------------------------------------------
(***************************************************************************)
(* cg_sender                                                               *)
(***************************************************************************)
LEMMA SenderLinks ==
    /\ Sender \in Procs /\ SRF \in Procs /\ Sender # Receiver /\ SRF = Sender - 1
    /\ <<SRF, Sender>> \in Links /\ Forward(<<SRF, Sender>>)
    /\ <<Sender, SRF>> \in Links /\ ~Forward(<<Sender, SRF>>)
    /\ HopKey(Sender - 1) = HopKey(SRF) /\ HopKey(SRF) \in Int
  BY LinkFacts, LinkOf, HopKeys DEF Sender, SRF, Receiver

LEMMA SenderHeaderStep ==
    ASSUME TypeOK, Flow, SenderHeader
    PROVE  TypeOK' /\ Flow'
  <1> DEFINE p == Sender
             a == <<SRF, Sender>>
  <1>1. /\ p \in Procs /\ SRF \in Procs /\ p # Receiver /\ a \in Links /\ Forward(a)
        /\ a[1] = SRF /\ a[2] = p /\ HopKey(p - 1) = HopKey(SRF) /\ HopKey(SRF) \in Int
    BY SenderLinks
  <1>2. /\ pc[p] = "header" /\ CanRecv(p, SRF) /\ Take(p, SRF)
        /\ UNCHANGED <<n, i, held, results, ver>>
    BY DEF SenderHeader
  <1>3. i[p] = 0 /\ n[p] \in Counts /\ n[p] \in Nat \ {0}
    BY <1>1, <1>2, Basics, IndexFacts DEF Flow, Placed
  <1>4. Message(p, SRF).count = n[Receiver] /\ Message(p, SRF).pk = HopKey(SRF)
    <2>1. Taken(a) = 0
      BY <1>1, <1>2, CursorTable DEF Cursors
    <2>2. IsMessage(a, 1, Head(wire[a]))
      BY <1>1, <1>2, <2>1, HeadFacts DEF CanRecv
    <2>3. n[Receiver] \in Nat
      BY Basics
    <2>4. Head(wire[a]) = [count |-> n[Receiver], pk |-> HopKey(SRF)]
      BY <1>1, <2>2, <2>3 DEF IsMessage
    <2> QED BY <2>4 DEF Message
  <1>5. /\ key' = [key EXCEPT ![p] = HopKey(SRF)]
        /\ pc' = [pc EXCEPT ![p] = IF n[Receiver] = n[p] THEN "r1in" ELSE "failed"]
    BY <1>4 DEF SenderHeader, Goto
  <1>6. /\ (pc'[p] = "r1in" /\ n[Receiver] = n[p]) \/ pc'[p] = "failed"
        /\ key'[p] = HopKey(SRF)
        /\ \A q \in Procs : q # p => pc'[q] = pc[q] /\ key'[q] = key[q]
        /\ pc' \in [Procs -> Places] /\ key' \in [Procs -> Int]
    BY <1>1, <1>5 DEF TypeOK, Places
  <1>7. Moves(p)
    BY <1>2, <1>6 DEF Moves, Ended
  <1>8. pc'[p] = "failed" \/ Advance(p, {a}, {})
    <2> SUFFICES ASSUME pc'[p] = "r1in", NEW k \in Links
                 PROVE  /\ k[2] = p => Taken(k)' = Taken(k) + (IF k \in {a} THEN 1 ELSE 0)
                        /\ k[1] = p => Given(k)' = Given(k) + (IF k \in {} THEN 1 ELSE 0)
      BY <1>6 DEF Advance
    <2>1. /\ k[2] = p => Forward(k) /\ k = a
          /\ k[1] = p => ~Forward(k)
      BY <1>1, LinkEnds, SenderLinks
    <2>2. Cursors(k) /\ Cursors(k)'
      BY CursorTable
    <2> QED BY <1>1, <1>2, <1>3, <2>1, <2>2 DEF Cursors, Forward
  <1>9. /\ wire' \in [Links -> Seq(Messages)] /\ \A k \in Links : Len(wire'[k]) <= Cap
        /\ Aligned' /\ Agreed'
        /\ \A r \in Procs : r # p => Placed(r)'
    BY <1>1, <1>2, <1>6, <1>7, <1>8, TakeStep
  <1>10. TypeOK'
    BY <1>2, <1>6, <1>9 DEF TypeOK
  <1>11. Placed(p)'
    BY <1>1, <1>2, <1>3, <1>6 DEF Placed, HopKey
  <1>12. Outputs'
    BY <1>1, <1>2, <1>7, OutputsStay
  <1> QED BY <1>9, <1>10, <1>11, <1>12 DEF Flow

LEMMA SenderRecvStep ==
    ASSUME TypeOK, Flow, SenderRecv
    PROVE  TypeOK' /\ Flow'
  <1> DEFINE p == Sender
             a == <<SRF, Sender>>
  <1>1. /\ p \in Procs /\ SRF \in Procs /\ p # Receiver /\ a \in Links /\ Forward(a)
        /\ a[1] = SRF /\ a[2] = p /\ HopKey(p - 1) = HopKey(SRF) /\ HopKey(SRF) \in Int
    BY SenderLinks
  <1>2. /\ pc[p] = "r1in" /\ CanRecv(p, SRF) /\ Take(p, SRF)
        /\ pc' = [pc EXCEPT ![p] = "r2out"]
        /\ UNCHANGED <<n, i, key, results, ver>>
    BY DEF SenderRecv, Goto
  <1>3. i[p] \in Nat /\ i[p] < n[p] /\ n[p] = n[Receiver] /\ key[p] = HopKey(SRF)
    BY <1>1, <1>2, Basics DEF Flow, Placed
  <1> PICK c : c = Add(CMult(Head(wire[a]), A[i[p]]),
                       Encrypt(key[p], B[i[p]], Coin[p][1][i[p]]))
    OBVIOUS
  <1>4. held' = [held EXCEPT ![p] = c]
    BY DEF SenderRecv, Message
  <1>5. c \in Ciphertexts /\ Encrypts(c, HopKey(p - 1), Result(i[p]))
    <2>1. Taken(a) + 1 = i[p] + 2
      BY <1>1, <1>2, <1>3, CursorTable DEF Cursors
    <2>2. IsMessage(a, i[p] + 2, Head(wire[a]))
      BY <1>1, <1>2, <2>1, HeadFacts DEF CanRecv
    <2>3. Head(wire[a]) \in Ciphertexts /\ Encrypts(Head(wire[a]), HopKey(SRF), X[i[p]])
      BY <1>1, <1>3, <2>2, Round1Message
    <2>4. i[p] \in Index
      BY <1>1 DEF TypeOK
    <2>5. A[i[p]] \in Residues /\ B[i[p]] \in Residues /\ X[i[p]] \in Residues
          /\ Coin[p][1][i[p]] \in Int
      BY <1>1, <2>4, IndexFacts
    <2>6. c \in Ciphertexts /\ Encrypts(c, HopKey(SRF), (A[i[p]] * X[i[p]] + B[i[p]]) % Q)
      BY <1>1, <1>3, <2>3, <2>5, EvaluateFacts
    <2> QED BY <1>1, <2>6 DEF Result
  <1>6. /\ pc'[p] = "r2out" /\ held'[p] = c
        /\ \A q \in Procs : q # p => pc'[q] = pc[q] /\ held'[q] = held[q]
        /\ pc' \in [Procs -> Places] /\ held' \in [Procs -> Ciphertexts]
    BY <1>1, <1>2, <1>4, <1>5 DEF TypeOK, Places
  <1>7. Moves(p)
    BY <1>2, <1>6 DEF Moves, Ended
  <1>8. Advance(p, {a}, {})
    <2> SUFFICES ASSUME NEW k \in Links
                 PROVE  /\ k[2] = p => Taken(k)' = Taken(k) + (IF k \in {a} THEN 1 ELSE 0)
                        /\ k[1] = p => Given(k)' = Given(k) + (IF k \in {} THEN 1 ELSE 0)
      BY DEF Advance
    <2>1. /\ k[2] = p => Forward(k) /\ k = a
          /\ k[1] = p => ~Forward(k)
      BY <1>1, LinkEnds, SenderLinks
    <2>2. Cursors(k) /\ Cursors(k)'
      BY CursorTable
    <2> QED BY <1>1, <1>2, <1>3, <1>6, <2>1, <2>2 DEF Cursors, Forward
  <1>9. n[Receiver] = n[Sender]
    BY <1>3
  <1>10. /\ wire' \in [Links -> Seq(Messages)] /\ \A k \in Links : Len(wire'[k]) <= Cap
         /\ Aligned' /\ Agreed'
         /\ \A r \in Procs : r # p => Placed(r)'
    BY <1>1, <1>2, <1>7, <1>8, <1>9, TakeStep
  <1>11. TypeOK'
    BY <1>2, <1>6, <1>10 DEF TypeOK
  <1>12. Placed(p)'
    BY <1>1, <1>2, <1>3, <1>5, <1>6 DEF Placed, HopKey, Result
  <1>13. Outputs'
    BY <1>1, <1>2, <1>7, OutputsStay
  <1> QED BY <1>10, <1>11, <1>12, <1>13 DEF Flow

LEMMA SenderSendStep ==
    ASSUME TypeOK, Flow, SenderSend
    PROVE  TypeOK' /\ Flow'
  <1> DEFINE p == Sender
             b == <<Sender, SRF>>
  <1> PICK m : m = held[Sender]
    OBVIOUS
  <1>1. /\ p \in Procs /\ SRF \in Procs /\ p # Receiver /\ b \in Links /\ ~Forward(b)
        /\ b[1] = p /\ b[2] = SRF /\ HopKey(p - 1) = HopKey(SRF) /\ HopKey(SRF) \in Int
    BY SenderLinks
  <1>2. /\ pc[p] = "r2out" /\ CanSend(p, SRF) /\ Put(p, SRF, m) /\ Loop(p, "r1in", "verdict")
        /\ UNCHANGED <<n, key, held, results, ver>>
    BY DEF SenderSend
  <1>3. /\ i[p] \in Nat /\ i[p] < n[p] /\ n[p] \in Nat /\ n[p] = n[Receiver]
        /\ key[p] = HopKey(SRF) /\ m \in Ciphertexts /\ Encrypts(m, HopKey(SRF), Result(i[p]))
    BY <1>1, <1>2, Basics DEF Flow, Placed, TypeOK
  <1>4. /\ \/ i[p] + 1 < n[p] /\ i'[p] = i[p] + 1 /\ pc'[p] = "r1in"
           \/ i[p] + 1 = n[p] /\ i'[p] = 0 /\ pc'[p] = "verdict"
        /\ i' \in [Procs -> Index] /\ pc' \in [Procs -> Places]
        /\ \A q \in Procs : q # p => i'[q] = i[q] /\ pc'[q] = pc[q]
    BY <1>1, <1>2, <1>3, LoopFacts DEF Places
  <1>5. Moves(p)
    BY <1>2, <1>4 DEF Moves, Ended
  <1>6. Advance(p, {}, {b})
    <2> SUFFICES ASSUME NEW k \in Links
                 PROVE  /\ k[2] = p => Taken(k)' = Taken(k) + (IF k \in {} THEN 1 ELSE 0)
                        /\ k[1] = p => Given(k)' = Given(k) + (IF k \in {b} THEN 1 ELSE 0)
      BY DEF Advance
    <2>1. /\ k[2] = p => Forward(k)
          /\ k[1] = p => ~Forward(k) /\ k = b
      BY <1>1, LinkEnds, SenderLinks
    <2>2. Cursors(k) /\ Cursors(k)'
      BY CursorTable
    <2> QED BY <1>1, <1>2, <1>3, <1>4, <2>1, <2>2 DEF Cursors, Forward
  <1>7. Given(b) + 1 = i[p] + 1
    BY <1>1, <1>2, <1>3, CursorTable DEF Cursors
  <1>8. m \in Messages /\ \A t : t = Given(b) + 1 => IsMessage(b, t, m)'
    BY <1>1, <1>2, <1>3, <1>7, Round2Message
  <1>9. n[Receiver] = n[Sender]
    BY <1>3
  <1>10. /\ wire' \in [Links -> Seq(Messages)] /\ \A k \in Links : Len(wire'[k]) <= Cap
         /\ Aligned' /\ Agreed'
         /\ \A r \in Procs : r # p => Placed(r)'
    BY <1>1, <1>2, <1>5, <1>6, <1>8, <1>9, PutStep
  <1>11. TypeOK'
    BY <1>2, <1>4, <1>10 DEF TypeOK
  <1>12. Placed(p)'
    BY <1>1, <1>2, <1>3, <1>4 DEF Placed, HopKey
  <1>13. Outputs'
    BY <1>1, <1>2, <1>5, OutputsStay
  <1> QED BY <1>10, <1>11, <1>12, <1>13 DEF Flow

LEMMA SenderVerdictStep ==
    ASSUME TypeOK, Flow, SenderVerdict
    PROVE  TypeOK' /\ Flow'
  <1> DEFINE p == Sender
             a == <<SRF, Sender>>
  <1>1. /\ p \in Procs /\ SRF \in Procs /\ p # Receiver /\ a \in Links /\ Forward(a)
        /\ a[1] = SRF /\ a[2] = p /\ HopKey(p - 1) = HopKey(SRF) /\ HopKey(SRF) \in Int
    BY SenderLinks
  <1>2. /\ pc[p] = "verdict" /\ CanRecv(p, SRF) /\ Take(p, SRF)
        /\ pc' = [pc EXCEPT ![p] = "done"]
        /\ UNCHANGED <<n, i, key, held, results>>
    BY DEF SenderVerdict, Goto
  <1>3. Message(p, SRF) = [verdict |-> 1] /\ pc[Receiver] = "done"
    BY <1>1, <1>2, VerdictMessage DEF CanRecv, Message
  <1>4. ver' = [ver EXCEPT ![p] = 1]
    <2>1. Message(p, SRF).verdict = 1
      BY <1>3
    <2> QED BY <2>1 DEF SenderVerdict
  <1>5. /\ pc'[p] = "done" /\ ver'[p] = 1
        /\ \A q \in Procs : q # p => pc'[q] = pc[q] /\ ver'[q] = ver[q]
        /\ pc' \in [Procs -> Places] /\ ver' \in [Procs -> {0, 1}]
    BY <1>1, <1>2, <1>4 DEF TypeOK, Places
  <1>6. /\ i[p] = 0 /\ n[p] \in Nat /\ n[p] = n[Receiver] /\ key[p] = HopKey(SRF)
        /\ pc'[Receiver] = "done"
    BY <1>1, <1>2, <1>3, <1>5, Basics, LinkFacts DEF Flow, Placed, Receiver
  <1>7. Moves(p)
    BY <1>2, <1>5 DEF Moves, Ended
  <1>8. Advance(p, {a}, {})
    <2> SUFFICES ASSUME NEW k \in Links
                 PROVE  /\ k[2] = p => Taken(k)' = Taken(k) + (IF k \in {a} THEN 1 ELSE 0)
                        /\ k[1] = p => Given(k)' = Given(k) + (IF k \in {} THEN 1 ELSE 0)
      BY DEF Advance
    <2>1. /\ k[2] = p => Forward(k) /\ k = a
          /\ k[1] = p => ~Forward(k)
      BY <1>1, LinkEnds, SenderLinks
    <2>2. Cursors(k) /\ Cursors(k)'
      BY CursorTable
    <2> QED BY <1>1, <1>2, <1>5, <1>6, <2>1, <2>2 DEF Cursors, Forward
  <1>9. n[Receiver] = n[Sender]
    BY <1>6
  <1>10. /\ wire' \in [Links -> Seq(Messages)] /\ \A k \in Links : Len(wire'[k]) <= Cap
         /\ Aligned' /\ Agreed'
         /\ \A r \in Procs : r # p => Placed(r)'
    BY <1>1, <1>2, <1>7, <1>8, <1>9, TakeStep
  <1>11. TypeOK'
    BY <1>2, <1>5, <1>10 DEF TypeOK
  <1>12. Placed(p)'
    BY <1>1, <1>2, <1>5, <1>6 DEF Placed, HopKey
  <1>13. Outputs'
    BY <1>1, <1>2, <1>7, OutputsStay
  <1> QED BY <1>10, <1>11, <1>12, <1>13 DEF Flow

------------------------------------------------------------------------------
(***************************************************************************)
(* Failures, and the whole specification.                                  *)
(***************************************************************************)
\* Only a running program waits for another one.
LEMMA WaitingRuns ==
    ASSUME NEW p \in Procs, RecvPeer(p) # {} \/ SendPeer(p) # {}
    PROVE  ~Ended(p)
  BY DEF RecvPeer, SendPeer, Ended

LEMMA DieStep ==
    ASSUME TypeOK, Flow, NEW p \in Procs, Die(p), ~Ended(p)
    PROVE  TypeOK' /\ Flow'
  <1>1. pc' = [pc EXCEPT ![p] = "failed"] /\ UNCHANGED <<n, i, key, held, wire, results, ver>>
    BY DEF Die, Goto
  <1>2. /\ pc'[p] = "failed" /\ pc' \in [Procs -> Places]
        /\ \A q \in Procs : q # p => pc'[q] = pc[q]
    BY <1>1 DEF TypeOK, Places
  <1>3. Moves(p)
    BY <1>1, <1>2 DEF Moves
  <1>4. /\ wire' \in [Links -> Seq(Messages)] /\ \A k \in Links : Len(wire'[k]) <= Cap
        /\ Aligned' /\ Agreed'
        /\ \A r \in Procs : r # p => Placed(r)'
    <2> DEFINE In == {}
               Out == {}
    <2>1. In \in SUBSET Links /\ Out \in SUBSET Links
      OBVIOUS
    <2>2. wire' = [k \in Links |-> IF k \in In THEN Tail(wire[k])
                                   ELSE IF k \in Out THEN Append(wire[k], 0)
                                   ELSE wire[k]]
      BY <1>1 DEF TypeOK
    <2>3. \A k \in In : k[2] = p /\ wire[k] # <<>>
      OBVIOUS
    <2>4. \A k \in Out : /\ k[1] = p /\ Len(wire[k]) < Cap
                         /\ 0 \in Messages
                         /\ \A j : j = Given(k) + 1 => IsMessage(k, j, 0)'
                         /\ ~Forward(k) => n[Receiver] = n[Sender]
      OBVIOUS
    <2>5. (pc'[p] = "failed" /\ Out = {}) \/ Advance(p, In, Out)
      BY <1>2
    <2>6. p = Sender /\ pc'[p] \notin {"header", "failed"} => n[Receiver] = n[Sender]
      BY <1>2
    <2> HIDE DEF In, Out
    <2> QED BY <1>3, <2>1, <2>2, <2>3, <2>4, <2>5, <2>6, StreamStep
  <1>5. TypeOK'
    BY <1>1, <1>2, <1>4 DEF TypeOK
  <1>6. Placed(p)'
    BY <1>2 DEF Placed
  <1>7. Outputs'
    <2>1. CASE p = Receiver
      BY <1>1, <1>2, <2>1 DEF Flow, Outputs
    <2>2. CASE p # Receiver
      BY <1>1, <1>3, <2>2, OutputsStay
    <2> QED BY <2>1, <2>2
  <1> QED BY <1>4, <1>5, <1>6, <1>7 DEF Flow

LEMMA FlowInit == Init => TypeOK /\ Flow
  <1> SUFFICES ASSUME Init PROVE TypeOK /\ Flow
    OBVIOUS
  <1>1. /\ Receiver \in Procs /\ Sender \in Procs
        /\ Receiver \notin Firewalls /\ Sender \notin Firewalls
    BY LinkFacts DEF Receiver, Sender, Firewalls, RRF, SRF
  <1>2. n \in [Procs -> Counts \cup {0}] /\ n[Receiver] # 0 /\ n[Sender] # 0
    BY <1>1 DEF Init
  <1>3. n[Receiver] \in Counts /\ n[Sender] \in Counts
    BY <1>1, <1>2
  <1>4. 0 \in Index
    BY <1>3, IndexFacts
  <1>5. \A p \in Procs : pc[p] = "header" /\ i[p] = 0
    BY DEF Init
  <1>6. \A k \in Links : wire[k] = <<>> /\ Len(wire[k]) = 0
    BY DEF Init
  <1>7. TypeOK
    <2>1. Blank \in Ciphertexts
      BY QAssumption DEF Blank, Ciphertexts, Residues
    <2>2. pc \in [Procs -> Places] /\ i \in [Procs -> Index] /\ held \in [Procs -> Ciphertexts]
          /\ ver \in [Procs -> {0, 1}]
      BY <1>4, <2>1 DEF Init, Places
    <2>3. key \in [Procs -> Int]
      BY StandaloneInputs DEF Init
    <2>4. wire \in [Links -> Seq(Messages)] /\ \A k \in Links : Len(wire[k]) <= Cap
      BY <1>6, StandaloneCap DEF Init
    <2>5. results \in Seq(Residues \cup {Garbage})
      BY DEF Init
    <2> QED BY <1>2, <2>2, <2>3, <2>4, <2>5 DEF TypeOK
  <1>8. \A p \in Procs : Placed(p)
    <2>1. <<Receiver, RRF>> \in Links
      BY LinkFacts DEF Receiver, RRF
    <2> QED BY <1>5, <1>6, <2>1 DEF Placed
  <1>9. \A k \in Links : Given(k) = 0 /\ Taken(k) = 0
    BY <1>5, LinkFacts, CursorTable DEF Cursors
  <1>10. Aligned
    BY <1>6, <1>9 DEF Aligned
  <1>11. Outputs
    BY <1>1, <1>3, <1>5 DEF Init, Outputs
  <1>12. Agreed
    BY <1>1, <1>5, <1>6, <1>9 DEF Agreed
  <1> QED BY <1>7, <1>8, <1>10, <1>11, <1>12 DEF Flow

LEMMA FlowNext == TypeOK /\ Flow /\ [Next]_vars => (TypeOK /\ Flow)'
  <1> SUFFICES ASSUME TypeOK, Flow, [Next]_vars PROVE TypeOK' /\ Flow'
    OBVIOUS
  <1>1. CASE ReceiverNext
    BY <1>1, ReceiverHeaderStep, ReceiverSendStep, ReceiverRecvStep, ReceiverVerdictStep
       DEF ReceiverNext
  <1>2. ASSUME NEW p \in Firewalls, FirewallNext(p)
        PROVE  TypeOK' /\ Flow'
    BY <1>2, FirewallHeaderStep, FirewallRound1InStep, FirewallRound1OutStep,
       FirewallRound2InStep, FirewallRound2OutStep, FirewallVerdictStep DEF FirewallNext
  <1>3. CASE RrfNext \/ SrfNext
    BY <1>2, <1>3 DEF RrfNext, SrfNext, Firewalls
  <1>4. CASE SenderNext
    BY <1>4, SenderHeaderStep, SenderRecvStep, SenderSendStep, SenderVerdictStep
       DEF SenderNext
  <1>5. ASSUME NEW p \in Procs, PeerGone(p) \/ Timeout(p)
        PROVE  TypeOK' /\ Flow'
    <2>1. Die(p) /\ (RecvPeer(p) # {} \/ SendPeer(p) # {})
      BY <1>5 DEF PeerGone, Timeout, Blocked
    <2> QED BY <2>1, WaitingRuns, DieStep
  <1>6. CASE UNCHANGED vars
    <2>1. /\ n' = n /\ pc' = pc /\ i' = i /\ key' = key /\ held' = held /\ wire' = wire
          /\ results' = results /\ ver' = ver
      BY <1>6 DEF vars
    <2>2. TypeOK'
      BY <2>1 DEF TypeOK
    <2>3. \A p \in Procs : Placed(p)'
      BY <2>1 DEF Flow, Placed, HopKey, Result
    <2>4. Aligned'
      <3>1. \A k \in Links : Given(k)' = Given(k) /\ Taken(k)' = Taken(k)
        BY <2>1 DEF Given, Taken, Forward
      <3>2. \A k \in Links : \A t, m : IsMessage(k, t, m) => IsMessage(k, t, m)'
        BY <2>1 DEF IsMessage, Forward, HopKey, Result
      <3>3. ASSUME NEW k \in Links, pc'[k[2]] # "failed"
            PROVE  /\ pc'[k[1]] # "failed" => Given(k)' = Taken(k)' + Len(wire'[k])
                   /\ \A j \in 1..Len(wire'[k]) : \A t, m :
                        t = Taken(k)' + j /\ m = wire'[k][j] => IsMessage(k, t, m)'
        BY <2>1, <3>1, <3>2, <3>3 DEF Flow, Aligned
      <3> QED BY <3>3 DEF Aligned
    <2>5. Outputs'
      BY <2>1 DEF Flow, Outputs, Result
    <2>6. Agreed'
      BY <2>1 DEF Flow, Agreed, Taken, Forward
    <2> QED BY <2>2, <2>3, <2>4, <2>5, <2>6 DEF Flow
  <1> QED BY <1>1, <1>3, <1>4, <1>5, <1>6 DEF Next, Protocol, Finished

\* The inductive invariant holds in every reachable state.
THEOREM StandaloneFlow == Spec => [](TypeOK /\ Flow)
  BY FlowInit, FlowNext, PTL DEF Spec

\* Every variable keeps its type: no counter leaves the batch, no socket holds more
\* than its capacity, and only headers, ciphertexts and verdicts travel.
THEOREM StandaloneTypes == Spec => []TypeOK
  BY StandaloneFlow, PTL

\* A program that ends normally knows the verdict "verified", the counts of receiver
\* and sender agree and the receiver holds a_i x_i + b_i for every i, whatever
\* programs time out or lose their peers, and when.
THEOREM VerdictsSound == Spec => []VerdictSound
  <1>1. TypeOK /\ Flow => VerdictSound
    <2> SUFFICES ASSUME TypeOK, Flow, NEW p \in Procs, pc[p] = "done"
                 PROVE  /\ ver[p] = 1 /\ n[Receiver] = n[Sender]
                        /\ results = [j \in 1..n[Receiver] |-> Result(j - 1)]
      BY DEF VerdictSound
    <2>1. ver[p] = 1 /\ pc[Receiver] = "done"
      BY DEF Flow, Placed
    <2>2. results = [j \in 1..n[Receiver] |-> Result(j - 1)]
      BY <2>1 DEF Flow, Outputs
    <2> DEFINE k == <<RRF, Receiver>>
    <2>3. k \in Links /\ ~Forward(k) /\ k[2] = Receiver
      BY LinkFacts DEF RRF, Receiver, Forward
    <2>4. Taken(k) = n[Receiver] /\ n[Receiver] \in Nat \ {0}
      BY <2>1, <2>3, CursorTable, Basics DEF Cursors
    <2>5. pc[k[2]] # "failed" /\ Taken(k) > 0
      BY <2>1, <2>3, <2>4
    <2>6. n[Receiver] = n[Sender]
      BY <2>3, <2>5 DEF Flow, Agreed
    <2> QED BY <2>1, <2>2, <2>6
  <1> QED BY <1>1, StandaloneFlow, PTL

------------------------------------------------------------------------------
(***************************************************************************)
(* Backpressure.                                                           *)
(***************************************************************************)
\* Where a program that waits is: what it has taken (t) and given (g) in the two
\* directions, and what is on the link before (l, m) and after it (u, v), for a
\* batch of N.
WaitingReceiver(N, gf, tb, u, v) ==
    \/ gf <= N /\ tb = 0 /\ u = Cap
    \/ gf = N + 1 /\ tb < N /\ v = 0
    \/ gf = N + 1 /\ tb = N /\ u = Cap

WaitingFirewall(N, tf, gf, tb, gb, l, m, u, v) ==
    \/ tf = 0 /\ gf = 0 /\ tb = 0 /\ gb = 0 /\ (l = 0 \/ u = Cap)
    \/ tf = gf /\ gf <= N /\ tb = 0 /\ gb = 0 /\ l = 0
    \/ tf = gf + 1 /\ gf <= N /\ tb = 0 /\ gb = 0 /\ u = Cap
    \/ tf = N + 1 /\ gf = N + 1 /\ tb = gb /\ gb < N /\ v = 0
    \/ tf = N + 1 /\ gf = N + 1 /\ tb = gb + 1 /\ gb < N /\ m = Cap
    \/ tf = N + 1 /\ gf = N + 1 /\ tb = N /\ gb = N /\ (l = 0 \/ u = Cap)

WaitingSender(N, tf, gb, l, m) ==
    \/ tf = 0 /\ gb = 0 /\ l = 0
    \/ tf = gb + 1 /\ gb < N /\ l = 0
    \/ tf = gb + 2 /\ gb < N /\ m = Cap
    \/ tf = N + 1 /\ gb = N /\ l = 0

\* Whom a program waits for, place by place.
LEMMA Waits ==
    ASSUME TypeOK, Flow, NEW p \in Procs, Blocked(p)
    PROVE  /\ pc[p] = "header" => (p # Receiver /\ Len(wire[<<p - 1, p>>]) = 0)
                                    \/ (p # Sender /\ Len(wire[<<p, p + 1>>]) = Cap)
           /\ pc[p] = "r1in" => p # Receiver /\ Len(wire[<<p - 1, p>>]) = 0
           /\ pc[p] = "r1out" => p # Sender /\ Len(wire[<<p, p + 1>>]) = Cap
           /\ pc[p] = "r2in" => p # Sender /\ Len(wire[<<p + 1, p>>]) = 0
           /\ pc[p] = "r2out" => p # Receiver /\ Len(wire[<<p, p - 1>>]) = Cap
           /\ pc[p] = "verdict" => (p # Receiver /\ Len(wire[<<p - 1, p>>]) = 0)
                                     \/ (p # Sender /\ Len(wire[<<p, p + 1>>]) = Cap)
  <1>1. /\ pc[p] = "r1in" \/ pc[p] = "r2out" => p # Receiver
        /\ pc[p] = "r1out" \/ pc[p] = "r2in" => p # Sender
    BY DEF Flow, Placed
  <1>2. ASSUME NEW q \in Procs, <<q, p>> \in Links, ~CanRecv(p, q)
        PROVE  Len(wire[<<q, p>>]) = 0
    BY <1>2 DEF CanRecv
  <1>3. ASSUME NEW q \in Procs, <<p, q>> \in Links, ~CanSend(p, q)
        PROVE  Len(wire[<<p, q>>]) = Cap
    <2>1. Len(wire[<<p, q>>]) \in Nat /\ Len(wire[<<p, q>>]) <= Cap
      BY <1>3 DEF TypeOK
    <2> QED BY <1>3, <2>1, StandaloneCap DEF CanSend
  <1>4. /\ p # Sender => p + 1 \in Procs /\ <<p, p + 1>> \in Links /\ <<p + 1, p>> \in Links
        /\ p # Receiver => p - 1 \in Procs /\ <<p - 1, p>> \in Links /\ <<p, p - 1>> \in Links
    BY LinkOf
  <1>5. /\ pc[p] \in {"header", "verdict"} =>
             /\ RecvPeer(p) = IF p # Receiver THEN {p - 1} ELSE {}
             /\ SendPeer(p) = IF p # Sender THEN {p + 1} ELSE {}
        /\ pc[p] = "r1in" => RecvPeer(p) = {p - 1} /\ SendPeer(p) = {}
        /\ pc[p] = "r1out" => RecvPeer(p) = {} /\ SendPeer(p) = {p + 1}
        /\ pc[p] = "r2in" => RecvPeer(p) = {p + 1} /\ SendPeer(p) = {}
        /\ pc[p] = "r2out" => RecvPeer(p) = {} /\ SendPeer(p) = {p - 1}
    BY DEF RecvPeer, SendPeer
  <1>6. \/ \E q \in RecvPeer(p) : ~CanRecv(p, q)
        \/ \E q \in SendPeer(p) : ~CanSend(p, q)
    BY DEF Blocked
  <1>7. pc[p] \in {"header", "verdict"} => (p # Receiver /\ Len(wire[<<p - 1, p>>]) = 0)
                                             \/ (p # Sender /\ Len(wire[<<p, p + 1>>]) = Cap)
    BY <1>2, <1>3, <1>4, <1>5, <1>6
  <1>8. pc[p] = "r1in" => p # Receiver /\ Len(wire[<<p - 1, p>>]) = 0
    BY <1>1, <1>2, <1>4, <1>5, <1>6
  <1>9. pc[p] = "r1out" => p # Sender /\ Len(wire[<<p, p + 1>>]) = Cap
    BY <1>1, <1>3, <1>4, <1>5, <1>6
  <1>10. pc[p] = "r2in" => p # Sender /\ Len(wire[<<p + 1, p>>]) = 0
    BY <1>1, <1>2, <1>4, <1>5, <1>6
  <1>11. pc[p] = "r2out" => p # Receiver /\ Len(wire[<<p, p - 1>>]) = Cap
    BY <1>1, <1>3, <1>4, <1>5, <1>6
  <1> QED BY <1>7, <1>8, <1>9, <1>10, <1>11

LEMMA ReceiverWaits ==
    ASSUME TypeOK, Flow, Blocked(Receiver), ~Ended(Receiver)
    PROVE  WaitingReceiver(n[Receiver], Given(<<Receiver, RRF>>), Taken(<<RRF, Receiver>>),
                           Len(wire[<<Receiver, RRF>>]), Len(wire[<<RRF, Receiver>>]))
  <1> DEFINE p == Receiver
             b == <<Receiver, RRF>>
             c == <<RRF, Receiver>>
  <1>1. /\ p \in Procs /\ p # Sender /\ b = <<p, p + 1>> /\ b \in Links /\ Forward(b)
        /\ b[1] = p /\ c = <<p + 1, p>> /\ c \in Links /\ ~Forward(c) /\ c[2] = p
    BY LinkFacts DEF Receiver, RRF, Sender, Forward
  <1>2. pc[p] \in Places /\ Placed(p) /\ n[p] \in Nat \ {0} /\ i[p] \in Nat
    BY <1>1, Basics DEF TypeOK, Flow
  <1>3. pc[p] # "header"
    <2>1. pc[p] = "header" => Len(wire[b]) = Cap
      BY <1>1, Waits
    <2>2. pc[p] = "header" => Len(wire[b]) = 0
      BY <1>2 DEF Placed
    <2> QED BY <2>1, <2>2, StandaloneCap
  <1>4. pc[p] \in {"r1out", "r2in", "verdict"}
    BY <1>2, <1>3 DEF Places, Placed, Ended
  <1>5. /\ pc[p] = "r1out" => Len(wire[b]) = Cap
        /\ pc[p] = "r2in" => Len(wire[c]) = 0
        /\ pc[p] = "verdict" => Len(wire[b]) = Cap
    BY <1>1, Waits
  <1>6. pc[p] \in {"r1out", "r2in"} => i[p] < n[p]
    BY <1>2 DEF Placed
  <1>7. Cursors(b) /\ Cursors(c)
    BY <1>1, CursorTable
  <1>8. /\ pc[p] = "r1out" => Given(b) = i[p] + 1 /\ Taken(c) = 0
        /\ pc[p] = "r2in" => Given(b) = n[p] + 1 /\ Taken(c) = i[p]
        /\ pc[p] = "verdict" => Given(b) = n[p] + 1 /\ Taken(c) = n[p]
    BY <1>1, <1>7 DEF Cursors
  <1> QED BY <1>2, <1>4, <1>5, <1>6, <1>8 DEF WaitingReceiver

LEMMA FirewallWaits ==
    ASSUME TypeOK, Flow, NEW p \in Firewalls, Blocked(p), ~Ended(p)
    PROVE  WaitingFirewall(n[Receiver],
                           Taken(<<p - 1, p>>), Given(<<p, p + 1>>),
                           Taken(<<p + 1, p>>), Given(<<p, p - 1>>),
                           Len(wire[<<p - 1, p>>]), Len(wire[<<p, p - 1>>]),
                           Len(wire[<<p, p + 1>>]), Len(wire[<<p + 1, p>>]))
  <1> DEFINE a == <<p - 1, p>>
             b == <<p, p + 1>>
             c == <<p + 1, p>>
             d == <<p, p - 1>>
  <1>1. /\ p \in Procs /\ p # Sender /\ p # Receiver
        /\ a \in Links /\ Forward(a) /\ a[2] = p /\ b \in Links /\ Forward(b) /\ b[1] = p
        /\ c \in Links /\ ~Forward(c) /\ c[2] = p /\ d \in Links /\ ~Forward(d) /\ d[1] = p
    BY FirewallFacts
  <1>2. pc[p] \in Places /\ Placed(p) /\ n[Receiver] \in Nat \ {0} /\ i[p] \in Nat
    BY <1>1, Basics DEF TypeOK, Flow
  <1>3. pc[p] \in {"header", "r1in", "r1out", "r2in", "r2out", "verdict"}
    BY <1>2 DEF Places, Ended
  <1>4. /\ pc[p] \in {"header", "verdict"} => Len(wire[a]) = 0 \/ Len(wire[b]) = Cap
        /\ pc[p] = "r1in" => Len(wire[a]) = 0
        /\ pc[p] = "r1out" => Len(wire[b]) = Cap
        /\ pc[p] = "r2in" => Len(wire[c]) = 0
        /\ pc[p] = "r2out" => Len(wire[d]) = Cap
    BY <1>1, Waits
  <1>5. /\ pc[p] \in {"r1in", "r1out", "r2in", "r2out"} => i[p] < n[p]
        /\ pc[p] # "header" => n[p] = n[Receiver]
    BY <1>2, <1>3 DEF Placed
  <1>6. Cursors(a) /\ Cursors(b) /\ Cursors(c) /\ Cursors(d)
    BY <1>1, CursorTable
  <1>7. /\ pc[p] = "header" => Taken(a) = 0 /\ Given(b) = 0
        /\ pc[p] = "r1in" => Taken(a) = i[p] + 1 /\ Given(b) = i[p] + 1
        /\ pc[p] = "r1out" => Taken(a) = i[p] + 2 /\ Given(b) = i[p] + 1
        /\ pc[p] \in {"r2in", "r2out", "verdict"} =>
             Taken(a) = n[p] + 1 /\ Given(b) = n[p] + 1
    BY <1>1, <1>6 DEF Cursors
  <1>8. /\ pc[p] \in {"header", "r1in", "r1out"} => Taken(c) = 0 /\ Given(d) = 0
        /\ pc[p] = "r2in" => Taken(c) = i[p] /\ Given(d) = i[p]
        /\ pc[p] = "r2out" => Taken(c) = i[p] + 1 /\ Given(d) = i[p]
        /\ pc[p] = "verdict" => Taken(c) = n[p] /\ Given(d) = n[p]
    BY <1>1, <1>6 DEF Cursors
  <1> HIDE DEF a, b, c, d
  <1>9. WaitingFirewall(n[Receiver], Taken(a), Given(b), Taken(c), Given(d),
                        Len(wire[a]), Len(wire[d]), Len(wire[b]), Len(wire[c]))
    <2>1. CASE pc[p] = "header"
      BY <1>4, <1>7, <1>8, <2>1 DEF WaitingFirewall
    <2>2. CASE pc[p] = "r1in"
      BY <1>2, <1>4, <1>5, <1>7, <1>8, <2>2 DEF WaitingFirewall
    <2>3. CASE pc[p] = "r1out"
      BY <1>2, <1>4, <1>5, <1>7, <1>8, <2>3 DEF WaitingFirewall
    <2>4. CASE pc[p] = "r2in"
      BY <1>2, <1>4, <1>5, <1>7, <1>8, <2>4 DEF WaitingFirewall
    <2>5. CASE pc[p] = "r2out"
      BY <1>2, <1>4, <1>5, <1>7, <1>8, <2>5 DEF WaitingFirewall
    <2>6. CASE pc[p] = "verdict"
      BY <1>2, <1>4, <1>5, <1>7, <1>8, <2>6 DEF WaitingFirewall
    <2> QED BY <1>3, <2>1, <2>2, <2>3, <2>4, <2>5, <2>6
  <1> QED BY <1>9 DEF a, b, c, d

LEMMA SenderWaits ==
    ASSUME TypeOK, Flow, Blocked(Sender), ~Ended(Sender)
    PROVE  WaitingSender(n[Receiver], Taken(<<SRF, Sender>>), Given(<<Sender, SRF>>),
                         Len(wire[<<SRF, Sender>>]), Len(wire[<<Sender, SRF>>]))
  <1> DEFINE p == Sender
             a == <<SRF, Sender>>
             d == <<Sender, SRF>>
  <1>1. /\ p \in Procs /\ p # Receiver /\ a = <<p - 1, p>> /\ a \in Links /\ Forward(a)
        /\ a[2] = p /\ d = <<p, p - 1>> /\ d \in Links /\ ~Forward(d) /\ d[1] = p
    BY SenderLinks
  <1>2. pc[p] \in Places /\ Placed(p) /\ n[Receiver] \in Nat \ {0} /\ i[p] \in Nat
    BY <1>1, Basics DEF TypeOK, Flow
  <1>3. pc[p] \in {"header", "r1in", "r2out", "verdict"}
    BY <1>2 DEF Places, Placed, Ended
  <1>4. /\ pc[p] \in {"header", "r1in", "verdict"} => Len(wire[a]) = 0
        /\ pc[p] = "r2out" => Len(wire[d]) = Cap
    BY <1>1, Waits
  <1>5. /\ pc[p] \in {"r1in", "r2out"} => i[p] < n[p]
        /\ pc[p] # "header" => n[p] = n[Receiver]
    BY <1>1, <1>2, <1>3 DEF Placed
  <1>6. Cursors(a) /\ Cursors(d)
    BY <1>1, CursorTable
  <1>7. /\ pc[p] = "header" => Taken(a) = 0 /\ Given(d) = 0
        /\ pc[p] = "r1in" => Taken(a) = i[p] + 1 /\ Given(d) = i[p]
        /\ pc[p] = "r2out" => Taken(a) = i[p] + 2 /\ Given(d) = i[p]
        /\ pc[p] = "verdict" => Taken(a) = n[p] + 1 /\ Given(d) = n[p]
    BY <1>1, <1>6 DEF Cursors
  <1> QED BY <1>2, <1>3, <1>4, <1>5, <1>7 DEF WaitingSender

\* The programs block each other only on a batch that does not fit: for every socket
\* capacity a batch of at most 2 Cap + 1 is never stuck.  Four waiting programs need
\* more: the sender's answers fill its socket, the current one is in its hands, and
\* the second firewall, still in round 1, has filled the socket towards it.
THEOREM FittingBatchesFlow == Spec => []FitsNeverStuck
  <1>1. TypeOK /\ Flow => FitsNeverStuck
    <2> SUFFICES ASSUME TypeOK, Flow, Stuck
                 PROVE  n[Receiver] > 2 * Cap + 1
      BY Basics, StandaloneCap DEF FitsNeverStuck
    <2>1. \A p \in Procs : ~Ended(p) /\ Blocked(p) /\ pc[p] # "failed"
      BY DEF Stuck, Ended
    <2>2. \A k \in Links : /\ Given(k) = Taken(k) + Len(wire[k]) /\ Taken(k) \in Nat
                           /\ Len(wire[k]) \in Nat /\ Len(wire[k]) <= Cap
      BY <2>1, Basics, LinkFacts DEF Flow, Aligned, TypeOK
    <2>3. /\ Receiver \in Procs /\ RRF \in Firewalls /\ SRF \in Firewalls /\ Sender \in Procs
          /\ RRF \in Procs /\ SRF \in Procs
          /\ RRF - 1 = Receiver /\ RRF + 1 = SRF /\ SRF - 1 = RRF /\ SRF + 1 = Sender
      BY LinkFacts DEF Firewalls, Receiver, RRF, SRF, Sender
    <2>4. /\ <<Receiver, RRF>> \in Links /\ <<RRF, SRF>> \in Links /\ <<SRF, Sender>> \in Links
          /\ <<Sender, SRF>> \in Links /\ <<SRF, RRF>> \in Links /\ <<RRF, Receiver>> \in Links
      BY LinkFacts DEF Receiver, RRF, SRF, Sender
    <2> DEFINE N == n[Receiver]
               l12 == Len(wire[<<Receiver, RRF>>])
               l23 == Len(wire[<<RRF, SRF>>])
               l34 == Len(wire[<<SRF, Sender>>])
               l43 == Len(wire[<<Sender, SRF>>])
               l32 == Len(wire[<<SRF, RRF>>])
               l21 == Len(wire[<<RRF, Receiver>>])
               g12 == Given(<<Receiver, RRF>>)
               g23 == Given(<<RRF, SRF>>)
               g34 == Given(<<SRF, Sender>>)
               g43 == Given(<<Sender, SRF>>)
               g32 == Given(<<SRF, RRF>>)
               g21 == Given(<<RRF, Receiver>>)
               t12 == Taken(<<Receiver, RRF>>)
               t23 == Taken(<<RRF, SRF>>)
               t34 == Taken(<<SRF, Sender>>)
               t43 == Taken(<<Sender, SRF>>)
               t32 == Taken(<<SRF, RRF>>)
               t21 == Taken(<<RRF, Receiver>>)
    <2>5. WaitingReceiver(N, g12, t21, l12, l21)
      BY <2>1, <2>2, <2>3, <2>4, ReceiverWaits
    <2>6. WaitingFirewall(N, t12, g23, t32, g21, l12, l21, l23, l32)
      BY <2>1, <2>2, <2>3, <2>4, FirewallWaits
    <2>7. WaitingFirewall(N, t23, g34, t43, g32, l23, l32, l34, l43)
      BY <2>1, <2>2, <2>3, <2>4, FirewallWaits
    <2>8. WaitingSender(N, t34, g43, l34, l43)
      BY <2>1, <2>2, <2>3, <2>4, SenderWaits
    <2>9. /\ g12 = t12 + l12 /\ t12 \in Nat /\ l12 \in Nat /\ l12 <= Cap
          /\ g23 = t23 + l23 /\ t23 \in Nat /\ l23 \in Nat /\ l23 <= Cap
          /\ g34 = t34 + l34 /\ t34 \in Nat /\ l34 \in Nat /\ l34 <= Cap
          /\ g43 = t43 + l43 /\ t43 \in Nat /\ l43 \in Nat /\ l43 <= Cap
          /\ g32 = t32 + l32 /\ t32 \in Nat /\ l32 \in Nat /\ l32 <= Cap
          /\ g21 = t21 + l21 /\ t21 \in Nat /\ l21 \in Nat /\ l21 <= Cap
      BY <2>2, <2>4, Zenon
    <2>10. N \in Nat /\ N > 0
      BY Basics
    <2> HIDE DEF N, l12, l23, l34, l43, l32, l21, t12, t23, t34, t43, t32, t21,
                 g12, g23, g34, g43, g32, g21
    <2>11. g12 \in Nat /\ g23 \in Nat /\ g34 \in Nat /\ g43 \in Nat /\ g32 \in Nat /\ g21 \in Nat
      BY <2>9
    <2>12. N > 2 * Cap + 1
      BY <2>5, <2>6, <2>7, <2>8, <2>9, <2>10, <2>11, StandaloneCap, SMTT(60)
         DEF WaitingReceiver, WaitingFirewall, WaitingSender
    <2> QED BY <2>12 DEF N
  <1> QED BY <1>1, StandaloneFlow, PTL
==============================================================================
