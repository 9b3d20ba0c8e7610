--------------------------- MODULE RelayChainProofs ---------------------------
(***************************************************************************)
(* Proofs about RelayChain, for every count, number of lanes, mix of chunk *)
(* sizes, buffer size, input, blind, key, shift, coin and number of deaths.*)
(*                                                                         *)
(* The invariant is TypeOK /\ Flow.  On every lane the programs' cursors   *)
(* say how many items of each message they have given or taken; all that   *)
(* was given and not taken is on the wire, in order, and right for the hop *)
(* it is on.  What a program holds is right because it was so on the wire. *)
(***************************************************************************)
EXTENDS RelayChain, ArithmeticProofs

(***************************************************************************)
(* The numbers and the parts of a message.                                 *)
(***************************************************************************)
LEMMA Basics ==
    ASSUME TypeOK
    PROVE  /\ lanes \in Nat \ {0} /\ N \in Nat \ {0} /\ Lanes = 0..(lanes - 1)
           /\ Procs = {1, 2, 3, 4} /\ Members \subseteq Procs
           /\ Sender \in Members /\ Receiver \in Members
           /\ protocol \in {"ole3", "rf_ole3", "reveal"}
           /\ protocol # "ole3" => Members = {1, 2, 3, 4}
           /\ protocol = "ole3" => Members = {1, 4}
  BY ChainBounds DEF TypeOK, Lanes, MaxLanes, Procs, Members, Sender, Receiver

\* Lane l's part of a message, for any chunk of it.
LEMMA PartFacts ==
    ASSUME TypeOK, NEW m \in Messages, NEW l \in Lanes
    PROVE  /\ Size(m) \in Nat \ {0} /\ Size(m) <= N
           /\ From(m, l) \in Nat /\ Upto(m, l) \in Nat /\ From(m, l) <= Upto(m, l)
           /\ Upto(m, l) <= Size(m)
           /\ \A b \in 0..Size(m) : /\ First(m, l, b) = Greatest(From(m, l), b)
                                    /\ Last(m, l, b) = Least(Upto(m, l), b)
  <1>1. lanes \in Nat \ {0} /\ N \in Nat \ {0} /\ l \in 0..(lanes - 1)
    BY Basics
  <1>2. Size(m) \in Nat \ {0} /\ Size(m) <= N
    BY <1>1 DEF Size
  <1>3. CASE m \in {"pk", "z"}
    <2>1. /\ From(m, l) = 0 /\ Upto(m, l) = IF l = 0 THEN Size(m) ELSE 0
          /\ \A b : First(m, l, b) = b /\ Last(m, l, b) = IF l = 0 THEN b ELSE 0
      BY <1>3 DEF From, Upto, First, Last
    <2> QED BY <1>1, <1>2, <2>1 DEF Least, Greatest
  <1>4. CASE m \notin {"pk", "z"}
    <2> DEFINE f == RfLaneBegin(N, lanes, l)
               g == RfLaneEnd(N, lanes, l)
    <2>1. f \in Nat /\ g \in Nat /\ f <= g /\ g <= N
      BY <1>1, LaneBounds
    <2>2. /\ From(m, l) = Greatest(f, 0) /\ Upto(m, l) = Least(g, N) /\ Size(m) = N
          /\ \A b : First(m, l, b) = Greatest(f, b) /\ Last(m, l, b) = Least(g, b)
      BY <1>4 DEF From, Upto, First, Last, SliceBegin, SliceEnd, Size
    <2> HIDE DEF f, g
    <2>3. From(m, l) = f /\ Upto(m, l) = g
      BY <1>1, <2>1, <2>2 DEF Least, Greatest
    <2> QED BY <1>1, <2>1, <2>2, <2>3
  <1> QED BY <1>3, <1>4

\* Every item of a message has a lane.
LEMMA SomePart ==
    ASSUME TypeOK, NEW m \in Messages, NEW i \in 0..(Size(m) - 1)
    PROVE  \E l \in Lanes : From(m, l) <= i /\ i < Upto(m, l)
  <1>1. lanes \in Nat \ {0} /\ N \in Nat \ {0} /\ Lanes = 0..(lanes - 1)
    BY Basics
  <1>2. CASE m \in {"pk", "z"}
    <2>1. 0 \in Lanes
      BY <1>1
    <2>2. From(m, 0) = 0 /\ Upto(m, 0) = Size(m)
      BY <1>2 DEF From, Upto, First, Last
    <2>3. Size(m) \in Nat
      BY <1>1 DEF Size
    <2> QED BY <2>1, <2>2, <2>3
  <1>3. CASE m \notin {"pk", "z"}
    <2>1. Size(m) = N
      BY <1>3 DEF Size
    <2>2. PICK l \in 0..(lanes - 1) : RfLaneBegin(N, lanes, l) <= i /\ i < RfLaneEnd(N, lanes, l)
      BY <1>1, <2>1, SomeLane
    <2>3. From(m, l) = Greatest(RfLaneBegin(N, lanes, l), 0)
          /\ Upto(m, l) = Least(RfLaneEnd(N, lanes, l), N)
      BY <1>3 DEF From, Upto, First, Last, SliceBegin, SliceEnd, Size
    <2>4. RfLaneBegin(N, lanes, l) \in Nat /\ RfLaneEnd(N, lanes, l) \in Nat
      BY <1>1, LaneBounds
    <2> QED BY <1>1, <2>1, <2>2, <2>3, <2>4 DEF Least, Greatest
  <1> QED BY <1>2, <1>3

\* Where a lane is.
LEMMA WhereFacts ==
    ASSUME TypeOK, NEW m \in Messages, NEW l \in Lanes
    PROVE  /\ Where(m, l, 0) = From(m, l) /\ Where(m, l, Size(m)) = Upto(m, l)
           /\ \A i \in Nat : /\ Where(m, l, i) \in Nat
                             /\ From(m, l) <= Where(m, l, i) /\ Where(m, l, i) <= Upto(m, l)
           /\ \A i, j \in Nat : i <= j => Where(m, l, i) <= Where(m, l, j)
           /\ \A i \in Nat : i < From(m, l) => Where(m, l, i) = From(m, l)
           /\ \A i \in Nat : From(m, l) <= i /\ i <= Upto(m, l) => Where(m, l, i) = i
           /\ \A b \in 0..Size(m) : Where(m, l, First(m, l, b)) = Where(m, l, b)
                                    /\ First(m, l, b) \in 0..N
  <1> DEFINE f == From(m, l)
             g == Upto(m, l)
             n == Size(m)
  <1>1. /\ f \in Nat /\ g \in Nat /\ f <= g /\ g <= n /\ n \in Nat \ {0} /\ n <= N
        /\ \A b \in 0..n : First(m, l, b) = Greatest(f, b)
    BY PartFacts
  <1>2. \A i : Where(m, l, i) = Least(g, Greatest(f, i))
    BY DEF Where
  <1>3. N \in Nat
    BY Basics
  <1> HIDE DEF f, g, n
  <1>4. Least(g, Greatest(f, 0)) = f /\ Least(g, Greatest(f, n)) = g
    BY <1>1 DEF Least, Greatest
  <1>5. \A i \in Nat : /\ Least(g, Greatest(f, i)) \in Nat
                       /\ f <= Least(g, Greatest(f, i)) /\ Least(g, Greatest(f, i)) <= g
    BY <1>1 DEF Least, Greatest
  <1>6. \A i, j \in Nat : i <= j => Least(g, Greatest(f, i)) <= Least(g, Greatest(f, j))
    BY <1>1 DEF Least, Greatest
  <1>7. \A i \in Nat : /\ i < f => Least(g, Greatest(f, i)) = f
                       /\ f <= i /\ i <= g => Least(g, Greatest(f, i)) = i
    BY <1>1 DEF Least, Greatest
  <1>8. \A b \in 0..n : /\ Least(g, Greatest(f, Greatest(f, b))) = Least(g, Greatest(f, b))
                        /\ Greatest(f, b) \in 0..N
    BY <1>1, <1>3 DEF Least, Greatest
  <1> QED BY <1>1, <1>2, <1>4, <1>5, <1>6, <1>7, <1>8 DEF f, g, n

-------------------------------------------------------------------------------
(***************************************************************************)
(* The scripts.                                                            *)
(***************************************************************************)
LEMMA Ole3Script ==
    ASSUME TypeOK, NEW p \in Members, protocol # "reveal"
    PROVE  /\ Len(Script(p)) = 5
           /\ Script(p)[1].msg = "pk" /\ Script(p)[2].msg = "a" /\ Script(p)[3].msg = "b"
           /\ Script(p)[4].msg = "y" /\ Script(p)[5].msg = "z"
           /\ p \in Firewalls => \A n \in 1..5 : Script(p)[n].op = "relay"
           /\ p = Sender => \A n \in 1..5 : Script(p)[n].op = IF n = 4 THEN "recv" ELSE "send"
           /\ p = Receiver => \A n \in 1..5 : Script(p)[n].op = IF n = 4 THEN "send" ELSE "recv"
  <1>1. CASE protocol = "ole3" /\ p = Sender
    <2>1. Script(p) = Ole3Sender
      BY <1>1 DEF Script, Sender
    <2> QED BY <1>1, <2>1 DEF Ole3Sender, Send, Recv, Sender, Receiver, Firewalls, SRF, RRF
  <1>2. CASE protocol = "ole3" /\ p = Receiver
    <2>1. Script(p) = Ole3Receiver
      BY <1>2 DEF Script, Receiver
    <2> QED BY <1>2, <2>1 DEF Ole3Receiver, Send, Recv, Sender, Receiver, Firewalls, SRF, RRF
  <1>3. CASE protocol = "rf_ole3" /\ p = Sender
    <2>1. Script(p) = RfOle3Sender
      BY <1>3 DEF Script, Sender
    <2> QED BY <1>3, <2>1 DEF RfOle3Sender, Send, Recv, Sender, Receiver, Firewalls, SRF, RRF
  <1>4. CASE protocol = "rf_ole3" /\ p = Receiver
    <2>1. Script(p) = RfOle3Receiver
      BY <1>4 DEF Script, Receiver
    <2> QED BY <1>4, <2>1 DEF RfOle3Receiver, Send, Recv, Sender, Receiver, Firewalls, SRF, RRF
  <1>5. CASE protocol = "rf_ole3" /\ p = SRF
    <2>1. Script(p) = SenderFirewallOle3
      BY <1>5 DEF Script, SRF
    <2> QED BY <1>5, <2>1 DEF SenderFirewallOle3, Relay, Sender, Receiver, Firewalls, SRF, RRF
  <1>6. CASE protocol = "rf_ole3" /\ p = RRF
    <2>1. Script(p) = ReceiverFirewallOle3
      BY <1>6 DEF Script, RRF
    <2> QED BY <1>6, <2>1 DEF ReceiverFirewallOle3, Relay, Sender, Receiver, Firewalls, SRF, RRF
  <1> QED BY <1>1, <1>2, <1>3, <1>4, <1>5, <1>6, Basics DEF Sender, SRF, RRF, Receiver

LEMMA RevealScript ==
    ASSUME TypeOK, NEW p \in Members, protocol = "reveal"
    PROVE  /\ Script(p)[1].msg = "pk" /\ Script(p)[2].msg = "y"
           /\ p # Receiver => Len(Script(p)) = 2
           /\ p \in Firewalls => Script(p)[1].op = "relay" /\ Script(p)[2].op = "relay"
           /\ p = Sender => Script(p)[1].op = "send" /\ Script(p)[2].op = "recv"
           /\ p = Receiver => /\ Len(Script(p)) = 3 /\ Script(p)[1].op = "recv"
                              /\ Script(p)[2].op = "check" /\ Script(p)[3].op = "send"
                              /\ Script(p)[3].msg = "y"
  <1>1. CASE p = Sender
    <2>1. Script(p) = RevealSender
      BY <1>1 DEF Script, Sender
    <2> QED BY <1>1, <2>1 DEF RevealSender, Send, Recv, Sender, Receiver, Firewalls, SRF, RRF
  <1>2. CASE p = SRF
    <2>1. Script(p) = RevealSrf
      BY <1>2 DEF Script, SRF
    <2> QED BY <1>2, <2>1 DEF RevealSrf, Relay, Sender, Receiver, Firewalls, SRF, RRF
  <1>3. CASE p = RRF
    <2>1. Script(p) = RevealRrf
      BY <1>3 DEF Script, RRF
    <2> QED BY <1>3, <2>1 DEF RevealRrf, Relay, Sender, Receiver, Firewalls, SRF, RRF
  <1>4. CASE p = Receiver
    <2>1. Script(p) = RevealReceiver
      BY <1>4 DEF Script, Receiver
    <2> QED BY <1>4, <2>1 DEF RevealReceiver, Recv, Check, Send, Sender, Receiver, Firewalls, SRF, RRF
  <1> QED BY <1>1, <1>2, <1>3, <1>4, Basics DEF Sender, SRF, RRF, Receiver

LEMMA RankFacts ==
    /\ Rank["pk"] = 1 /\ Rank["a"] = 2 /\ Rank["b"] = 3 /\ Rank["y"] = 4 /\ Rank["z"] = 5
    /\ Messages = {"pk", "a", "b", "y", "z"}
    /\ \A m, n \in Messages : Rank[m] \in 1..5 /\ (Rank[m] = Rank[n] => m = n)
    /\ Carried \subseteq Messages /\ "pk" \in Carried /\ "y" \in Carried
  <1>1. Rank["pk"] = 1 /\ Rank["a"] = 2 /\ Rank["b"] = 3 /\ Rank["y"] = 4 /\ Rank["z"] = 5
    BY DEF Rank
  <1> QED BY <1>1 DEF Messages, Carried

\* What a program does in the line it is at.
LEMMA LineFacts ==
    ASSUME TypeOK, NEW p \in Members, Placed(p), ~Over(p)
    PROVE  /\ Msg(p) \in Carried /\ Msg(p) \in Messages
           /\ Op(p) \in {"send", "recv", "relay", "check"}
           /\ (Op(p) = "relay" <=> p \in Firewalls)
           /\ Op(p) = "send" => p = IF Msg(p) = "y" THEN Receiver ELSE Sender
           /\ Op(p) = "recv" => p = IF Msg(p) = "y" THEN Sender ELSE Receiver
           /\ Op(p) = "check" => /\ p = Receiver /\ Msg(p) = "y" /\ protocol = "reveal"
                                 /\ line[p] = 2
           /\ p = Receiver /\ protocol = "reveal" /\ line[p] = 2 => Op(p) = "check"
           /\ Stage(p) = Rank[Msg(p)]
  <1>1. p \in Procs /\ line[p] \in 1..6 /\ line[p] <= Len(Script(p))
    <2>1. p \in Procs /\ line[p] \in 1..6
      BY Basics DEF TypeOK
    <2>2. Len(Script(p)) \in Nat
      BY Ole3Script, RevealScript
    <2> QED BY <2>1, <2>2 DEF Over
  <1>2. Stage(p) = Rank[Msg(p)]
    BY DEF Stage
  <1>3. p \in {1, 2, 3, 4}
    BY Basics
  <1>4. CASE protocol # "reveal"
    <2>0. Len(Script(p)) = 5
      BY <1>4, Ole3Script
    <2>1. line[p] \in 1..5
      BY <1>1, <2>0
    <2>2. /\ line[p] = 1 => Msg(p) = "pk"
          /\ line[p] = 2 => Msg(p) = "a"
          /\ line[p] = 3 => Msg(p) = "b"
          /\ line[p] = 4 => Msg(p) = "y"
          /\ line[p] = 5 => Msg(p) = "z"
      BY <1>4, Ole3Script DEF Msg
    <2>3. /\ p \in Firewalls => Op(p) = "relay"
          /\ p = Sender => Op(p) = IF line[p] = 4 THEN "recv" ELSE "send"
          /\ p = Receiver => Op(p) = IF line[p] = 4 THEN "send" ELSE "recv"
      BY <1>4, <2>1, Ole3Script DEF Op
    <2>4. Carried = Messages
      BY <1>4 DEF Carried
    <2> QED BY <1>2, <1>3, <1>4, <2>1, <2>2, <2>3, <2>4
            DEF Messages, Firewalls, Sender, SRF, RRF, Receiver
  <1>5. CASE protocol = "reveal"
    <2>1. line[p] = 1 \/ line[p] = 2 \/ (line[p] = 3 /\ p = Receiver)
      <3>1. CASE p = Receiver
        <4>1. Len(Script(p)) = 3
          BY <1>5, <3>1, RevealScript
        <4> QED BY <1>1, <3>1, <4>1
      <3>2. CASE p # Receiver
        <4>1. Len(Script(p)) = 2
          BY <1>5, <3>2, RevealScript
        <4> QED BY <1>1, <4>1
      <3> QED BY <3>1, <3>2
    <2>2. /\ line[p] = 1 => Msg(p) = "pk"
          /\ line[p] = 2 => Msg(p) = "y"
          /\ line[p] = 3 => Msg(p) = "y"
      BY <1>5, <2>1, RevealScript DEF Msg
    <2>3. /\ p \in Firewalls => Op(p) = "relay"
          /\ p = Sender => Op(p) = IF line[p] = 1 THEN "send" ELSE "recv"
          /\ p = Receiver => /\ line[p] = 1 => Op(p) = "recv"
                             /\ line[p] = 2 => Op(p) = "check"
                             /\ line[p] = 3 => Op(p) = "send"
      BY <1>5, <2>1, RevealScript DEF Op, Sender, Receiver, Firewalls, SRF, RRF
    <2> QED BY <1>2, <1>3, <1>5, <2>1, <2>2, <2>3
            DEF Messages, Carried, Firewalls, Sender, SRF, RRF, Receiver
  <1> QED BY <1>4, <1>5

StageAt(p, n) == IF n > Len(Script(p)) THEN 6 ELSE Rank[Script(p)[n].msg]

\* The next line passes the current message and no other.
LEMMA NextStage ==
    ASSUME TypeOK, NEW p \in Members, Placed(p), ~Over(p)
    PROVE  /\ line[p] + 1 \in 1..6 /\ line[p] + 1 <= Len(Script(p)) + 1
           /\ StageAt(p, line[p] + 1) \in 1..6
           /\ Op(p) # "check" => \A m \in Carried :
                Rank[m] < StageAt(p, line[p] + 1) <=> Rank[m] <= Rank[Msg(p)]
           /\ Op(p) = "check" => StageAt(p, line[p] + 1) = 4
           /\ line[p] + 1 <= Len(Script(p)) => Script(p)[line[p] + 1].msg \in Carried
  <1>1. p \in Procs /\ line[p] \in 1..6 /\ line[p] <= Len(Script(p)) /\ Len(Script(p)) \in Nat
    <2>1. p \in Procs /\ line[p] \in 1..6
      BY Basics DEF TypeOK
    <2>2. Len(Script(p)) \in Nat
      BY Ole3Script, RevealScript
    <2> QED BY <2>1, <2>2 DEF Over
  <1>2. CASE protocol # "reveal"
    <2>0. Len(Script(p)) = 5
      BY <1>2, Ole3Script
    <2>1. line[p] \in 1..5 /\ Len(Script(p)) = 5
      BY <1>1, <2>0
    <2>2. /\ line[p] = 1 => Msg(p) = "pk" /\ Script(p)[line[p] + 1].msg = "a"
          /\ line[p] = 2 => Msg(p) = "a" /\ Script(p)[line[p] + 1].msg = "b"
          /\ line[p] = 3 => Msg(p) = "b" /\ Script(p)[line[p] + 1].msg = "y"
          /\ line[p] = 4 => Msg(p) = "y" /\ Script(p)[line[p] + 1].msg = "z"
          /\ line[p] = 5 => Msg(p) = "z"
      BY <1>2, Ole3Script DEF Msg
    <2>3. Carried = Messages
      BY <1>2 DEF Carried
    <2>4. Op(p) # "check"
      BY <1>2, LineFacts
    <2>5. /\ line[p] = 1 => StageAt(p, line[p] + 1) = 2 /\ Rank[Msg(p)] = 1
          /\ line[p] = 2 => StageAt(p, line[p] + 1) = 3 /\ Rank[Msg(p)] = 2
          /\ line[p] = 3 => StageAt(p, line[p] + 1) = 4 /\ Rank[Msg(p)] = 3
          /\ line[p] = 4 => StageAt(p, line[p] + 1) = 5 /\ Rank[Msg(p)] = 4
          /\ line[p] = 5 => StageAt(p, line[p] + 1) = 6 /\ Rank[Msg(p)] = 5
      BY <2>1, <2>2, RankFacts DEF StageAt
    <2>6. line[p] + 1 <= 5 => Script(p)[line[p] + 1].msg \in Carried
      BY <2>1, <2>2, <2>3 DEF Messages
    <2> QED BY <2>1, <2>3, <2>4, <2>5, <2>6, RankFacts
  <1>3. CASE protocol = "reveal"
    <2>1. line[p] = 1 \/ line[p] = 2 \/ (line[p] = 3 /\ p = Receiver)
      <3>1. CASE p = Receiver
        <4>1. Len(Script(p)) = 3
          BY <1>3, <3>1, RevealScript
        <4> QED BY <1>1, <3>1, <4>1
      <3>2. CASE p # Receiver
        <4>1. Len(Script(p)) = 2
          BY <1>3, <3>2, RevealScript
        <4> QED BY <1>1, <4>1
      <3> QED BY <3>1, <3>2
    <2>2. Carried = {"pk", "y"}
      BY <1>3 DEF Carried
    <2>3. CASE line[p] = 1
      <3>1. /\ Msg(p) = "pk" /\ Script(p)[line[p] + 1].msg = "y" /\ Len(Script(p)) \in 2..3
            /\ Op(p) # "check"
        BY <1>3, <2>3, RevealScript, LineFacts DEF Msg
      <3>2. StageAt(p, line[p] + 1) = 4 /\ Rank[Msg(p)] = 1
        BY <2>3, <3>1, RankFacts DEF StageAt
      <3> QED BY <2>2, <2>3, <3>1, <3>2, RankFacts
    <2>4. CASE line[p] = 2 /\ p # Receiver
      <3>1. Msg(p) = "y" /\ Len(Script(p)) = 2 /\ Op(p) # "check"
        BY <1>3, <2>4, RevealScript, LineFacts DEF Msg
      <3>2. StageAt(p, line[p] + 1) = 6 /\ Rank[Msg(p)] = 4
        BY <2>4, <3>1, RankFacts DEF StageAt
      <3> QED BY <2>2, <2>4, <3>1, <3>2, RankFacts
    <2>5. CASE line[p] = 2 /\ p = Receiver
      <3>1. /\ Msg(p) = "y" /\ Len(Script(p)) = 3 /\ Op(p) = "check"
            /\ Script(p)[line[p] + 1].msg = "y"
        BY <1>3, <2>5, RevealScript, LineFacts DEF Msg
      <3>2. StageAt(p, line[p] + 1) = 4 /\ Rank[Msg(p)] = 4
        BY <2>5, <3>1, RankFacts DEF StageAt
      <3> QED BY <2>2, <2>5, <3>1, <3>2, RankFacts
    <2>6. CASE line[p] = 3 /\ p = Receiver
      <3>1. Msg(p) = "y" /\ Len(Script(p)) = 3 /\ Op(p) # "check"
        BY <1>3, <2>6, RevealScript, LineFacts DEF Msg
      <3>2. StageAt(p, line[p] + 1) = 6 /\ Rank[Msg(p)] = 4
        BY <2>6, <3>1, RankFacts DEF StageAt
      <3> QED BY <2>2, <2>6, <3>1, <3>2, RankFacts
    <2> QED BY <2>1, <2>3, <2>4, <2>5, <2>6
  <1> QED BY <1>2, <1>3

-------------------------------------------------------------------------------
(***************************************************************************)
(* Cursors and totals.                                                     *)
(***************************************************************************)
LEMMA StateFacts ==
    ASSUME TypeOK, NEW p \in Members
    PROVE  /\ p \in Procs /\ begin[p] \in Nat /\ begin[p] \in 0..N /\ step[p] \in {"in", "out"}
           /\ line[p] \in 1..6
           /\ \A l \in Lanes : pos[p][l] \in 0..N /\ pos[p][l] \in Nat
  BY Basics DEF TypeOK

LEMMA EndFacts ==
    ASSUME TypeOK, NEW p \in Members, Placed(p), ~Over(p)
    PROVE  /\ ChunkOf(p) \in Nat \ {0} /\ End(p) \in Nat /\ begin[p] < End(p)
           /\ End(p) <= Size(Msg(p)) /\ Size(Msg(p)) <= N
           /\ (End(p) < Size(Msg(p)) => Op(p) = "relay")
           /\ Size(Msg(p)) \in Nat \ {0}
           /\ \A i \in InHand(p) : i \in Index /\ i \in 0..(Size(Msg(p)) - 1)
  <1>1. begin[p] \in Nat /\ begin[p] < Size(Msg(p)) /\ (Op(p) # "relay" => begin[p] = 0)
    BY StateFacts DEF Placed
  <1>2. N \in Nat \ {0}
    BY Basics
  <1>3. Size(Msg(p)) \in Nat \ {0} /\ Size(Msg(p)) <= N
    BY <1>2 DEF Size
  <1>4. Op(p) = "relay" => chunk[p] \in 1..N
    BY LineFacts DEF TypeOK
  <1>5. ChunkOf(p) \in Nat \ {0} /\ (Op(p) # "relay" => ChunkOf(p) = Size(Msg(p)))
    BY <1>2, <1>3, <1>4 DEF ChunkOf
  <1>6. End(p) \in Nat /\ begin[p] < End(p) /\ End(p) <= Size(Msg(p))
        /\ (End(p) < Size(Msg(p)) => Op(p) = "relay")
    BY <1>1, <1>3, <1>5 DEF End, Least
  <1>7. \A i \in InHand(p) : i \in Index /\ i \in 0..(Size(Msg(p)) - 1)
    BY <1>1, <1>2, <1>3, <1>6 DEF InHand, Index
  <1> QED BY <1>3, <1>5, <1>6, <1>7

\* A lane that is done is where the chunk ends; one that is not is at an index
\* of its own and of the chunk.
LEMMA LaneFacts ==
    ASSUME TypeOK, NEW p \in Members, Placed(p), ~Over(p), NEW l \in Lanes
    PROVE  /\ LaneDone(p, l) => Where(Msg(p), l, pos[p][l]) = Where(Msg(p), l, End(p))
           /\ ~LaneDone(p, l) =>
                /\ pos[p][l] \in InHand(p) /\ pos[p][l] \in Index
                /\ From(Msg(p), l) <= pos[p][l] /\ pos[p][l] < Upto(Msg(p), l)
                /\ Where(Msg(p), l, pos[p][l]) = pos[p][l]
                /\ Where(Msg(p), l, pos[p][l] + 1) = pos[p][l] + 1
                /\ pos[p][l] + 1 <= Last(Msg(p), l, End(p)) /\ pos[p][l] + 1 \in 0..N
  <1> DEFINE f == From(Msg(p), l)
             g == Upto(Msg(p), l)
             n == Size(Msg(p))
             b == begin[p]
             e == End(p)
             q == pos[p][l]
  <1>1. b \in Nat /\ e \in Nat /\ b < e /\ e <= n /\ n \in Nat \ {0} /\ n <= N /\ q \in Nat /\ q \in 0..N
    BY EndFacts, StateFacts
  <1>2. Msg(p) \in Messages
    BY LineFacts
  <1>3. f \in Nat /\ g \in Nat /\ f <= g /\ g <= n
    BY <1>2, PartFacts
  <1>4. First(Msg(p), l, b) = Greatest(f, b) /\ Last(Msg(p), l, e) = Least(g, e)
    BY <1>1, <1>2, PartFacts
  <1>5. First(Msg(p), l, b) <= q /\ (q = First(Msg(p), l, b) \/ q <= Last(Msg(p), l, e))
    BY DEF Placed
  <1>6. LaneDone(p, l) <=> q >= Last(Msg(p), l, e)
    BY DEF LaneDone
  <1>7. /\ Where(Msg(p), l, q) = Least(g, Greatest(f, q)) /\ Where(Msg(p), l, e) = Least(g, Greatest(f, e))
        /\ Where(Msg(p), l, q + 1) = Least(g, Greatest(f, q + 1))
    BY DEF Where
  <1>8. InHand(p) = b..(e - 1) /\ Index = 0..(N - 1) /\ N \in Nat
    BY Basics DEF InHand, Index
  <1> HIDE DEF f, g, n, b, e, q
  <1>9. ASSUME LaneDone(p, l) PROVE Where(Msg(p), l, q) = Where(Msg(p), l, e)
    BY <1>1, <1>3, <1>4, <1>5, <1>6, <1>7, <1>9 DEF Least, Greatest
  <1>10. ASSUME ~LaneDone(p, l)
         PROVE  /\ b <= q /\ q < e /\ f <= q /\ q < g
                /\ Where(Msg(p), l, q) = q /\ Where(Msg(p), l, q + 1) = q + 1
                /\ q + 1 <= Last(Msg(p), l, e)
    BY <1>1, <1>3, <1>4, <1>5, <1>6, <1>7, <1>10 DEF Least, Greatest
  <1>11. ASSUME ~LaneDone(p, l) PROVE q \in InHand(p) /\ q \in Index /\ q + 1 \in 0..N
    BY <1>1, <1>8, <1>10, <1>11
  <1> QED BY <1>9, <1>10, <1>11 DEF f, g, n, b, e, q

\* A cursor is in the lane's part of the message.
LEMMA CursorFacts ==
    ASSUME TypeOK, NEW p \in Members, Placed(p), NEW m \in Messages, NEW l \in Lanes
    PROVE  /\ Stage(p) \in 1..6
           /\ \A dir \in {"in", "out"} :
                /\ Cursor(p, m, l, dir) \in Nat
                /\ From(m, l) <= Cursor(p, m, l, dir) /\ Cursor(p, m, l, dir) <= Upto(m, l)
                /\ Rank[m] < Stage(p) => Cursor(p, m, l, dir) = Upto(m, l)
                /\ Rank[m] > Stage(p) => Cursor(p, m, l, dir) = From(m, l)
  <1>1. From(m, l) \in Nat /\ Upto(m, l) \in Nat /\ From(m, l) <= Upto(m, l)
    BY PartFacts
  <1>2. \A i \in Nat : /\ Where(m, l, i) \in Nat
                       /\ From(m, l) <= Where(m, l, i) /\ Where(m, l, i) <= Upto(m, l)
    BY WhereFacts
  <1>3. Rank[m] \in 1..5
    BY RankFacts
  <1>4. Stage(p) \in 1..6 /\ (Over(p) => Stage(p) = 6)
    BY LineFacts, RankFacts DEF Stage
  <1>5. /\ Rank[m] < Stage(p) => \A dir : Cursor(p, m, l, dir) = Upto(m, l)
        /\ Rank[m] > Stage(p) => \A dir : Cursor(p, m, l, dir) = From(m, l)
    BY <1>3, <1>4 DEF Cursor
  <1>6. CASE Rank[m] = Stage(p)
    <2>1. ~Over(p)
      BY <1>3, <1>4, <1>6
    <2>2. End(p) \in Nat /\ begin[p] \in Nat /\ pos[p][l] \in Nat
      BY <2>1, EndFacts, StateFacts
    <2>3. \A dir \in {"in", "out"} : \E i \in Nat : Cursor(p, m, l, dir) = Where(m, l, i)
      BY <1>4, <1>6, <2>2 DEF Cursor
    <2>4. \A dir \in {"in", "out"} :
                /\ Cursor(p, m, l, dir) \in Nat
                /\ From(m, l) <= Cursor(p, m, l, dir) /\ Cursor(p, m, l, dir) <= Upto(m, l)
      BY <1>2, <2>3
    <2> QED BY <1>4, <1>5, <2>4
  <1>7. CASE Rank[m] # Stage(p)
    <2>1. Rank[m] < Stage(p) \/ Rank[m] > Stage(p)
      BY <1>3, <1>4, <1>7
    <2> QED BY <1>1, <1>4, <1>5, <2>1
  <1> QED BY <1>6, <1>7

LEMMA SpanFacts ==
    ASSUME TypeOK, NEW l \in Lanes
    PROVE  /\ \A m \in Messages : Span(m, l) \in Nat /\ Before(m, l) \in Nat
           /\ Before("pk", l) = 0 /\ Before("y", l) = 0 /\ Before("a", l) = Span("pk", l)
           /\ Before("b", l) = Span("pk", l) + Span("a", l)
           /\ Before("z", l) = Span("pk", l) + Span("a", l) + Span("b", l)
           /\ \A m \in Carried : Span(m, l) = Upto(m, l) - From(m, l)
  <1>1. \A m \in Messages : Span(m, l) \in Nat
    BY PartFacts DEF Span
  <1>2. /\ Before("pk", l) = 0 /\ Before("y", l) = 0 /\ Before("a", l) = Span("pk", l)
        /\ Before("b", l) = Span("pk", l) + Span("a", l)
        /\ Before("z", l) = Span("pk", l) + Span("a", l) + Span("b", l)
    BY DEF Before
  <1>3. \A m \in Carried : Span(m, l) = Upto(m, l) - From(m, l)
    BY DEF Span
  <1>4. \A m \in Messages : Before(m, l) \in Nat
    BY <1>1, <1>2, RankFacts
  <1> QED BY <1>1, <1>2, <1>3, <1>4

\* The items of different messages in one direction do not overlap.
LEMMA OneMessage ==
    ASSUME TypeOK, NEW l \in Lanes, NEW m \in Carried, NEW o \in Carried, m = "y" <=> o = "y",
           NEW n \in Int, Before(m, l) < n, n <= Before(m, l) + Span(m, l),
           Before(o, l) < n, n <= Before(o, l) + Span(o, l)
    PROVE  o = m
  <1>1. m \in Messages /\ o \in Messages
    BY RankFacts
  <1> QED BY <1>1, SpanFacts, RankFacts

\* How many items p has handled in the direction of its current message.
LEMMA TotalNow ==
    ASSUME TypeOK, NEW p \in Members, Placed(p), ~Over(p), NEW l \in Lanes, NEW dir \in {"in", "out"}
    PROVE  Total(p, l, dir, Msg(p) = "y")
             = Before(Msg(p), l) + Cursor(p, Msg(p), l, dir) - From(Msg(p), l)
  <1>1. Msg(p) \in Carried /\ Msg(p) \in Messages /\ Stage(p) = Rank[Msg(p)]
    BY LineFacts
  <1>2. \A m \in Messages : /\ From(m, l) \in Nat /\ Cursor(p, m, l, dir) \in Nat /\ Upto(m, l) \in Nat
                            /\ Rank[m] < Stage(p) => Cursor(p, m, l, dir) = Upto(m, l)
                            /\ Rank[m] > Stage(p) => Cursor(p, m, l, dir) = From(m, l)
    BY CursorFacts, PartFacts
  <1>3. \A m \in Messages : /\ Handled(p, m, l, dir) \in Int
                            /\ Rank[m] < Stage(p) => Handled(p, m, l, dir) = Span(m, l)
                            /\ Rank[m] > Stage(p) => Handled(p, m, l, dir) = 0
    BY <1>2 DEF Handled, Span
  <1>4. Handled(p, Msg(p), l, dir) = Cursor(p, Msg(p), l, dir) - From(Msg(p), l)
    BY <1>1 DEF Handled
  <1>5. CASE Msg(p) = "y"
    BY <1>1, <1>2, <1>4, <1>5, SpanFacts DEF Total
  <1>6. CASE Msg(p) # "y"
    <2>1. Total(p, l, dir, Msg(p) = "y") =
            Handled(p, "pk", l, dir) + Handled(p, "a", l, dir)
              + Handled(p, "b", l, dir) + Handled(p, "z", l, dir)
      BY <1>6 DEF Total
    <2>2. Before(Msg(p), l) + Handled(p, Msg(p), l, dir) =
            Handled(p, "pk", l, dir) + Handled(p, "a", l, dir)
              + Handled(p, "b", l, dir) + Handled(p, "z", l, dir)
      <3>1. CASE Msg(p) = "pk"
        BY <1>1, <1>3, <3>1, SpanFacts, RankFacts
      <3>2. CASE Msg(p) = "a"
        BY <1>1, <1>3, <3>2, SpanFacts, RankFacts
      <3>3. CASE Msg(p) = "b"
        BY <1>1, <1>3, <3>3, SpanFacts, RankFacts
      <3>4. CASE Msg(p) = "z"
        BY <1>1, <1>3, <3>4, SpanFacts, RankFacts
      <3> QED BY <1>1, <1>6, <3>1, <3>2, <3>3, <3>4, RankFacts
    <2>3. Before(Msg(p), l) \in Nat /\ From(Msg(p), l) \in Nat /\ Cursor(p, Msg(p), l, dir) \in Nat
      BY <1>1, <1>2, SpanFacts
    <2> QED BY <1>4, <2>1, <2>2, <2>3
  <1> QED BY <1>5, <1>6

-------------------------------------------------------------------------------
(***************************************************************************)
(* What a step leaves as it was.                                           *)
(***************************************************************************)
LEMMA Same ==
    ASSUME UNCHANGED inputs
    PROVE  /\ Lanes' = Lanes /\ Members' = Members /\ Carried' = Carried /\ Links' = Links
           /\ \A p : Script(p)' = Script(p) /\ Left(p)' = Left(p) /\ Right(p)' = Right(p)
           /\ \A p, m : HopIn(p, m)' = HopIn(p, m) /\ HopOut(p, m)' = HopOut(p, m)
           /\ \A m, l, i : First(m, l, i)' = First(m, l, i) /\ Last(m, l, i)' = Last(m, l, i)
           /\ \A m, l : From(m, l)' = From(m, l) /\ Upto(m, l)' = Upto(m, l)
           /\ \A m, l, i : Where(m, l, i)' = Where(m, l, i)
           /\ \A m, l : Span(m, l)' = Span(m, l) /\ Before(m, l)' = Before(m, l)
           /\ \A h, m, i, c : IsRight(h, m, i, c)' = IsRight(h, m, i, c)
           /\ \A k, l, n, x : IsItem(k, l, n, x)' = IsItem(k, l, n, x)
           /\ \A i : Slot(i)' = Slot(i) /\ CheckedOutput(i)' = CheckedOutput(i)
           /\ \A m, b : StartAt(m, b)' = StartAt(m, b)
  <1>1. protocol' = protocol /\ lanes' = lanes /\ chunk' = chunk /\ intersection' = intersection
    BY DEF inputs
  <1>2. /\ Lanes' = Lanes /\ Members' = Members /\ Carried' = Carried
        /\ \A p : Script(p)' = Script(p) /\ Left(p)' = Left(p) /\ Right(p)' = Right(p)
    BY <1>1 DEF Lanes, Members, Carried, Script, Left, Right
  <1>3. Links' = Links
    BY <1>2 DEF Links
  <1>4. \A p, m : HopIn(p, m)' = HopIn(p, m) /\ HopOut(p, m)' = HopOut(p, m)
    BY <1>2 DEF HopIn, HopOut
  <1>5. \A m, l, i : First(m, l, i)' = First(m, l, i) /\ Last(m, l, i)' = Last(m, l, i)
    BY <1>1 DEF First, Last
  <1>6. \A m, l : From(m, l)' = From(m, l) /\ Upto(m, l)' = Upto(m, l)
    BY <1>5 DEF From, Upto
  <1>7. \A m, l, i : Where(m, l, i)' = Where(m, l, i)
    BY <1>6 DEF Where
  <1>8. \A m, l : Span(m, l)' = Span(m, l)
    BY <1>2, <1>6 DEF Span
  <1>9. \A m, l : Before(m, l)' = Before(m, l)
    BY <1>8 DEF Before
  <1>10. \A i : Slot(i)' = Slot(i) /\ YValue(i)' = YValue(i) /\ CheckedOutput(i)' = CheckedOutput(i)
    BY <1>1, <1>2 DEF Slot, YValue, CheckedOutput, BlindSum
  <1>11. \A h, i : ZValue(h, i)' = ZValue(h, i)
    BY <1>10 DEF ZValue
  <1>12. \A h, m, i, c : IsRight(h, m, i, c)' = IsRight(h, m, i, c)
    BY <1>1, <1>10, <1>11 DEF IsRight
  <1>13. \A k, l, n, x : IsItem(k, l, n, x)' = IsItem(k, l, n, x)
    BY <1>2, <1>6, <1>8, <1>9, <1>12 DEF IsItem
  <1>14. \A m, b : StartAt(m, b)' = StartAt(m, b)
    BY <1>2, <1>5 DEF StartAt
  <1> QED BY <1>2, <1>3, <1>4, <1>5, <1>6, <1>7, <1>8, <1>9, <1>10, <1>12, <1>13, <1>14

\* A program that neither moves nor changes what it holds.
Stays(q) ==
    /\ line'[q] = line[q] /\ step'[q] = step[q] /\ begin'[q] = begin[q] /\ pos'[q] = pos[q]
    /\ key'[q] = key[q] /\ got'[q] = got[q] /\ out'[q] = out[q]
StaysPut(q) == line'[q] = line[q] /\ step'[q] = step[q] /\ begin'[q] = begin[q] /\ pos'[q] = pos[q]

LEMMA PutFacts ==
    ASSUME UNCHANGED inputs, NEW q, line'[q] = line[q], begin'[q] = begin[q]
    PROVE  /\ Over(q)' = Over(q) /\ Op(q)' = Op(q) /\ Msg(q)' = Msg(q) /\ End(q)' = End(q)
           /\ Stage(q)' = Stage(q) /\ InHand(q)' = InHand(q) /\ Source(q)' = Source(q)
           /\ Target(q)' = Target(q)
  <1>1. Over(q)' = Over(q) /\ Op(q)' = Op(q) /\ Msg(q)' = Msg(q)
    BY Same DEF Over, Op, Msg
  <1>2. chunk' = chunk
    BY DEF inputs
  <1>3. End(q)' = End(q)
    BY <1>1, <1>2 DEF End, ChunkOf, Size
  <1>4. Source(q)' = Source(q) /\ Target(q)' = Target(q)
    BY <1>1, Same DEF Source, Target
  <1> QED BY <1>1, <1>3, <1>4 DEF Stage, InHand

LEMMA StaysFacts ==
    ASSUME UNCHANGED inputs, NEW q, StaysPut(q)
    PROVE  /\ \A m, l, dir : Cursor(q, m, l, dir)' = Cursor(q, m, l, dir)
           /\ Placed(q) => Placed(q)'
  <1>1. line'[q] = line[q] /\ step'[q] = step[q] /\ begin'[q] = begin[q] /\ pos'[q] = pos[q]
    BY DEF StaysPut
  <1>2. /\ Over(q)' = Over(q) /\ Op(q)' = Op(q) /\ Msg(q)' = Msg(q) /\ End(q)' = End(q)
        /\ Stage(q)' = Stage(q)
    BY <1>1, PutFacts
  <1>3. \A m, l, i : Where(m, l, i)' = Where(m, l, i) /\ From(m, l)' = From(m, l) /\ Upto(m, l)' = Upto(m, l)
    BY Same
  <1>4. \A m, l, dir : Cursor(q, m, l, dir)' = Cursor(q, m, l, dir)
    BY <1>1, <1>2, <1>3 DEF Cursor
  <1>5. Lanes' = Lanes /\ Script(q)' = Script(q)
        /\ \A m, l, i : First(m, l, i)' = First(m, l, i) /\ Last(m, l, i)' = Last(m, l, i)
    BY Same
  <1>6. Placed(q) => Placed(q)'
    BY <1>1, <1>2, <1>5 DEF Placed, Size
  <1> QED BY <1>4, <1>6

LEMMA TotalSame ==
    ASSUME UNCHANGED inputs, NEW q, NEW l, NEW dir,
           \A m \in Carried : Cursor(q, m, l, dir)' = Cursor(q, m, l, dir)
    PROVE  \A back : Total(q, l, dir, back)' = Total(q, l, dir, back)
  <1>1. \A m : Handled(q, m, l, dir)' = Handled(q, m, l, dir)
    BY Same DEF Handled
  <1> QED BY <1>1 DEF Total

LEMMA StaysHeld ==
    ASSUME UNCHANGED inputs, NEW q \in Members, Stays(q)
    PROVE  (Held(q) => Held(q)') /\ (Prepared(q) => Prepared(q)')
  <1>1. /\ line'[q] = line[q] /\ step'[q] = step[q] /\ begin'[q] = begin[q] /\ pos'[q] = pos[q]
        /\ key'[q] = key[q] /\ got'[q] = got[q] /\ out'[q] = out[q]
    BY DEF Stays
  <1>2. \A m, l, dir : Cursor(q, m, l, dir)' = Cursor(q, m, l, dir)
    BY <1>1, StaysFacts DEF StaysPut
  <1>3. Msg(q)' = Msg(q) /\ InHand(q)' = InHand(q) /\ Stage(q)' = Stage(q)
    BY <1>1, PutFacts
  <1>4. /\ Lanes' = Lanes /\ Carried' = Carried /\ Left(q)' = Left(q)
        /\ \A m : HopIn(q, m)' = HopIn(q, m) /\ HopOut(q, m)' = HopOut(q, m)
        /\ \A m, l : From(m, l)' = From(m, l)
        /\ \A h, m, i, c : IsRight(h, m, i, c)' = IsRight(h, m, i, c)
    BY Same
  <1>5. Held(q) => Held(q)'
    BY <1>1, <1>2, <1>3, <1>4 DEF Held
  <1>6. Prepared(q) => Prepared(q)'
    BY <1>1, <1>3, <1>4 DEF Prepared
  <1> QED BY <1>5, <1>6

-------------------------------------------------------------------------------
(***************************************************************************)
(* Links.                                                                  *)
(***************************************************************************)
Origin(m) == IF m = "y" THEN Receiver ELSE Sender
Goal(m) == IF m = "y" THEN Sender ELSE Receiver

LEMMA LinkFacts ==
    ASSUME TypeOK, NEW k \in Links
    PROVE  /\ k \in Procs \X Procs /\ k = <<k[1], k[2]>> /\ k[1] \in Members /\ k[2] \in Members
           /\ k[1] # k[2] /\ Back(k) \in BOOLEAN
           /\ \A m : (m = "y" <=> Back(k)) =>
                /\ k[1] # Goal(m) /\ k[2] # Origin(m)
                /\ Hop(k) = HopOut(k[1], m) /\ Hop(k) = HopIn(k[2], m)
                /\ k[2] = IF m = "y" THEN Left(k[1]) ELSE Right(k[1])
                /\ k[1] = IF m = "y" THEN Right(k[2]) ELSE Left(k[2])
  <1>1. /\ k \in Members \X Members /\ k[1] # k[2] /\ Right(Hop(k)) = Greatest(k[1], k[2])
        /\ Hop(k) = Least(k[1], k[2]) /\ (Back(k) <=> k[2] < k[1])
    BY DEF Links, Hop, Back
  <1>2. k = <<k[1], k[2]>> /\ k[1] \in Members /\ k[2] \in Members /\ k \in Procs \X Procs
    BY <1>1, Basics
  <1>3. k[1] \in {1, 2, 3, 4} /\ k[2] \in {1, 2, 3, 4}
    BY <1>2, Basics
  <1>4. CASE protocol = "ole3"
    <2>1. k[1] \in {1, 4} /\ k[2] \in {1, 4}
      BY <1>2, <1>4, Basics
    <2>2. \A p : Right(p) = 4 /\ Left(p) = 1
      BY <1>4 DEF Right, Left, Sender, Receiver
    <2> QED BY <1>1, <1>2, <2>1, <2>2
            DEF Least, Greatest, Origin, Goal, HopIn, HopOut, Sender, Receiver, Back
  <1>5. CASE protocol # "ole3"
    <2>1. \A p : Right(p) = p + 1 /\ Left(p) = p - 1
      BY <1>5 DEF Right, Left
    <2> QED BY <1>1, <1>2, <1>3, <2>1
            DEF Least, Greatest, Origin, Goal, HopIn, HopOut, Sender, Receiver, Back
  <1> QED BY <1>4, <1>5

\* The neighbour that p sends a message to, or receives it from.
LEMMA NeighbourFacts ==
    ASSUME TypeOK, NEW p \in Members, NEW m \in Messages
    PROVE  /\ p # Goal(m) => LET k == <<p, IF m = "y" THEN Left(p) ELSE Right(p)>> IN
                k \in Links /\ (Back(k) <=> m = "y") /\ Hop(k) = HopOut(p, m)
           /\ p # Origin(m) => LET k == <<IF m = "y" THEN Right(p) ELSE Left(p), p>> IN
                k \in Links /\ (Back(k) <=> m = "y") /\ Hop(k) = HopIn(p, m)
  <1>1. p \in {1, 2, 3, 4} /\ Sender = 1 /\ Receiver = 4
    BY Basics DEF Sender, Receiver
  <1>2. CASE protocol = "ole3"
    <2>1. Members = {1, 4}
      BY <1>2, Basics
    <2>2. \A q : Right(q) = 4 /\ Left(q) = 1
      BY <1>2, <1>1 DEF Right, Left
    <2> QED BY <1>1, <2>1, <2>2 DEF Links, Hop, Back, Least, Greatest, Origin, Goal, HopIn, HopOut
  <1>3. CASE protocol # "ole3"
    <2>1. Members = {1, 2, 3, 4}
      BY <1>3, Basics
    <2>2. \A q : Right(q) = q + 1 /\ Left(q) = q - 1
      BY <1>3 DEF Right, Left
    <2> QED BY <1>1, <2>1, <2>2 DEF Links, Hop, Back, Least, Greatest, Origin, Goal, HopIn, HopOut
  <1> QED BY <1>2, <1>3

-------------------------------------------------------------------------------
(***************************************************************************)
(* A step that transfers nothing: the cursors stay where they count.       *)
(***************************************************************************)
Still(p) ==
    \A m \in Carried : \A l \in Lanes :
        /\ p # Origin(m) => Cursor(p, m, l, "in")' = Cursor(p, m, l, "in")
        /\ p # Goal(m) => Cursor(p, m, l, "out")' = Cursor(p, m, l, "out")

LEMMA StillTotals ==
    ASSUME TypeOK, NEW p \in Members, UNCHANGED inputs, Still(p),
           \A q \in Members \ {p} : Stays(q)
    PROVE  \A k \in Links : \A l \in Lanes :
             Given(k, l)' = Given(k, l) /\ Taken(k, l)' = Taken(k, l)
  <1> TAKE k \in Links
  <1> TAKE l \in Lanes
  <1>1. k[1] \in Members /\ k[2] \in Members
    BY LinkFacts
  <1>2. \A m : (m = "y" <=> Back(k)) => k[1] # Goal(m) /\ k[2] # Origin(m)
    BY LinkFacts
  <1>3. \A m \in Carried : (m = "y" <=> Back(k)) =>
          /\ Cursor(k[1], m, l, "out")' = Cursor(k[1], m, l, "out")
          /\ Cursor(k[2], m, l, "in")' = Cursor(k[2], m, l, "in")
    <2>1. \A q \in Members \ {p} : \A m, dir : Cursor(q, m, l, dir)' = Cursor(q, m, l, dir)
      BY StaysFacts DEF Stays, StaysPut
    <2> QED BY <1>1, <1>2, <2>1 DEF Still
  <1>4. \A m : (m = "y" <=> Back(k)) =>
          /\ Handled(k[1], m, l, "out")' = Handled(k[1], m, l, "out")
          /\ Handled(k[2], m, l, "in")' = Handled(k[2], m, l, "in")
    BY <1>3, Same DEF Handled
  <1>5. CASE Back(k)
    BY <1>4, <1>5 DEF Given, Taken, Total, Back
  <1>6. CASE ~Back(k)
    BY <1>4, <1>6 DEF Given, Taken, Total, Back
  <1> QED BY <1>5, <1>6

LEMMA StillStep ==
    ASSUME TypeOK, Flow, NEW p \in Members, UNCHANGED inputs, wire' = wire, Still(p),
           \A q \in Members \ {p} : Stays(q),
           Placed(p)', Held(p)', Prepared(p)', Outputs'
    PROVE  Flow'
  <1>1. \A q \in Members : Placed(q) /\ Held(q) /\ Prepared(q)
    BY DEF Flow
  <1>2. \A q \in Members \ {p} : Placed(q)' /\ Held(q)' /\ Prepared(q)'
    BY <1>1, StaysFacts, StaysHeld DEF Stays, StaysPut
  <1>3. Aligned
    BY DEF Flow
  <1>4. Aligned'
    <2>1. \A k \in Links : \A l \in Lanes : Given(k, l)' = Given(k, l) /\ Taken(k, l)' = Taken(k, l)
      BY StillTotals
    <2>2. Links' = Links /\ Lanes' = Lanes /\ \A k, l, n, x : IsItem(k, l, n, x)' = IsItem(k, l, n, x)
      BY Same
    <2> QED BY <1>3, <2>1, <2>2 DEF Aligned
  <1>5. Members' = Members
    BY Same
  <1>6. \A q \in Members : Placed(q)' /\ Held(q)' /\ Prepared(q)'
    BY <1>2
  <1> QED BY <1>4, <1>5, <1>6 DEF Flow

\* What p has received stays right as long as nothing comes in.
LEMMA HeldStep ==
    ASSUME TypeOK, NEW p \in Members, Held(p), UNCHANGED inputs, got'[p] = got[p], Still(p),
           p = Receiver /\ Stage(p)' > 1 => key'[p] = HopKey(Left(p))
    PROVE  Held(p)'
  <1>1. /\ Lanes' = Lanes /\ Carried' = Carried /\ Left(p)' = Left(p)
        /\ \A m : HopIn(p, m)' = HopIn(p, m)
        /\ \A m, l : From(m, l)' = From(m, l)
        /\ \A h, m, i, c : IsRight(h, m, i, c)' = IsRight(h, m, i, c)
    BY Same
  <1>2. \A m \in Carried : \A l \in Lanes :
          p # (IF m = "y" THEN Receiver ELSE Sender) => Cursor(p, m, l, "in")' = Cursor(p, m, l, "in")
    BY DEF Still, Origin
  <1> QED BY <1>1, <1>2 DEF Held

LEMMA OutputsStay ==
    ASSUME TypeOK, Outputs, UNCHANGED <<inputs, result, examined>>,
           protocol # "reveal" => Over(Receiver)' = Over(Receiver),
           protocol = "reveal" => /\ line'[Receiver] > 2 => Len(intersection) <= N
                                  /\ Over(Sender)' => examined = N,
           protocol = "reveal" /\ examined > 0 => \A l \in Lanes :
               Cursor(Sender, "y", l, "in") = Upto("y", l) =>
                   Cursor(Sender, "y", l, "in")' = Upto("y", l)
    PROVE  Outputs'
  <1>1. UNCHANGED inputs /\ result' = result /\ examined' = examined
    OBVIOUS
  <1>2. protocol' = protocol /\ intersection' = intersection
    BY <1>1 DEF inputs
  <1>3. /\ \A i : Slot(i)' = Slot(i) /\ CheckedOutput(i)' = CheckedOutput(i)
        /\ Lanes' = Lanes /\ \A m, l : Upto(m, l)' = Upto(m, l)
    BY <1>1, Same
  <1>4. InOrder => InOrder'
    BY <1>1, <1>3 DEF InOrder
  <1>5. CASE protocol # "reveal"
    BY <1>1, <1>2, <1>3, <1>5 DEF Outputs
  <1>6. CASE protocol = "reveal"
    BY <1>1, <1>2, <1>3, <1>4, <1>6 DEF Outputs
  <1> QED BY <1>5, <1>6

-------------------------------------------------------------------------------
(***************************************************************************)
(* Going on to the next line, to the next chunk, and from in to out.       *)
(***************************************************************************)
LEMMA NextLineStep ==
    ASSUME TypeOK, NEW p \in Members, Placed(p), ~Over(p), NextLine(p), UNCHANGED inputs
    PROVE  /\ line'[p] = line[p] + 1 /\ step'[p] = "in" /\ begin'[p] = 0
           /\ Placed(p)' /\ Prepared(p)'
           /\ Stage(p)' = StageAt(p, line[p] + 1)
           /\ (Over(p)' <=> line[p] + 1 > Len(Script(p)))
           /\ \A q \in Procs \ {p} : line'[q] = line[q] /\ step'[q] = step[q]
                                     /\ begin'[q] = begin[q] /\ pos'[q] = pos[q]
           /\ line' \in [Procs -> 1..6] /\ step' \in [Procs -> {"in", "out"}]
           /\ begin' \in [Procs -> 0..N] /\ pos' \in [Procs -> [Lanes -> 0..N]]
           /\ \A m \in Carried : \A l \in Lanes : \A dir \in {"in", "out"} :
                Cursor(p, m, l, dir)' =
                  IF Rank[m] < StageAt(p, line[p] + 1) THEN Upto(m, l) ELSE From(m, l)
  <1> DEFINE n == line[p] + 1
             s == Script(p)
             w == StartAt(s[n].msg, 0)
  <1>1. p \in Procs /\ line[p] \in 1..6 /\ N \in Nat /\ N \in Nat \ {0}
    BY Basics, StateFacts
  <1>2. /\ n \in 1..6 /\ n <= Len(s) + 1 /\ StageAt(p, n) \in 1..6
        /\ (n <= Len(s) => s[n].msg \in Carried)
    BY NextStage
  <1>3. Len(s) \in Nat
    BY Ole3Script, RevealScript
  <1>4. line' = [line EXCEPT ![p] = line[p] + 1] /\ step' = [step EXCEPT ![p] = "in"]
        /\ begin' = [begin EXCEPT ![p] = 0]
    BY DEF NextLine
  <1>5. /\ line'[p] = n /\ step'[p] = "in" /\ begin'[p] = 0
        /\ \A q \in Procs \ {p} : line'[q] = line[q] /\ step'[q] = step[q] /\ begin'[q] = begin[q]
        /\ line' \in [Procs -> 1..6] /\ step' \in [Procs -> {"in", "out"}]
        /\ begin' \in [Procs -> 0..N]
    <2>1. line \in [Procs -> 1..6] /\ step \in [Procs -> {"in", "out"}] /\ begin \in [Procs -> 0..N]
      BY DEF TypeOK
    <2> QED BY <1>1, <1>2, <1>4, <2>1
  <1>6. pos' = [pos EXCEPT ![p] = IF n > Len(s) THEN pos[p] ELSE w]
    BY <1>5 DEF NextLine
  <1>7. pos \in [Procs -> [Lanes -> 0..N]]
    BY DEF TypeOK
  <1>8. ASSUME n <= Len(s)
        PROVE  /\ s[n].msg \in Messages /\ s[n].msg \in Carried
               /\ w \in [Lanes -> 0..N]
               /\ \A l \in Lanes : /\ w[l] = First(s[n].msg, l, 0) /\ w[l] \in Nat
                                   /\ Where(s[n].msg, l, w[l]) = From(s[n].msg, l)
                                   /\ Where(s[n].msg, l, 0) = From(s[n].msg, l)
    <2>1. s[n].msg \in Messages /\ s[n].msg \in Carried
      BY <1>2, <1>8, RankFacts
    <2>2. Size(s[n].msg) \in Nat
      BY <1>1 DEF Size
    <2>3. \A l \in Lanes : w[l] = First(s[n].msg, l, 0)
      BY DEF StartAt
    <2>4. \A l \in Lanes : /\ First(s[n].msg, l, 0) \in 0..N
                           /\ Where(s[n].msg, l, First(s[n].msg, l, 0)) = Where(s[n].msg, l, 0)
                           /\ Where(s[n].msg, l, 0) = From(s[n].msg, l)
      BY <2>1, <2>2, WhereFacts
    <2>5. w \in [Lanes -> 0..N]
      BY <2>4 DEF StartAt
    <2> QED BY <1>1, <2>1, <2>3, <2>4, <2>5
  <1>9. /\ pos' \in [Procs -> [Lanes -> 0..N]] /\ (n <= Len(s) => pos'[p] = w)
        /\ \A q \in Procs \ {p} : pos'[q] = pos[q]
    <2>1. CASE n <= Len(s)
      <3>1. pos' = [pos EXCEPT ![p] = w]
        <4>1. ~(n > Len(s))
          BY <1>2, <1>3, <2>1
        <4> QED BY <1>6, <4>1
      <3>2. w \in [Lanes -> 0..N]
        BY <1>8, <2>1
      <3> HIDE DEF w
      <3> QED BY <1>1, <1>7, <3>1, <3>2
    <2>2. CASE ~(n <= Len(s))
      <3>1. pos' = [pos EXCEPT ![p] = pos[p]]
        <4>1. n > Len(s)
          BY <1>2, <1>3, <2>2
        <4> QED BY <1>6, <4>1
      <3> QED BY <1>1, <1>7, <2>2, <3>1
    <2> QED BY <2>1, <2>2
  <1>10. (Over(p)' <=> n > Len(s)) /\ (n <= Len(s) => ~Over(p)' /\ Msg(p)' = s[n].msg)
    <2>1. Script(p)' = s
      BY Same
    <2>2. (Over(p)' <=> n > Len(s)) /\ Msg(p)' = s[n].msg
      BY <1>5, <2>1 DEF Over, Msg
    <2> QED BY <1>2, <1>3, <2>2
  <1>11. Stage(p)' = StageAt(p, n)
    <2>1. CASE n > Len(s)
      BY <1>10, <2>1 DEF Stage, StageAt
    <2>2. CASE ~(n > Len(s))
      BY <1>10, <1>2, <1>3, <2>2 DEF Stage, StageAt, Rank
    <2> QED BY <2>1, <2>2
  <1>12. Prepared(p)'
    BY <1>5 DEF Prepared
  <1>13. Lanes' = Lanes /\ Script(p)' = s
         /\ \A m, l, i : /\ First(m, l, i)' = First(m, l, i) /\ Where(m, l, i)' = Where(m, l, i)
                         /\ From(m, l)' = From(m, l) /\ Upto(m, l)' = Upto(m, l)
    BY Same
  <1>14. Placed(p)'
    <2>1. CASE n > Len(s)
      BY <1>2, <1>5, <1>10, <1>13, <2>1 DEF Placed
    <2>2. CASE n <= Len(s)
      <3>1. Size(Msg(p))' \in Nat \ {0}
        BY <1>1 DEF Size
      <3>2. \A l \in Lanes : pos'[p][l] = First(s[n].msg, l, 0) /\ pos'[p][l] \in Nat
        BY <1>8, <1>9, <2>2
      <3>3. \A l \in Lanes : pos'[p][l] = (First(Msg(p), l, begin[p]))' /\ pos'[p][l] \in Nat
        BY <1>5, <1>10, <1>13, <2>2, <3>2
      <3>4. \A l \in Lanes : (First(Msg(p), l, begin[p]) <= pos[p][l])'
        BY <3>3
      <3> QED BY <1>2, <1>5, <1>10, <1>13, <2>2, <3>1, <3>3, <3>4 DEF Placed
    <2> QED BY <1>2, <1>3, <2>1, <2>2
  <1>15. ASSUME NEW m \in Carried, NEW l \in Lanes, NEW dir \in {"in", "out"}
         PROVE  Cursor(p, m, l, dir)' = IF Rank[m] < StageAt(p, n) THEN Upto(m, l) ELSE From(m, l)
    <2>1. Rank[m] \in 1..5 /\ m \in Messages
      BY RankFacts
    <2>2. CASE Rank[m] # StageAt(p, n)
      BY <1>2, <1>11, <1>13, <2>1, <2>2 DEF Cursor
    <2>3. CASE Rank[m] = StageAt(p, n)
      <3>1. n <= Len(s)
        BY <1>2, <1>3, <2>1, <2>3 DEF StageAt
      <3>2. m = s[n].msg
        <4>1. StageAt(p, n) = Rank[s[n].msg]
          BY <1>2, <1>3, <3>1 DEF StageAt
        <4> QED BY <2>1, <2>3, <4>1, <1>8, <3>1, RankFacts
      <3>3. /\ Where(m, l, pos'[p][l]) = From(m, l) /\ Where(m, l, 0) = From(m, l)
        BY <1>8, <1>9, <3>1, <3>2
      <3>4. /\ ~(Rank[m] > Stage(p)') /\ ~(Rank[m] < Stage(p)')
        BY <1>2, <1>11, <2>3
      <3>5. Cursor(p, m, l, dir)' = Where(m, l, IF dir = "in" THEN pos'[p][l] ELSE 0)
        BY <1>5, <1>13, <3>4 DEF Cursor
      <3> QED BY <1>2, <2>3, <3>3, <3>5
    <2> QED BY <2>2, <2>3
  <1> QED BY <1>5, <1>9, <1>10, <1>11, <1>12, <1>14, <1>15

\* With the whole message transferred the next line changes no cursor.
LEMMA NextLineStill ==
    ASSUME TypeOK, NEW p \in Members, Placed(p), ~Over(p), NextLine(p), UNCHANGED inputs,
           Op(p) # "check", End(p) = Size(Msg(p)), ChunkDone(p), Op(p) # "recv" => step[p] = "out",
           Op(p) = "recv" => step[p] = "in"
    PROVE  Still(p)
  <1>1. Msg(p) \in Carried /\ Msg(p) \in Messages /\ Stage(p) = Rank[Msg(p)]
        /\ Op(p) \in {"send", "recv", "relay", "check"}
        /\ (Op(p) = "relay" <=> p \in Firewalls)
        /\ (Op(p) = "send" => p = Origin(Msg(p)))
        /\ (Op(p) = "recv" => p = Goal(Msg(p)))
    BY LineFacts DEF Origin, Goal
  <1> SUFFICES ASSUME NEW m \in Carried, NEW l \in Lanes
               PROVE  /\ p # Origin(m) => Cursor(p, m, l, "in")' = Cursor(p, m, l, "in")
                      /\ p # Goal(m) => Cursor(p, m, l, "out")' = Cursor(p, m, l, "out")
    BY DEF Still
  <1>2. \A dir \in {"in", "out"} : Cursor(p, m, l, dir)' =
          IF Rank[m] < StageAt(p, line[p] + 1) THEN Upto(m, l) ELSE From(m, l)
    BY NextLineStep
  <1>3. Rank[m] < StageAt(p, line[p] + 1) <=> Rank[m] <= Rank[Msg(p)]
    BY NextStage
  <1>4. m \in Messages /\ Rank[m] \in 1..5 /\ Rank[Msg(p)] \in 1..5
    BY <1>1, RankFacts
  <1>5. CASE m # Msg(p)
    <2>1. Rank[m] < Stage(p) \/ Rank[m] > Stage(p)
      BY <1>1, <1>4, <1>5, RankFacts
    <2>2. \A dir \in {"in", "out"} : /\ Rank[m] < Stage(p) => Cursor(p, m, l, dir) = Upto(m, l)
                                     /\ Rank[m] > Stage(p) => Cursor(p, m, l, dir) = From(m, l)
      BY <1>4, CursorFacts
    <2> QED BY <1>1, <1>2, <1>3, <1>4, <2>1, <2>2
  <1>6. CASE m = Msg(p)
    <2>1. \A dir \in {"in", "out"} : Cursor(p, m, l, dir)' = Upto(m, l)
      BY <1>2, <1>3, <1>4, <1>6
    <2>2. Where(m, l, pos[p][l]) = Upto(m, l) /\ Where(m, l, End(p)) = Upto(m, l)
      <3>1. LaneDone(p, l)
        BY DEF ChunkDone
      <3>2. Where(m, l, Size(m)) = Upto(m, l)
        BY <1>4, WhereFacts
      <3> QED BY <1>6, <3>1, <3>2, LaneFacts
    <2>3. ~(Rank[m] > Stage(p)) /\ ~(Rank[m] < Stage(p))
      BY <1>1, <1>4, <1>6
    <2>4. CASE Op(p) = "recv"
      <3>1. Cursor(p, m, l, "in") = Upto(m, l)
        BY <2>2, <2>3, <2>4 DEF Cursor
      <3> QED BY <1>1, <1>6, <2>1, <2>4, <3>1
    <2>5. CASE Op(p) # "recv"
      <3>1. Cursor(p, m, l, "in") = Upto(m, l) /\ Cursor(p, m, l, "out") = Upto(m, l)
        BY <2>2, <2>3, <2>5 DEF Cursor
      <3> QED BY <2>1, <3>1
    <2> QED BY <2>4, <2>5
  <1> QED BY <1>5, <1>6

LEMMA NextChunkStep ==
    ASSUME TypeOK, NEW p \in Members, Placed(p), ~Over(p), NextChunk(p), UNCHANGED inputs,
           Op(p) = "relay", End(p) < Size(Msg(p)), ChunkDone(p), step[p] = "out"
    PROVE  /\ Placed(p)' /\ Prepared(p)' /\ Still(p) /\ Stage(p)' = Stage(p)
           /\ \A q \in Procs \ {p} : line'[q] = line[q] /\ step'[q] = step[q]
                                     /\ begin'[q] = begin[q] /\ pos'[q] = pos[q]
           /\ step' \in [Procs -> {"in", "out"}]
           /\ begin' \in [Procs -> 0..N] /\ pos' \in [Procs -> [Lanes -> 0..N]]
  <1> DEFINE m == Msg(p)
             e == End(p)
             w == StartAt(m, e)
  <1>1. /\ line' = line /\ begin' = [begin EXCEPT ![p] = e] /\ step' = [step EXCEPT ![p] = "in"]
        /\ pos' = [pos EXCEPT ![p] = w]
    BY DEF NextChunk
  <1>2. p \in Procs /\ e \in Nat /\ e \in 0..N /\ e \in 0..Size(m) /\ m \in Messages /\ m \in Carried
    BY EndFacts, LineFacts, StateFacts, Basics
  <1>3. \A l \in Lanes : /\ w[l] = First(m, l, e) /\ First(m, l, e) \in 0..N
                         /\ Where(m, l, w[l]) = Where(m, l, e)
    <2>1. \A l \in Lanes : First(m, l, e) \in 0..N /\ Where(m, l, First(m, l, e)) = Where(m, l, e)
      BY <1>2, WhereFacts
    <2> QED BY <2>1 DEF StartAt
  <1>4. w \in [Lanes -> 0..N]
    BY <1>3 DEF StartAt
  <1>5. /\ begin \in [Procs -> 0..N] /\ step \in [Procs -> {"in", "out"}]
        /\ pos \in [Procs -> [Lanes -> 0..N]]
    BY DEF TypeOK
  <1>6. \A l \in Lanes : Where(m, l, pos[p][l]) = Where(m, l, e)
    BY LaneFacts DEF ChunkDone
  <1>7. Stage(p) = Rank[m]
    BY LineFacts
  <1>8. /\ begin'[p] = e /\ step'[p] = "in" /\ pos'[p] = w
        /\ \A q \in Procs \ {p} : line'[q] = line[q] /\ step'[q] = step[q]
                                  /\ begin'[q] = begin[q] /\ pos'[q] = pos[q]
        /\ step' \in [Procs -> {"in", "out"}]
        /\ begin' \in [Procs -> 0..N] /\ pos' \in [Procs -> [Lanes -> 0..N]]
    <2> HIDE DEF w, e
    <2> QED BY <1>1, <1>2, <1>4, <1>5
  <1>9. Over(p)' = Over(p) /\ Op(p)' = Op(p) /\ Msg(p)' = Msg(p) /\ Stage(p)' = Stage(p)
        /\ Size(Msg(p))' = Size(Msg(p))
    BY <1>1, Same DEF Over, Op, Msg, Stage, Size
  <1>10. /\ Lanes' = Lanes /\ Script(p)' = Script(p)
         /\ \A o, l, i : /\ First(o, l, i)' = First(o, l, i) /\ Where(o, l, i)' = Where(o, l, i)
                         /\ From(o, l)' = From(o, l) /\ Upto(o, l)' = Upto(o, l)
    BY Same
  <1>11. Placed(p)'
    <2>1. \A l \in Lanes : (pos[p][l] = First(Msg(p), l, begin[p]) /\ pos[p][l] \in Nat)'
      BY <1>3, <1>8, <1>9, <1>10, Basics
    <2>2. \A l \in Lanes : (First(Msg(p), l, begin[p]) <= pos[p][l])'
      BY <2>1
    <2>3. (line[p] <= Len(Script(p)) + 1)'
      BY <1>1, <1>10 DEF Placed
    <2>4. (begin[p] < Size(Msg(p)))'
      BY <1>8, <1>9
    <2> QED BY <1>8, <1>9, <1>10, <2>1, <2>2, <2>3, <2>4 DEF Placed
  <1>12. Prepared(p)'
    BY <1>8 DEF Prepared
  <1>13. ASSUME NEW o \in Carried, NEW l \in Lanes, NEW dir \in {"in", "out"}
         PROVE  Cursor(p, o, l, dir)' = Cursor(p, o, l, dir)
    <2>0. o \in Messages /\ Rank[o] \in 1..5 /\ Rank[m] \in 1..5
      BY <1>2, RankFacts
    <2>1. CASE o # m
      <3>1. Rank[o] # Stage(p)
        BY <1>2, <1>7, <2>0, <2>1, RankFacts
      <3> QED BY <1>7, <1>9, <1>10, <2>0, <3>1 DEF Cursor
    <2>2. CASE o = m
      <3>1. ~(Rank[o] > Stage(p)) /\ ~(Rank[o] < Stage(p))
        BY <1>7, <2>0, <2>2
      <3>2. Cursor(p, o, l, dir) = Where(m, l, IF dir = "out" THEN pos[p][l] ELSE e)
        BY <2>2, <3>1 DEF Cursor
      <3>3. Cursor(p, o, l, dir)' = Where(m, l, IF dir = "in" THEN w[l] ELSE e)
        BY <1>8, <1>9, <1>10, <2>2, <3>1 DEF Cursor
      <3> QED BY <1>3, <1>6, <3>2, <3>3
    <2> QED BY <2>1, <2>2
  <1>14. Still(p)
    BY <1>13 DEF Still
  <1> QED BY <1>8, <1>9, <1>11, <1>12, <1>14

\* p has a batch, or a part of it, and starts to send.
LEMMA StartStep ==
    ASSUME TypeOK, NEW p \in Members, Placed(p), ~Over(p), Op(p) \in {"send", "relay"},
           UNCHANGED inputs, step[p] = "in", Op(p) = "relay" => ChunkDone(p),
           NEW f, StartSending(p, f),
           \A i \in InHand(p) : f[i] \in Contents /\ IsRight(HopOut(p, Msg(p)), Msg(p), i, f[i])
    PROVE  /\ Placed(p)' /\ Prepared(p)' /\ Still(p) /\ Stage(p)' = Stage(p)
           /\ \A q \in Procs \ {p} : step'[q] = step[q] /\ pos'[q] = pos[q] /\ out'[q] = out[q]
           /\ step' \in [Procs -> {"in", "out"}] /\ pos' \in [Procs -> [Lanes -> 0..N]]
           /\ out' \in [Procs -> [Index -> Contents \cup {None}]]
  <1> DEFINE m == Msg(p)
             b == begin[p]
             w == StartAt(m, b)
             g == [i \in Index |-> IF i \in InHand(p) THEN f[i] ELSE out[p][i]]
  <1>1. /\ line' = line /\ begin' = begin /\ step' = [step EXCEPT ![p] = "out"]
        /\ pos' = [pos EXCEPT ![p] = w] /\ out' = [out EXCEPT ![p] = g]
    BY DEF StartSending
  <1>2. p \in Procs /\ b \in Nat /\ b \in 0..N /\ b \in 0..Size(m) /\ m \in Messages /\ m \in Carried
    BY EndFacts, LineFacts, StateFacts, Basics
  <1>3. \A l \in Lanes : /\ w[l] = First(m, l, b) /\ First(m, l, b) \in 0..N
                         /\ Where(m, l, w[l]) = Where(m, l, b)
    <2>1. \A l \in Lanes : First(m, l, b) \in 0..N /\ Where(m, l, First(m, l, b)) = Where(m, l, b)
      BY <1>2, WhereFacts
    <2> QED BY <2>1 DEF StartAt
  <1>4. w \in [Lanes -> 0..N]
    BY <1>3 DEF StartAt
  <1>5. /\ out \in [Procs -> [Index -> Contents \cup {None}]] /\ step \in [Procs -> {"in", "out"}]
        /\ pos \in [Procs -> [Lanes -> 0..N]]
    BY DEF TypeOK
  <1>6. Op(p) = "relay" => \A l \in Lanes : Where(m, l, pos[p][l]) = Where(m, l, End(p))
    BY LaneFacts DEF ChunkDone
  <1>7. Stage(p) = Rank[m] /\ (Op(p) = "send" => p = Origin(m))
    BY LineFacts DEF Origin
  <1>8. g \in [Index -> Contents \cup {None}]
    BY <1>2, <1>5
  <1>9. /\ step'[p] = "out" /\ pos'[p] = w /\ out'[p] = g
        /\ \A q \in Procs \ {p} : step'[q] = step[q] /\ pos'[q] = pos[q] /\ out'[q] = out[q]
        /\ step' \in [Procs -> {"in", "out"}] /\ pos' \in [Procs -> [Lanes -> 0..N]]
        /\ out' \in [Procs -> [Index -> Contents \cup {None}]]
    <2> HIDE DEF w, g
    <2> QED BY <1>1, <1>2, <1>4, <1>5, <1>8
  <1>10. /\ Over(p)' = Over(p) /\ Op(p)' = Op(p) /\ Msg(p)' = Msg(p) /\ Stage(p)' = Stage(p)
         /\ End(p)' = End(p) /\ InHand(p)' = InHand(p) /\ begin'[p] = begin[p]
         /\ Size(Msg(p))' = Size(Msg(p))
    BY <1>1, PutFacts DEF Size
  <1>11. /\ Lanes' = Lanes /\ Script(p)' = Script(p)
         /\ \A o, l, i : /\ First(o, l, i)' = First(o, l, i) /\ Where(o, l, i)' = Where(o, l, i)
                         /\ From(o, l)' = From(o, l) /\ Upto(o, l)' = Upto(o, l)
         /\ \A o : HopOut(p, o)' = HopOut(p, o)
         /\ \A h, o, i, c : IsRight(h, o, i, c)' = IsRight(h, o, i, c)
    BY Same
  <1>12. Placed(p)'
    <2>1. \A l \in Lanes : (pos[p][l] = First(Msg(p), l, begin[p]) /\ pos[p][l] \in Nat)'
      BY <1>3, <1>9, <1>10, <1>11, Basics
    <2>2. \A l \in Lanes : (First(Msg(p), l, begin[p]) <= pos[p][l])'
      BY <2>1
    <2>3. (line[p] <= Len(Script(p)) + 1)' /\ (begin[p] < Size(Msg(p)))'
          /\ (Op(p) # "relay" => begin[p] = 0)'
      BY <1>1, <1>10, <1>11 DEF Placed
    <2> QED BY <1>10, <1>11, <2>1, <2>2, <2>3 DEF Placed
  <1>13. Prepared(p)'
    <2>1. \A i \in InHand(p) : g[i] = f[i]
      BY EndFacts
    <2> QED BY <1>9, <1>10, <1>11, <2>1 DEF Prepared
  <1>14. ASSUME NEW o \in Carried, NEW l \in Lanes
         PROVE  /\ p # Origin(o) => Cursor(p, o, l, "in")' = Cursor(p, o, l, "in")
                /\ Cursor(p, o, l, "out")' = Cursor(p, o, l, "out")
    <2>0. o \in Messages /\ Rank[o] \in 1..5 /\ Rank[m] \in 1..5
      BY <1>2, RankFacts
    <2>1. CASE o # m
      <3>1. Rank[o] # Stage(p)
        BY <1>2, <1>7, <2>0, <2>1, RankFacts
      <3> QED BY <1>7, <1>10, <1>11, <2>0, <3>1 DEF Cursor
    <2>2. CASE o = m
      <3>1. ~(Rank[o] > Stage(p)) /\ ~(Rank[o] < Stage(p))
        BY <1>7, <2>0, <2>2
      <3>2. Cursor(p, o, l, "out") = Where(m, l, b) /\ Cursor(p, o, l, "in") = Where(m, l, pos[p][l])
        BY <2>2, <3>1 DEF Cursor
      <3>3. Cursor(p, o, l, "out")' = Where(m, l, w[l]) /\ Cursor(p, o, l, "in")' = Where(m, l, End(p))
        BY <1>9, <1>10, <1>11, <2>2, <3>1 DEF Cursor
      <3> QED BY <1>3, <1>6, <1>7, <2>2, <3>2, <3>3
    <2> QED BY <2>1, <2>2
  <1>15. Still(p)
    BY <1>14 DEF Still
  <1> QED BY <1>9, <1>10, <1>12, <1>13, <1>15

-------------------------------------------------------------------------------
(***************************************************************************)
(* Values.                                                                 *)
(***************************************************************************)
LEMMA InputFacts ==
    ASSUME NEW i \in Index
    PROVE  /\ A[i] \in Residues /\ B[i] \in Residues /\ X[i] \in Residues /\ R[i] \in Residues
           /\ \A p \in Firewalls : /\ ABlind[p][i] \in Residues /\ BBlind[p][i] \in Residues
                                   /\ Maul[p] \in Int
           /\ Sk \in Int /\ None \notin Int
           /\ \A p \in Procs : \A m \in Messages : Coin[p][m][i] \in Int
           /\ \A x \in Residues : x \in Int
           /\ 0 \in Residues
  <1>1. A \in [Index -> Residues] /\ B \in [Index -> Residues] /\ X \in [Index -> Residues]
        /\ R \in [Index -> Residues]
    BY ChainInputs
  <1>2. ABlind \in [Firewalls -> [Index -> Residues]] /\ BBlind \in [Firewalls -> [Index -> Residues]]
        /\ Maul \in [Firewalls -> Int] /\ Sk \in Int /\ None \notin Int
    BY ChainInputs
  <1>3. Coin \in [Procs -> [Messages -> [Index -> Int]]]
    BY ChainInputs
  <1>4. (\A x \in Residues : x \in Int) /\ 0 \in Residues
    BY QAssumption DEF Residues
  <1>5. \A p \in Procs : \A m \in Messages : Coin[p][m][i] \in Int
    BY <1>3
  <1>6. \A p \in Firewalls : ABlind[p][i] \in Residues /\ BBlind[p][i] \in Residues /\ Maul[p] \in Int
    BY <1>2
  <1> QED BY <1>1, <1>2, <1>4, <1>5, <1>6

LEMMA SumFacts ==
    ASSUME NEW u \in Residues, NEW v \in Residues
    PROVE  (u + v) % Q \in Residues
  BY QAssumption DEF Residues

LEMMA KeyFacts ==
    /\ \A h \in {1, 2, 3} : HopKey(h) \in Int
    /\ HopKey(1) = Sk /\ HopKey(2) = MaulPk(HopKey(1), Maul[2]) /\ HopKey(3) = MaulPk(HopKey(2), Maul[3])
  <1>1. Sk \in Int /\ Maul[2] \in Int /\ Maul[3] \in Int
    BY ChainInputs DEF Firewalls, SRF, RRF
  <1>2. HopKey(1) = Sk /\ HopKey(2) = MaulPk(HopKey(1), Maul[2]) /\ HopKey(3) = MaulPk(HopKey(2), Maul[3])
    BY DEF HopKey, Sender, SRF, RRF
  <1> QED BY <1>1, <1>2 DEF MaulPk

LEMMA BlindedFacts ==
    ASSUME NEW v \in Residues, NEW blind, blind[2] \in Residues, blind[3] \in Residues
    PROVE  /\ Blinded(1, v, blind) = v
           /\ Blinded(2, v, blind) = (Blinded(1, v, blind) + blind[2]) % Q
           /\ Blinded(3, v, blind) = (Blinded(2, v, blind) + blind[3]) % Q
           /\ \A h \in {1, 2, 3} : Blinded(h, v, blind) \in Residues
  <1>1. /\ Blinded(1, v, blind) = v
        /\ Blinded(2, v, blind) = (Blinded(1, v, blind) + blind[2]) % Q
        /\ Blinded(3, v, blind) = (Blinded(2, v, blind) + blind[3]) % Q
    BY DEF Blinded, Sender, SRF, RRF
  <1>2. Blinded(2, v, blind) \in Residues
    BY <1>1, SumFacts
  <1>3. Blinded(3, v, blind) \in Residues
    BY <1>1, <1>2, SumFacts
  <1> QED BY <1>1, <1>2, <1>3

\* Left and right of the programs; the hops are 1, 2 and 3.
LEMMA HopFacts ==
    ASSUME TypeOK, NEW p \in Members
    PROVE  /\ p \in Firewalls => /\ p \in {2, 3} /\ Left(p) = p - 1 /\ protocol # "ole3"
                                 /\ Left(p) \in {1, 2}
           /\ Left(Receiver) \in {1, 3} /\ Sender = 1 /\ Receiver = 4
           /\ (Left(Receiver) = 1 <=> protocol = "ole3")
           /\ \A m : /\ p # Origin(m) => HopIn(p, m) \in {1, 2, 3}
                     /\ p # Goal(m) => HopOut(p, m) \in {1, 2, 3}
  <1>1. p \in {1, 2, 3, 4} /\ Sender = 1 /\ Receiver = 4 /\ Firewalls = {2, 3}
    BY Basics DEF Sender, Receiver, Firewalls, SRF, RRF
  <1>2. CASE protocol = "ole3"
    <2>1. p \in {1, 4} /\ \A q : Left(q) = 1
      BY <1>1, <1>2, Basics DEF Left
    <2> QED BY <1>1, <1>2, <2>1 DEF Origin, Goal, HopIn, HopOut
  <1>3. CASE protocol # "ole3"
    <2>1. \A q : Left(q) = q - 1
      BY <1>3 DEF Left
    <2> QED BY <1>1, <1>3, <2>1 DEF Origin, Goal, HopIn, HopOut
  <1> QED BY <1>2, <1>3

LEMMA ValueFacts ==
    ASSUME TypeOK, NEW i \in Index
    PROVE  /\ \A h \in {1, 2, 3} : AValue(h, i) \in Residues /\ ZValue(h, i) \in Residues
           /\ Slot(i) \in Residues /\ YValue(i) \in Residues
           /\ AValue(1, i) = A[i] /\ ZValue(1, i) = YValue(i)
           /\ AValue(2, i) = (AValue(1, i) + ABlind[2][i]) % Q
           /\ AValue(3, i) = (AValue(2, i) + ABlind[3][i]) % Q
           /\ ZValue(2, i) = (ZValue(1, i) + BBlind[2][i]) % Q
           /\ ZValue(3, i) = (ZValue(2, i) + BBlind[3][i]) % Q
  <1>1. Firewalls = {2, 3}
    BY DEF Firewalls, SRF, RRF
  <1>2. /\ A[i] \in Residues /\ B[i] \in Residues /\ X[i] \in Residues /\ R[i] \in Residues
        /\ ABlind[2][i] \in Residues /\ ABlind[3][i] \in Residues
        /\ BBlind[2][i] \in Residues /\ BBlind[3][i] \in Residues
    BY <1>1, InputFacts
  <1> DEFINE ab == [p \in Firewalls |-> ABlind[p][i]]
             bb == [p \in Firewalls |-> BBlind[p][i]]
  <1>3. ab[2] = ABlind[2][i] /\ ab[3] = ABlind[3][i] /\ bb[2] = BBlind[2][i] /\ bb[3] = BBlind[3][i]
    BY <1>1
  <1>4. \A h : AValue(h, i) = Blinded(h, A[i], ab) /\ ZValue(h, i) = Blinded(h, YValue(i), bb)
    BY DEF AValue, ZValue
  <1> HIDE DEF ab, bb
  <1>5. /\ \A h \in {1, 2, 3} : AValue(h, i) \in Residues
        /\ AValue(1, i) = A[i]
        /\ AValue(2, i) = (AValue(1, i) + ABlind[2][i]) % Q
        /\ AValue(3, i) = (AValue(2, i) + ABlind[3][i]) % Q
    <2>1. ab[2] \in Residues /\ ab[3] \in Residues
      BY <1>2, <1>3
    <2>2. /\ Blinded(1, A[i], ab) = A[i]
          /\ Blinded(2, A[i], ab) = (Blinded(1, A[i], ab) + ab[2]) % Q
          /\ Blinded(3, A[i], ab) = (Blinded(2, A[i], ab) + ab[3]) % Q
          /\ \A h \in {1, 2, 3} : Blinded(h, A[i], ab) \in Residues
      BY <1>2, <2>1, BlindedFacts
    <2> QED BY <1>3, <1>4, <2>2
  <1>6. Slot(i) \in Residues
    <2>1. intersection \in Seq(Residues) /\ i \in Nat /\ 0 \in Residues
      BY InputFacts, Basics DEF TypeOK, Index
    <2> QED BY <2>1 DEF Slot
  <1>7. YValue(i) \in Residues
    <2>1. CASE protocol = "reveal"
      BY <1>6, <2>1 DEF YValue
    <2>2. CASE protocol # "reveal"
      <3>1. AValue(Left(Receiver), i) \in Residues
        BY <1>5, Basics, HopFacts
      <3>2. AValue(Left(Receiver), i) * X[i] + B[i] + R[i] \in Int
        BY <1>2, <3>1 DEF Residues
      <3>3. YValue(i) = (AValue(Left(Receiver), i) * X[i] + B[i] + R[i]) % Q
        BY <2>2 DEF YValue
      <3> HIDE <3>1
      <3>4. \A u \in Int : u % Q \in Residues
        BY QAssumption DEF Residues
      <3> QED BY <3>2, <3>3, <3>4
    <2> QED BY <2>1, <2>2
  <1>8. /\ \A h \in {1, 2, 3} : ZValue(h, i) \in Residues
        /\ ZValue(1, i) = YValue(i)
        /\ ZValue(2, i) = (ZValue(1, i) + BBlind[2][i]) % Q
        /\ ZValue(3, i) = (ZValue(2, i) + BBlind[3][i]) % Q
    <2>1. bb[2] \in Residues /\ bb[3] \in Residues
      BY <1>2, <1>3
    <2>2. /\ Blinded(1, YValue(i), bb) = YValue(i)
          /\ Blinded(2, YValue(i), bb) = (Blinded(1, YValue(i), bb) + bb[2]) % Q
          /\ Blinded(3, YValue(i), bb) = (Blinded(2, YValue(i), bb) + bb[3]) % Q
          /\ \A h \in {1, 2, 3} : Blinded(h, YValue(i), bb) \in Residues
      BY <1>7, <2>1, BlindedFacts
    <2> QED BY <1>3, <1>4, <2>2
  <1> QED BY <1>5, <1>6, <1>7, <1>8

\* What is right has the type of what the wire carries.
LEMMA RightTyped ==
    ASSUME TypeOK, NEW h \in {1, 2, 3}, NEW m \in Messages, NEW i \in Index, NEW c, IsRight(h, m, i, c)
    PROVE  c \in Contents
  <1>1. HopKey(h) \in Int /\ ZValue(h, i) \in Residues
    BY KeyFacts, ValueFacts
  <1>2. CASE m = "pk"
    BY <1>1, <1>2 DEF IsRight, Contents
  <1>3. CASE m \in {"a", "b", "y"}
    BY <1>3 DEF IsRight, Contents, Enciphers
  <1>4. CASE m = "z"
    BY <1>1, <1>4 DEF IsRight, Contents
  <1> QED BY <1>2, <1>3, <1>4 DEF Messages

\* Of a message that p has received in full it holds every item.
LEMMA HasMessage ==
    ASSUME TypeOK, NEW p \in Members, Placed(p), Held(p), NEW m \in Carried, p # Origin(m),
           Rank[m] < Stage(p), NEW i \in 0..(Size(m) - 1)
    PROVE  IsRight(HopIn(p, m), m, i, got[p][m][i])
  <1>1. m \in Messages
    BY RankFacts
  <1>2. PICK l \in Lanes : From(m, l) <= i /\ i < Upto(m, l)
    BY <1>1, SomePart
  <1>3. Cursor(p, m, l, "in") = Upto(m, l)
    BY <1>1, CursorFacts
  <1>4. i \in Index
    <2>1. Size(m) \in Nat /\ Size(m) <= N /\ N \in Nat
      BY <1>1, Basics, PartFacts
    <2> QED BY <2>1 DEF Index
  <1> QED BY <1>2, <1>3, <1>4 DEF Held, Origin

\* Of the message it is receiving it holds the chunk when the lanes are done.
LEMMA HasChunk ==
    ASSUME TypeOK, NEW p \in Members, Placed(p), Held(p), ~Over(p), step[p] = "in", ChunkDone(p),
           p # Origin(Msg(p)), NEW i \in InHand(p)
    PROVE  IsRight(HopIn(p, Msg(p)), Msg(p), i, got[p][Msg(p)][i])
  <1> DEFINE m == Msg(p)
  <1>1. m \in Messages /\ m \in Carried /\ Stage(p) = Rank[m]
    BY LineFacts
  <1>2. i \in Index /\ i \in 0..(Size(m) - 1)
    BY EndFacts
  <1>3. PICK l \in Lanes : From(m, l) <= i /\ i < Upto(m, l)
    BY <1>1, <1>2, SomePart
  <1>4. Cursor(p, m, l, "in") = Where(m, l, End(p))
    <2>1. Where(m, l, pos[p][l]) = Where(m, l, End(p))
      BY LaneFacts DEF ChunkDone
    <2>2. Rank[m] \in 1..5
      BY <1>1, RankFacts
    <2>3. Cursor(p, m, l, "in") = Where(m, l, pos[p][l])
      BY <1>1, <2>2 DEF Cursor
    <2> QED BY <2>1, <2>3
  <1>5. i < Where(m, l, End(p))
    <2>1. From(m, l) \in Nat /\ Upto(m, l) \in Nat
      BY <1>1, PartFacts
    <2>2. i < End(p) /\ End(p) \in Nat /\ i \in Nat
      BY <1>2, EndFacts, StateFacts, Basics DEF InHand, Index
    <2> QED BY <1>3, <2>1, <2>2 DEF Where, Least, Greatest
  <1> QED BY <1>1, <1>2, <1>3, <1>4, <1>5 DEF Held, Origin

\* cg_ole3: the receiver's combination of three ciphertexts.
LEMMA MaskedFacts ==
    ASSUME NEW c \in Ciphertexts, NEW d \in Ciphertexts, NEW k \in Int,
           NEW a \in Residues, NEW b \in Residues, Encrypts(c, k, a), Encrypts(d, k, b),
           NEW x \in Residues, NEW r \in Residues, NEW s \in Int
    PROVE  Enciphers(Add(Add(CMult(c, x), d), Encrypt(k, r, s)), k, (a * x + b + r) % Q)
  <1> DEFINE u == CMult(c, x)
             v == Add(u, d)
             e == Encrypt(k, r, s)
             ux == (x * a) % Q
             vx == (ux + b) % Q
  <1>1. a \in Int /\ b \in Int /\ x \in Int /\ r \in Int /\ x * a \in Int
    BY DEF Residues
  <1>2. ux \in Residues /\ ux \in Int
    BY <1>1, ReduceFirst
  <1>3. u \in Ciphertexts /\ Encrypts(u, k, ux)
    BY CMultFacts
  <1>4. vx \in Residues /\ vx \in Int
    <2> HIDE DEF ux
    <2>1. vx \in Residues
      BY <1>2, SumFacts
    <2>2. Residues \subseteq Int
      BY DEF Residues
    <2> QED BY <2>1, <2>2
  <1>5. v \in Ciphertexts /\ Encrypts(v, k, vx)
    <2> HIDE DEF u, ux
    <2> QED BY <1>2, <1>3, AddFacts
  <1>6. e \in Ciphertexts /\ Encrypts(e, k, r)
    BY EncryptFacts
  <1>7. Add(v, e) \in Ciphertexts /\ Encrypts(Add(v, e), k, (vx + r) % Q)
    <2> HIDE DEF v, e, vx
    <2> QED BY <1>4, <1>5, <1>6, AddFacts
  <1>8. (vx + r) % Q = (a * x + b + r) % Q
    <2>1. ux + b \in Int /\ b + r \in Int /\ (x * a) + (b + r) \in Int
      BY <1>1, <1>2
    <2>2. (vx + r) % Q = ((ux + b) + r) % Q
      <3> HIDE DEF ux
      <3> QED BY <1>1, <2>1, ReduceFirst
    <2>3. (ux + b) + r = ux + (b + r)
      <3> HIDE DEF ux
      <3> QED BY <1>1, <1>2
    <2>4. (ux + (b + r)) % Q = ((x * a) + (b + r)) % Q
      BY <1>1, <2>1, ReduceFirst
    <2>5. (x * a) + (b + r) = a * x + b + r
      BY <1>1
    <2> HIDE DEF ux, vx
    <2> QED BY <2>2, <2>3, <2>4, <2>5
  <1> QED BY <1>7, <1>8 DEF Enciphers

\* What an end sends is right.
LEMMA BatchRight ==
    ASSUME TypeOK, Flow, NEW p \in Members, ~Over(p), Op(p) = "send", NEW i \in InHand(p)
    PROVE  IsRight(HopOut(p, Msg(p)), Msg(p), i, Batch(p)[i])
  <1>1. Placed(p) /\ Held(p)
    BY DEF Flow
  <1>2. /\ Msg(p) \in Carried /\ Msg(p) \in Messages /\ Stage(p) = Rank[Msg(p)]
        /\ p = IF Msg(p) = "y" THEN Receiver ELSE Sender
    BY <1>1, LineFacts
  <1>3. i \in Index /\ i \in 0..(Size(Msg(p)) - 1)
    BY <1>1, EndFacts
  <1>4. Sender = 1 /\ Receiver = 4 /\ Sender \in Procs /\ Receiver \in Procs
        /\ Left(Receiver) \in {1, 3} /\ Sender \in Members
    BY Basics, HopFacts
  <1>5. HopKey(1) = Sk /\ Sk \in Int
    BY KeyFacts
  <1>6. Messages = {"pk", "a", "b", "y", "z"}
    BY RankFacts
  <1>7. CASE Msg(p) = "pk"
    <2>1. Batch(p)[i] = [key |-> Sk]
      BY <1>3, <1>7 DEF Batch
    <2> QED BY <1>2, <1>4, <1>5, <1>7, <2>1 DEF IsRight, HopOut
  <1>8. CASE Msg(p) = "a"
    <2>1. Batch(p)[i] = Encrypt(Sk, A[i], Coin[Sender]["a"][i])
      BY <1>3, <1>8 DEF Batch, EncA
    <2>2. A[i] \in Residues /\ Coin[Sender]["a"][i] \in Int
      BY <1>3, <1>4, <1>6, InputFacts
    <2>3. Enciphers(Batch(p)[i], HopKey(1), A[i])
      BY <1>5, <2>1, <2>2, EncryptFacts DEF Enciphers
    <2>4. AValue(1, i) = A[i]
      BY <1>3, ValueFacts
    <2>5. HopOut(p, Msg(p)) = 1
      BY <1>2, <1>4, <1>8 DEF HopOut
    <2> QED BY <1>8, <2>3, <2>4, <2>5 DEF IsRight
  <1>9. CASE Msg(p) = "b"
    <2>1. Batch(p)[i] = Encrypt(Sk, B[i], Coin[Sender]["b"][i])
      BY <1>3, <1>9 DEF Batch, EncB
    <2>2. B[i] \in Residues /\ Coin[Sender]["b"][i] \in Int
      BY <1>3, <1>4, <1>6, InputFacts
    <2>3. Enciphers(Batch(p)[i], HopKey(1), B[i])
      BY <1>5, <2>1, <2>2, EncryptFacts DEF Enciphers
    <2>5. HopOut(p, Msg(p)) = 1
      BY <1>2, <1>4, <1>9 DEF HopOut
    <2> QED BY <1>9, <2>3, <2>5 DEF IsRight
  <1>10. CASE Msg(p) = "y"
    <2> DEFINE h == Left(Receiver)
               k == HopKey(h)
               s == Coin[Receiver]["y"][i]
    <2>1. p = Receiver /\ HopOut(p, Msg(p)) = h /\ h \in {1, 2, 3} /\ Stage(p) = 4
      BY <1>2, <1>4, <1>10, RankFacts DEF HopOut
    <2>2. key[Receiver] = k /\ k \in Int
      BY <1>1, <2>1, KeyFacts DEF Held
    <2>3. s \in Int /\ R[i] \in Residues /\ X[i] \in Residues /\ B[i] \in Residues
      BY <1>3, <1>4, <1>6, InputFacts
    <2>4. CASE protocol = "reveal"
      <3>1. Batch(p)[i] = Encrypt(key[Receiver], Slot(i), s)
        BY <1>3, <1>10, <2>4 DEF Batch, RevealSlots
      <3>2. Slot(i) \in Residues /\ YValue(i) = Slot(i)
        BY <1>3, <2>4, ValueFacts DEF YValue
      <3>3. Enciphers(Batch(p)[i], k, YValue(i))
        BY <2>2, <2>3, <3>1, <3>2, EncryptFacts DEF Enciphers
      <3>4. Len(intersection) <= N
        <4>1. line[p] # 1
          BY <1>10, <2>4, RevealScript DEF Msg
        <4>2. line[p] # 2
          BY <1>1, <2>1, <2>4, LineFacts
        <4>3. line[p] \in 1..6
          BY StateFacts
        <4>4. line[Receiver] > 2
          BY <2>1, <4>1, <4>2, <4>3
        <4> QED BY <2>4, <4>4 DEF Flow, Outputs
      <3> QED BY <1>10, <2>1, <3>3, <3>4 DEF IsRight
    <2>5. CASE protocol # "reveal"
      <3> DEFINE c == got[Receiver]["a"][i]
                 d == got[Receiver]["b"][i]
                 a == AValue(h, i)
      <3>1. Batch(p)[i] = Add(Add(CMult(c, X[i]), d), Encrypt(key[Receiver], R[i], s))
        BY <1>3, <1>10, <2>5 DEF Batch, MaskedY
      <3>2. "a" \in Carried /\ "b" \in Carried /\ Size("a") = N /\ Size("b") = N
        BY <2>5 DEF Carried, Messages, Size
      <3>3. IsRight(h, "a", i, c) /\ IsRight(h, "b", i, d)
        <4>1. Rank["a"] < Stage(p) /\ Rank["b"] < Stage(p) /\ p # Origin("a") /\ p # Origin("b")
          BY <1>4, <2>1, RankFacts DEF Origin
        <4>2. i \in 0..(Size("a") - 1) /\ i \in 0..(Size("b") - 1)
          BY <1>3, <3>2 DEF Index
        <4>3. HopIn(p, "a") = h /\ HopIn(p, "b") = h
          BY <2>1 DEF HopIn
        <4>4. IsRight(HopIn(p, "a"), "a", i, got[p]["a"][i])
          BY <1>1, <3>2, <4>1, <4>2, HasMessage
        <4>5. IsRight(HopIn(p, "b"), "b", i, got[p]["b"][i])
          BY <1>1, <3>2, <4>1, <4>2, HasMessage
        <4> QED BY <2>1, <4>3, <4>4, <4>5
      <3>4. Enciphers(c, k, a) /\ Enciphers(d, k, B[i])
        BY <3>3 DEF IsRight
      <3>5. a \in Residues
        BY <1>3, <2>1, ValueFacts
      <3>6. YValue(i) = (a * X[i] + B[i] + R[i]) % Q
        BY <2>5 DEF YValue
      <3>7. Enciphers(Batch(p)[i], k, (a * X[i] + B[i] + R[i]) % Q)
        <4> HIDE DEF c, d, a, k, s
        <4>1. c \in Ciphertexts /\ Encrypts(c, k, a) /\ d \in Ciphertexts /\ Encrypts(d, k, B[i])
          BY <3>4 DEF Enciphers
        <4> QED BY <2>2, <2>3, <3>1, <3>5, <4>1, MaskedFacts
      <3> QED BY <1>10, <2>1, <2>5, <3>6, <3>7 DEF IsRight
    <2> QED BY <2>4, <2>5
  <1>11. CASE Msg(p) = "z"
    <2>1. protocol # "reveal"
      BY <1>2, <1>11 DEF Carried
    <2>2. Batch(p)[i] = [plain |-> Decrypt(Sk, got[Sender]["y"][i])]
      BY <1>3, <1>11 DEF Batch, Plain, DecryptedY
    <2>3. IsRight(HopIn(p, "y"), "y", i, got[p]["y"][i])
      <3>1. Rank["y"] < Stage(p) /\ p # Origin("y") /\ "y" \in Carried
        BY <1>2, <1>4, <1>11, RankFacts DEF Origin
      <3>2. i \in 0..(Size("y") - 1)
        BY <1>3 DEF Index, Size
      <3> QED BY <1>1, <3>1, <3>2, HasMessage
    <2>4. p = Sender /\ HopIn(p, "y") = 1 /\ HopOut(p, "z") = 1
      BY <1>2, <1>4, <1>11 DEF HopIn, HopOut
    <2>5. Enciphers(got[Sender]["y"][i], Sk, YValue(i))
      BY <1>5, <2>3, <2>4 DEF IsRight
    <2>6. Decrypt(Sk, got[Sender]["y"][i]) = YValue(i)
      BY <1>5, <2>5, DecryptFacts DEF Enciphers
    <2>7. ZValue(1, i) = YValue(i)
      BY <1>3, ValueFacts
    <2> QED BY <1>11, <2>2, <2>4, <2>6, <2>7 DEF IsRight
  <1> QED BY <1>2, <1>6, <1>7, <1>8, <1>9, <1>10, <1>11

\* The key a firewall works with.
LEMMA FirewallKey ==
    ASSUME TypeOK, NEW p \in Members, Placed(p), Held(p), p \in Firewalls, ~Over(p),
           step[p] = "in", ChunkDone(p)
    PROVE  /\ got[p]["pk"][0] = [key |-> HopKey(Left(p))]
           /\ KeyIn(p) = HopKey(Left(p)) /\ KeyOut(p) = HopKey(p)
           /\ HopKey(Left(p)) \in Int /\ HopKey(p) \in Int /\ Maul[p] \in Int
           /\ HopKey(p) = MaulPk(HopKey(Left(p)), Maul[p])
  <1>1. p \in {2, 3} /\ Left(p) = p - 1 /\ Sender = 1 /\ Receiver = 4
    BY HopFacts
  <1>2. IsRight(Left(p), "pk", 0, got[p]["pk"][0])
    <2>1. Msg(p) \in Messages /\ Stage(p) = Rank[Msg(p)] /\ "pk" \in Carried
      BY LineFacts, RankFacts
    <2>2. p # Origin("pk") /\ HopIn(p, "pk") = Left(p) /\ Size("pk") = 1
      BY <1>1 DEF Origin, HopIn, Size
    <2>3. CASE Msg(p) = "pk"
      <3>1. begin[p] \in Nat /\ End(p) \in Nat /\ begin[p] < End(p) /\ End(p) <= 1
        BY <2>2, <2>3, EndFacts, StateFacts
      <3>2. 0 \in InHand(p)
        BY <3>1 DEF InHand
      <3> QED BY <2>2, <2>3, <3>2, HasChunk
    <2>4. CASE Msg(p) # "pk"
      <3>1. Rank["pk"] < Stage(p)
        BY <2>1, <2>4, RankFacts
      <3>2. 0 \in 0..(Size("pk") - 1)
        BY <2>2
      <3> QED BY <2>1, <2>2, <3>1, <3>2, HasMessage
    <2> QED BY <2>3, <2>4
  <1>3. got[p]["pk"][0] = [key |-> HopKey(Left(p))]
    BY <1>2 DEF IsRight
  <1>4. KeyIn(p) = HopKey(Left(p))
    BY <1>3 DEF KeyIn
  <1>5. HopKey(p) = MaulPk(HopKey(Left(p)), Maul[p]) /\ HopKey(p) \in Int /\ HopKey(Left(p)) \in Int
    <2>1. CASE p = 2
      BY <1>1, <2>1, KeyFacts
    <2>2. CASE p = 3
      BY <1>1, <2>2, KeyFacts
    <2> QED BY <1>1, <2>1, <2>2
  <1>6. Maul[p] \in Int
    BY ChainInputs
  <1> QED BY <1>3, <1>4, <1>5, <1>6 DEF KeyOut

\* What a firewall passes on is right for the next hop.
LEMMA RelayedRight ==
    ASSUME TypeOK, Flow, NEW p \in Members, ~Over(p), Op(p) = "relay", step[p] = "in",
           ChunkDone(p), NEW i \in InHand(p)
    PROVE  IsRight(HopOut(p, Msg(p)), Msg(p), i, Relayed(p)[i])
  <1>1. Placed(p) /\ Held(p)
    BY DEF Flow
  <1>2. Msg(p) \in Carried /\ Msg(p) \in Messages /\ p \in Firewalls
    BY <1>1, LineFacts
  <1>3. i \in Index
    BY <1>1, EndFacts
  <1>4. p \in {2, 3} /\ Left(p) = p - 1 /\ Sender = 1 /\ Receiver = 4 /\ p \in Procs
    BY <1>2, HopFacts, Basics
  <1>5. Messages = {"pk", "a", "b", "y", "z"}
    BY RankFacts
  <1> DEFINE h == Left(p)
             c == got[p][Msg(p)][i]
  <1>6. IsRight(HopIn(p, Msg(p)), Msg(p), i, c)
    BY <1>1, <1>4, HasChunk DEF Origin
  <1>7. /\ KeyIn(p) = HopKey(h) /\ KeyOut(p) = HopKey(p)
        /\ HopKey(h) \in Int /\ HopKey(p) \in Int /\ Maul[p] \in Int
        /\ HopKey(p) = MaulPk(HopKey(h), Maul[p])
    BY <1>1, <1>2, FirewallKey
  <1>8. /\ \A m \in Messages : Coin[p][m][i] \in Int
        /\ ABlind[p][i] \in Residues /\ BBlind[p][i] \in Residues
    BY <1>2, <1>3, <1>4, InputFacts
  <1>9. /\ AValue(h, i) \in Residues /\ ZValue(h, i) \in Residues
        /\ AValue(p, i) = (AValue(h, i) + ABlind[p][i]) % Q
        /\ ZValue(p, i) = (ZValue(h, i) + BBlind[p][i]) % Q
    <2>1. CASE p = 2
      BY <1>3, <1>4, <2>1, ValueFacts
    <2>2. CASE p = 3
      BY <1>3, <1>4, <2>2, ValueFacts
    <2> QED BY <1>4, <2>1, <2>2
  <1>10. CASE Msg(p) = "pk"
    <2>1. Relayed(p)[i] = [key |-> HopKey(p)]
      BY <1>3, <1>7, <1>10 DEF Relayed
    <2> QED BY <1>10, <2>1 DEF IsRight, HopOut
  <1>11. CASE Msg(p) = "a"
    <2> DEFINE e == Encrypt(HopKey(h), ABlind[p][i], Coin[p]["z"][i])
               d == Add(c, e)
    <2>1. Relayed(p)[i] = MaulFwdRerand(d, Maul[p], EncZero(HopKey(p), Coin[p]["a"][i]))
      BY <1>3, <1>7, <1>11 DEF Relayed, FwdWithBlind
    <2>2. c \in Ciphertexts /\ Encrypts(c, HopKey(h), AValue(h, i))
      BY <1>6, <1>11 DEF IsRight, HopIn, Enciphers
    <2>3. e \in Ciphertexts /\ Encrypts(e, HopKey(h), ABlind[p][i])
      BY <1>5, <1>7, <1>8, EncryptFacts
    <2>4. d \in Ciphertexts /\ Encrypts(d, HopKey(h), AValue(p, i))
      <3> HIDE DEF e, c
      <3> QED BY <1>7, <1>8, <1>9, <2>2, <2>3, AddFacts
    <2>5. Coin[p]["a"][i] \in Int
      BY <1>5, <1>8
    <2>6. Enciphers(Relayed(p)[i], HopKey(p), AValue(p, i))
      <3> HIDE DEF d
      <3> QED BY <1>7, <2>1, <2>4, <2>5, ForwardMovesKey DEF Enciphers
    <2> QED BY <1>11, <2>6 DEF IsRight, HopOut
  <1>12. CASE Msg(p) = "b"
    <2>1. Relayed(p)[i] = MaulFwdRerand(c, Maul[p], EncZero(HopKey(p), Coin[p]["b"][i]))
      BY <1>3, <1>7, <1>12 DEF Relayed, Fwd
    <2>2. c \in Ciphertexts /\ Encrypts(c, HopKey(h), B[i])
      BY <1>6, <1>12 DEF IsRight, HopIn, Enciphers
    <2>3. Coin[p]["b"][i] \in Int
      BY <1>5, <1>8
    <2>4. Enciphers(Relayed(p)[i], HopKey(p), B[i])
      <3> HIDE DEF c
      <3> QED BY <1>7, <2>1, <2>2, <2>3, ForwardMovesKey DEF Enciphers
    <2> QED BY <1>12, <2>4 DEF IsRight, HopOut
  <1>13. CASE Msg(p) = "y"
    <2>1. Relayed(p)[i] = MaulInvRerand(c, Maul[p], EncZero(HopKey(h), Coin[p]["y"][i]))
      BY <1>3, <1>7, <1>13 DEF Relayed, Inv
    <2>2. /\ c \in Ciphertexts /\ Encrypts(c, HopKey(p), YValue(i))
          /\ protocol = "reveal" => Len(intersection) <= N
      BY <1>6, <1>13 DEF IsRight, HopIn, Enciphers
    <2>3. Coin[p]["y"][i] \in Int
      BY <1>5, <1>8
    <2>4. Enciphers(Relayed(p)[i], HopKey(h), YValue(i))
      <3> HIDE DEF c
      <3> QED BY <1>7, <2>1, <2>2, <2>3, BackwardMovesKey DEF Enciphers
    <2> QED BY <1>13, <2>2, <2>4 DEF IsRight, HopOut
  <1>14. CASE Msg(p) = "z"
    <2>1. Relayed(p)[i] = [plain |-> (c.plain + BBlind[p][i]) % Q]
      BY <1>3, <1>14 DEF Relayed, PlainBlind, Plain
    <2>2. c = [plain |-> ZValue(h, i)]
      BY <1>6, <1>14 DEF IsRight, HopIn
    <2>3. Relayed(p)[i] = [plain |-> ZValue(p, i)]
      BY <1>9, <2>1, <2>2
    <2> QED BY <1>14, <2>3 DEF IsRight, HopOut
  <1> QED BY <1>2, <1>5, <1>10, <1>11, <1>12, <1>13, <1>14

-------------------------------------------------------------------------------
(***************************************************************************)
(* The steps of the programs.                                              *)
(***************************************************************************)
LEMMA SenderStays ==
    ASSUME TypeOK, NEW p \in Members, UNCHANGED inputs, Still(p), \A q \in Members \ {p} : Stays(q)
    PROVE  \A l \in Lanes : Cursor(Sender, "y", l, "in")' = Cursor(Sender, "y", l, "in")
  <1>1. Sender \in Members /\ "y" \in Carried /\ Sender # Origin("y")
    BY Basics, RankFacts DEF Origin, Sender, Receiver
  <1>2. CASE p = Sender
    BY <1>1, <1>2 DEF Still
  <1>3. CASE p # Sender
    <2>1. StaysPut(Sender)
      BY <1>1, <1>3 DEF Stays, StaysPut
    <2> QED BY <2>1, StaysFacts
  <1> QED BY <1>2, <1>3

\* As long as no line is finished, the outputs stay what they are.
LEMMA OutputsSame ==
    ASSUME TypeOK, Flow, NEW p \in Members, UNCHANGED <<inputs, line, result, examined>>, Still(p),
           \A q \in Members \ {p} : Stays(q)
    PROVE  Outputs'
  <1>1. Outputs
    BY DEF Flow
  <1>2. UNCHANGED inputs /\ line' = line /\ result' = result /\ examined' = examined
    OBVIOUS
  <1>3. \A q : Over(q)' = Over(q)
    BY <1>2, Same DEF Over
  <1>4. \A l \in Lanes : Cursor(Sender, "y", l, "in")' = Cursor(Sender, "y", l, "in")
    BY <1>2, SenderStays
  <1>5. protocol = "reveal" => /\ line'[Receiver] > 2 => Len(intersection) <= N
                               /\ Over(Sender)' => examined = N
    BY <1>1, <1>2, <1>3 DEF Outputs
  <1> QED BY <1>1, <1>2, <1>3, <1>4, <1>5, OutputsStay

LEMMA StartSendingStep ==
    ASSUME TypeOK, Flow, NEW p \in Members, ~Over(p), Op(p) \in {"send", "relay"},
           step[p] = "in", Op(p) = "relay" => ChunkDone(p), NEW f, StartSending(p, f),
           \A i \in InHand(p) : IsRight(HopOut(p, Msg(p)), Msg(p), i, f[i])
    PROVE  TypeOK' /\ Flow'
  <1>1. Placed(p) /\ Held(p) /\ Members \subseteq Procs
    BY Basics DEF Flow
  <1>2. UNCHANGED <<inputs, line, failed, begin, wire, key, got, result, examined, failures>>
    BY DEF StartSending
  <1>3. \A i \in InHand(p) : f[i] \in Contents /\ IsRight(HopOut(p, Msg(p)), Msg(p), i, f[i])
    <2>1. Msg(p) \in Messages /\ p # Goal(Msg(p))
      BY <1>1, LineFacts, HopFacts DEF Goal
    <2>2. HopOut(p, Msg(p)) \in {1, 2, 3}
      BY <2>1, HopFacts
    <2>3. \A i \in InHand(p) : i \in Index
      BY <1>1, EndFacts
    <2> QED BY <2>1, <2>2, <2>3, RightTyped
  <1>4. /\ Placed(p)' /\ Prepared(p)' /\ Still(p) /\ Stage(p)' = Stage(p)
        /\ \A q \in Procs \ {p} : step'[q] = step[q] /\ pos'[q] = pos[q] /\ out'[q] = out[q]
        /\ step' \in [Procs -> {"in", "out"}] /\ pos' \in [Procs -> [Lanes -> 0..N]]
        /\ out' \in [Procs -> [Index -> Contents \cup {None}]]
    BY <1>1, <1>2, <1>3, StartStep
  <1>5. \A q \in Members \ {p} : Stays(q)
    BY <1>1, <1>2, <1>4 DEF Stays
  <1>6. Held(p)'
    <2>1. p = Receiver /\ Stage(p)' > 1 => key'[p] = HopKey(Left(p))
      BY <1>1, <1>2, <1>4 DEF Held
    <2> QED BY <1>1, <1>2, <1>4, <2>1, HeldStep
  <1>7. Outputs'
    BY <1>2, <1>4, <1>5, OutputsSame
  <1>8. Flow'
    BY <1>2, <1>4, <1>5, <1>6, <1>7, StillStep
  <1>9. TypeOK'
    <2>1. Lanes' = Lanes /\ Members' = Members /\ UNCHANGED <<protocol, lanes, chunk, intersection>>
      BY <1>2, Same DEF inputs
    <2> QED BY <1>2, <1>4, <2>1 DEF TypeOK
  <1> QED BY <1>8, <1>9

LEMMA PrepareStep ==
    ASSUME TypeOK, Flow, NEW p \in Members, Prepare(p)
    PROVE  TypeOK' /\ Flow'
  <1>1. ~Over(p) /\ Op(p) = "send" /\ step[p] = "in" /\ StartSending(p, Batch(p))
    BY DEF Prepare, At, Ended
  <1>2. \A i \in InHand(p) : IsRight(HopOut(p, Msg(p)), Msg(p), i, Batch(p)[i])
    BY <1>1, BatchRight
  <1> QED BY <1>1, <1>2, StartSendingStep

LEMMA TransformStep ==
    ASSUME TypeOK, Flow, NEW p \in Members, Transform(p)
    PROVE  TypeOK' /\ Flow'
  <1>1. /\ ~Over(p) /\ Op(p) = "relay" /\ step[p] = "in" /\ ChunkDone(p)
        /\ StartSending(p, Relayed(p))
    BY DEF Transform, At, Ended
  <1>2. \A i \in InHand(p) : IsRight(HopOut(p, Msg(p)), Msg(p), i, Relayed(p)[i])
    BY <1>1, RelayedRight
  <1> QED BY <1>1, <1>2, StartSendingStep

\* Of the programs that end, only OLE3's receiver and Party A have an output,
\* and they end with a receive.
LEMMA LastLines ==
    ASSUME TypeOK, NEW p \in Members, Placed(p), ~Over(p)
    PROVE  /\ protocol # "reveal" =>
                (line[p] + 1 > Len(Script(p)) <=> Msg(p) = "z")
           /\ protocol = "reveal" /\ p = Sender =>
                (line[p] + 1 > Len(Script(p)) => Op(p) = "recv" /\ Msg(p) = "y")
           /\ protocol = "reveal" /\ p = Receiver /\ line[p] + 1 > 2 =>
                line[p] > 2 \/ Op(p) = "check"
  <1>1. p \in Procs /\ line[p] \in 1..6 /\ line[p] <= Len(Script(p))
    <2>1. p \in Procs /\ line[p] \in 1..6
      BY StateFacts
    <2>2. Len(Script(p)) \in Nat
      BY Ole3Script, RevealScript
    <2> QED BY <2>1, <2>2 DEF Over
  <1>2. CASE protocol # "reveal"
    <2>1. Len(Script(p)) = 5
      BY <1>2, Ole3Script
    <2>2. line[p] \in 1..5
      BY <1>1, <2>1
    <2>3. (line[p] = 5 => Msg(p) = "z") /\ (line[p] = 1 => Msg(p) = "pk") /\ (line[p] = 2 => Msg(p) = "a")
          /\ (line[p] = 3 => Msg(p) = "b") /\ (line[p] = 4 => Msg(p) = "y")
      BY <1>2, Ole3Script DEF Msg
    <2> QED BY <1>2, <2>1, <2>2, <2>3
  <1>3. CASE protocol = "reveal" /\ p = Sender
    <2>1. Len(Script(p)) = 2 /\ Script(p)[2].msg = "y" /\ Script(p)[2].op = "recv"
      BY <1>3, RevealScript DEF Sender, Receiver
    <2>2. line[p] = 1 \/ line[p] = 2
      BY <1>1, <2>1
    <2> QED BY <1>3, <2>1, <2>2 DEF Msg, Op, Sender, Receiver
  <1>4. CASE protocol = "reveal" /\ p = Receiver
    <2>1. line[p] = 2 => Op(p) = "check"
      BY <1>4, LineFacts
    <2>2. line[p] + 1 > 2 => line[p] > 2 \/ line[p] = 2
      BY <1>1
    <2> QED BY <1>4, <2>1, <2>2 DEF Sender, Receiver
  <1>5. CASE protocol = "reveal" /\ p # Sender /\ p # Receiver
    BY <1>5
  <1> QED BY <1>2, <1>3, <1>4, <1>5

LEMMA SentStep ==
    ASSUME TypeOK, Flow, NEW p \in Members, Sent(p)
    PROVE  TypeOK' /\ Flow'
  <1>1. Placed(p) /\ Held(p) /\ Members \subseteq Procs /\ Outputs
    BY Basics DEF Flow
  <1>2. UNCHANGED <<inputs, failed, wire, key, got, out, result, examined, failures>>
    BY DEF Sent
  <1>3. ~Over(p) /\ Op(p) \in {"send", "relay"} /\ step[p] = "out" /\ ChunkDone(p)
    BY DEF Sent, Sending, At, Ended
  <1>4. End(p) \in Nat /\ Size(Msg(p)) \in Nat /\ End(p) <= Size(Msg(p))
        /\ (End(p) < Size(Msg(p)) => Op(p) = "relay")
    BY <1>1, <1>3, EndFacts
  <1>5. Lanes' = Lanes /\ Members' = Members /\ UNCHANGED <<protocol, lanes, chunk, intersection>>
        /\ \A q : Script(q)' = Script(q)
    BY <1>2, Same DEF inputs
  <1>6. CASE End(p) < Size(Msg(p))
    <2>1. NextChunk(p) /\ line' = line
      BY <1>6 DEF Sent, NextChunk
    <2>2. /\ Placed(p)' /\ Prepared(p)' /\ Still(p) /\ Stage(p)' = Stage(p)
          /\ \A q \in Procs \ {p} : line'[q] = line[q] /\ step'[q] = step[q]
                                    /\ begin'[q] = begin[q] /\ pos'[q] = pos[q]
          /\ step' \in [Procs -> {"in", "out"}]
          /\ begin' \in [Procs -> 0..N] /\ pos' \in [Procs -> [Lanes -> 0..N]]
      BY <1>1, <1>2, <1>3, <1>4, <1>6, <2>1, NextChunkStep
    <2>3. \A q \in Members \ {p} : Stays(q)
      BY <1>1, <1>2, <2>2 DEF Stays
    <2>4. Held(p)'
      <3>1. p = Receiver /\ Stage(p)' > 1 => key'[p] = HopKey(Left(p))
        BY <1>1, <1>2, <2>2 DEF Held
      <3> QED BY <1>1, <1>2, <2>2, <3>1, HeldStep
    <2>5. Outputs'
      BY <1>2, <2>1, <2>2, <2>3, OutputsSame
    <2>6. Flow'
      BY <1>2, <2>2, <2>3, <2>4, <2>5, StillStep
    <2>7. TypeOK'
      BY <1>2, <1>5, <2>1, <2>2 DEF TypeOK
    <2> QED BY <2>6, <2>7
  <1>7. CASE ~(End(p) < Size(Msg(p)))
    <2>1. NextLine(p) /\ End(p) = Size(Msg(p))
      BY <1>4, <1>7 DEF Sent
    <2>2. /\ line'[p] = line[p] + 1
          /\ Placed(p)' /\ Prepared(p)'
          /\ (Over(p)' <=> line[p] + 1 > Len(Script(p)))
          /\ \A q \in Procs \ {p} : line'[q] = line[q] /\ step'[q] = step[q]
                                    /\ begin'[q] = begin[q] /\ pos'[q] = pos[q]
          /\ line' \in [Procs -> 1..6] /\ step' \in [Procs -> {"in", "out"}]
          /\ begin' \in [Procs -> 0..N] /\ pos' \in [Procs -> [Lanes -> 0..N]]
      BY <1>1, <1>2, <1>3, <2>1, NextLineStep
    <2>3. Still(p)
      BY <1>1, <1>2, <1>3, <2>1, NextLineStill
    <2>4. \A q \in Members \ {p} : Stays(q)
      BY <1>1, <1>2, <2>2 DEF Stays
    <2>5. p = Receiver => Msg(p) = "y" /\ Stage(p) = 4 /\ key[p] = HopKey(Left(p))
      <3>1. p = Receiver => Msg(p) = "y" /\ Stage(p) = 4
        BY <1>1, <1>3, LineFacts, RankFacts DEF Sender, Receiver, Firewalls, SRF, RRF
      <3> QED BY <1>1, <3>1 DEF Held
    <2>6. Held(p)'
      BY <1>1, <1>2, <2>3, <2>5, HeldStep
    <2>7. Outputs'
      <3>1. \A q \in Members \ {p} : Over(q)' = Over(q)
        BY <1>1, <1>5, <2>2 DEF Over
      <3>2. protocol # "reveal" => Over(Receiver)' = Over(Receiver)
        <4>1. CASE p = Receiver
          <5>1. protocol # "reveal" => ~(line[p] + 1 > Len(Script(p)))
            BY <1>1, <1>3, <2>5, <4>1, LastLines
          <5>2. protocol # "reveal" => ~Over(p)' /\ ~Over(p)
            BY <1>3, <2>2, <5>1
          <5> QED BY <4>1, <5>2 DEF Over
        <4>2. CASE p # Receiver
          BY <3>1, <4>2, Basics
        <4> QED BY <4>1, <4>2
      <3>3. protocol = "reveal" /\ line'[Receiver] > 2 => Len(intersection) <= N
        <4>1. CASE p = Receiver
          BY <1>1, <1>3, <2>2, <4>1, LastLines DEF Outputs
        <4>2. CASE p # Receiver
          BY <1>1, <2>2, <4>2, Basics DEF Outputs
        <4> QED BY <4>1, <4>2
      <3>4. protocol = "reveal" /\ Over(Sender)' => examined = N
        <4>1. CASE p = Sender
          BY <1>1, <1>3, <2>2, <4>1, LastLines
        <4>2. CASE p # Sender
          BY <1>1, <3>1, <4>2, Basics DEF Outputs
        <4> QED BY <4>1, <4>2
      <3>5. \A l \in Lanes : Cursor(Sender, "y", l, "in")' = Cursor(Sender, "y", l, "in")
        BY <1>2, <2>3, <2>4, SenderStays
      <3> QED BY <1>1, <1>2, <3>2, <3>3, <3>4, <3>5, OutputsStay
    <2>8. Flow'
      BY <1>2, <2>2, <2>3, <2>4, <2>6, <2>7, StillStep
    <2>9. TypeOK'
      BY <1>2, <1>5, <2>2 DEF TypeOK
    <2> QED BY <2>8, <2>9
  <1> QED BY <1>6, <1>7

-------------------------------------------------------------------------------
(***************************************************************************)
(* What the receiver of OLE3 computes.                                     *)
(***************************************************************************)
Unblinds(t, b, r, u, v) ==
    /\ (((t + b + r) % Q) - r) % Q = (t + (b % Q)) % Q
    /\ (((((((t + b + r) % Q) + u) % Q) + v) % Q) - r) % Q = (t + ((b + ((u + v) % Q)) % Q)) % Q

LEMMA Unblind ==
    ASSUME NEW t \in Int, NEW b \in Int, NEW r \in Int, NEW u \in Int, NEW v \in Int
    PROVE  Unblinds(t, b, r, u, v)
  <1>1. \A w, x \in Int : w % Q \in Int /\ ((w % Q) + x) % Q = (w + x) % Q
    BY ReduceFirst
  <1>2. \A w, x \in Int : (x + (w % Q)) % Q = (x + w) % Q
    <2> TAKE w, x \in Int
    <2>1. w % Q \in Int /\ ((w % Q) + x) % Q = (w + x) % Q
      BY <1>1
    <2>2. x + (w % Q) = (w % Q) + x /\ x + w = w + x
      BY <2>1
    <2> QED BY <2>1, <2>2
  <1>3. \A w, x \in Int : ((w % Q) - x) % Q = (w - x) % Q
    <2> TAKE w, x \in Int
    <2>1. -x \in Int /\ w % Q \in Int
      BY <1>1
    <2>2. ((w % Q) + (-x)) % Q = (w + (-x)) % Q
      BY <1>1, <2>1
    <2>3. (w % Q) + (-x) = (w % Q) - x /\ w + (-x) = w - x
      BY <2>1
    <2> QED BY <2>2, <2>3
  <1> DEFINE s == t + b + r
  <1>4. (((t + b + r) % Q) - r) % Q = (t + (b % Q)) % Q
    <2>1. s \in Int /\ s - r = t + b
      OBVIOUS
    <2>2. ((s % Q) - r) % Q = (s - r) % Q
      BY <1>3, <2>1
    <2>3. (t + (b % Q)) % Q = (t + b) % Q
      BY <1>2
    <2> QED BY <2>1, <2>2, <2>3
  <1>5. (((((((t + b + r) % Q) + u) % Q) + v) % Q) - r) % Q = (s + u + v - r) % Q
    <2>1. s \in Int /\ s + u \in Int /\ s + u + v \in Int
      OBVIOUS
    <2>2. ((s % Q) + u) % Q = (s + u) % Q
      BY <1>1, <2>1
    <2>3. (((s + u) % Q) + v) % Q = (s + u + v) % Q
      BY <1>1, <2>1
    <2>4. (((s + u + v) % Q) - r) % Q = (s + u + v - r) % Q
      BY <1>3, <2>1
    <2> QED BY <2>2, <2>3, <2>4
  <1>6. (t + ((b + ((u + v) % Q)) % Q)) % Q = (t + (b + (u + v))) % Q
    <2>1. u + v \in Int /\ b + (u + v) \in Int
      OBVIOUS
    <2>2. (b + ((u + v) % Q)) % Q = (b + (u + v)) % Q
      BY <1>2, <2>1
    <2>3. (t + ((b + (u + v)) % Q)) % Q = (t + (b + (u + v))) % Q
      BY <1>2, <2>1
    <2> QED BY <2>2, <2>3
  <1>7. s + u + v - r = t + (b + (u + v))
    OBVIOUS
  <1> QED BY <1>4, <1>5, <1>6, <1>7 DEF Unblinds

LEMMA BlindSums ==
    ASSUME TypeOK, NEW i \in Index
    PROVE  /\ AValue(Left(Receiver), i) = (A[i] + BlindSum(ABlind, i)) % Q
           /\ BlindSum(ABlind, i) \in Int /\ A[i] \in Int
           /\ protocol = "ole3" => BlindSum(BBlind, i) = 0
           /\ protocol # "ole3" => BlindSum(BBlind, i) = (BBlind[2][i] + BBlind[3][i]) % Q
  <1>1. Firewalls = {2, 3} /\ SRF = 2 /\ RRF = 3
    BY DEF Firewalls, SRF, RRF
  <1>2. /\ A[i] \in Residues /\ ABlind[2][i] \in Residues /\ ABlind[3][i] \in Residues
        /\ A[i] \in Int /\ ABlind[2][i] \in Int /\ ABlind[3][i] \in Int
    BY <1>1, InputFacts
  <1>3. /\ protocol = "ole3" => BlindSum(ABlind, i) = 0 /\ BlindSum(BBlind, i) = 0
        /\ protocol # "ole3" => /\ BlindSum(ABlind, i) = (ABlind[2][i] + ABlind[3][i]) % Q
                                /\ BlindSum(BBlind, i) = (BBlind[2][i] + BBlind[3][i]) % Q
    BY <1>1 DEF BlindSum
  <1>4. Left(Receiver) = IF protocol = "ole3" THEN 1 ELSE 3
    BY HopFacts, Basics
  <1>5. CASE protocol = "ole3"
    <2>1. AValue(1, i) = A[i]
      BY ValueFacts
    <2>2. A[i] % Q = A[i] /\ A[i] + 0 = A[i]
      BY <1>2, QAssumption DEF Residues
    <2> QED BY <1>2, <1>3, <1>4, <1>5, <2>1, <2>2
  <1>6. CASE protocol # "ole3"
    <2>1. AValue(3, i) = (((A[i] + ABlind[2][i]) % Q) + ABlind[3][i]) % Q
      BY ValueFacts
    <2> DEFINE a == A[i]
               u == ABlind[2][i]
               v == ABlind[3][i]
    <2>2. a \in Int /\ u \in Int /\ v \in Int
      BY <1>2
    <2> HIDE DEF a, u, v
    <2>3. a + u \in Int /\ u + v \in Int
      BY <2>2
    <2>4. (((a + u) % Q) + v) % Q = ((a + u) + v) % Q
      BY <2>2, <2>3, ReduceFirst
    <2>5. (((u + v) % Q) + a) % Q = ((u + v) + a) % Q /\ (u + v) % Q \in Int
      BY <2>2, <2>3, ReduceFirst
    <2>6. (a + u) + v = (u + v) + a
      BY <2>2
    <2>7. ((u + v) % Q) + a = a + ((u + v) % Q)
      BY <2>2, <2>5
    <2>8. (((a + u) % Q) + v) % Q = (a + ((u + v) % Q)) % Q
      BY <2>4, <2>5, <2>6, <2>7
    <2>9. AValue(3, i) = (A[i] + BlindSum(ABlind, i)) % Q /\ BlindSum(ABlind, i) \in Int
      BY <1>3, <1>6, <2>1, <2>5, <2>8 DEF a, u, v
    <2> QED BY <1>2, <1>3, <1>4, <1>6, <2>9
  <1> QED BY <1>5, <1>6

LEMMA UnmaskedFacts ==
    ASSUME TypeOK, protocol # "reveal", NEW i \in Index
    PROVE  (ZValue(Left(Receiver), i) - R[i]) % Q = CheckedOutput(i)
  <1>1. Firewalls = {2, 3} /\ SRF = 2 /\ RRF = 3
    BY DEF Firewalls, SRF, RRF
  <1> DEFINE h == Left(Receiver)
             a == AValue(h, i)
             x == X[i]
             b == B[i]
             r == R[i]
             u == BBlind[2][i]
             v == BBlind[3][i]
             t == a * x
  <1>2. b \in Int /\ r \in Int /\ u \in Int /\ v \in Int /\ x \in Int
    BY <1>1, InputFacts
  <1>3. a \in Int /\ h \in {1, 3} /\ h = IF protocol = "ole3" THEN 1 ELSE 3
    BY Basics, HopFacts, ValueFacts, InputFacts
  <1>4. t \in Int
    BY <1>2, <1>3
  <1>5. YValue(i) = (t + b + r) % Q
    BY DEF YValue
  <1>6. CheckedOutput(i) = (t + ((b + BlindSum(BBlind, i)) % Q)) % Q
    BY BlindSums DEF CheckedOutput
  <1>7. /\ ZValue(1, i) = YValue(i)
        /\ ZValue(3, i) = (((YValue(i) + u) % Q) + v) % Q
    BY ValueFacts
  <1>8. /\ protocol = "ole3" => BlindSum(BBlind, i) = 0
        /\ protocol # "ole3" => BlindSum(BBlind, i) = (u + v) % Q
    BY BlindSums
  <1>9. ZValue(h, i) = IF protocol = "ole3" THEN ZValue(1, i) ELSE ZValue(3, i)
    BY <1>3
  <1> HIDE DEF h, a, x, b, r, u, v, t
  <1>10. /\ (((t + b + r) % Q) - r) % Q = (t + (b % Q)) % Q
         /\ (((((((t + b + r) % Q) + u) % Q) + v) % Q) - r) % Q = (t + ((b + ((u + v) % Q)) % Q)) % Q
    <2>1. Unblinds(t, b, r, u, v)
      BY <1>2, <1>4, Unblind
    <2> QED BY <2>1 DEF Unblinds
  <1>11. b + 0 = b
    BY <1>2
  <1>12. (ZValue(h, i) - r) % Q = CheckedOutput(i)
    BY <1>5, <1>6, <1>7, <1>8, <1>9, <1>10, <1>11
  <1> QED BY <1>12 DEF h, r

LEMMA ReceivedStep ==
    ASSUME TypeOK, Flow, NEW p \in Members, Received(p)
    PROVE  TypeOK' /\ Flow'
  <1>1. Placed(p) /\ Held(p) /\ Members \subseteq Procs /\ Outputs
    BY Basics DEF Flow
  <1>2. UNCHANGED <<inputs, failed, wire, got, out, examined, failures>>
    BY DEF Received
  <1>3. ~Over(p) /\ Op(p) = "recv" /\ step[p] = "in" /\ ChunkDone(p)
    <2>1. ~Over(p) /\ Op(p) = "recv" /\ ChunkDone(p)
      BY DEF Received, At, Ended
    <2>2. step[p] \in {"in", "out"} /\ step[p] # "out"
      BY <1>1, <2>1, StateFacts DEF Placed
    <2> QED BY <2>1, <2>2
  <1>4. End(p) = Size(Msg(p)) /\ begin[p] = 0 /\ InHand(p) = 0..(Size(Msg(p)) - 1)
    <2>1. End(p) \in Nat /\ Size(Msg(p)) \in Nat /\ End(p) <= Size(Msg(p))
          /\ ~(End(p) < Size(Msg(p)))
      BY <1>1, <1>3, EndFacts
    <2>2. begin[p] = 0
      BY <1>1, <1>3 DEF Placed
    <2> QED BY <2>1, <2>2 DEF InHand
  <1>5. Lanes' = Lanes /\ Members' = Members /\ UNCHANGED <<protocol, lanes, chunk, intersection>>
        /\ \A q : Script(q)' = Script(q)
    BY <1>2, Same DEF inputs
  <1>6. /\ Msg(p) \in Messages /\ Msg(p) \in Carried
        /\ p = Goal(Msg(p)) /\ p # Origin(Msg(p)) /\ Stage(p) = Rank[Msg(p)]
    BY <1>1, <1>3, LineFacts DEF Goal, Origin, Sender, Receiver
  <1>7. NextLine(p)
    BY DEF Received
  <1>8. /\ line'[p] = line[p] + 1
        /\ Placed(p)' /\ Prepared(p)'
        /\ (Over(p)' <=> line[p] + 1 > Len(Script(p)))
        /\ \A q \in Procs \ {p} : line'[q] = line[q] /\ step'[q] = step[q]
                                  /\ begin'[q] = begin[q] /\ pos'[q] = pos[q]
        /\ line' \in [Procs -> 1..6] /\ step' \in [Procs -> {"in", "out"}]
        /\ begin' \in [Procs -> 0..N] /\ pos' \in [Procs -> [Lanes -> 0..N]]
    BY <1>1, <1>2, <1>3, <1>7, NextLineStep
  <1>9. Still(p)
    BY <1>1, <1>2, <1>3, <1>4, <1>7, NextLineStill
  <1>10. \A i \in 0..(Size(Msg(p)) - 1) : IsRight(HopIn(p, Msg(p)), Msg(p), i, got[p][Msg(p)][i])
    BY <1>1, <1>3, <1>4, <1>6, HasChunk
  <1>11. /\ p = Receiver => key'[p] = HopKey(Left(p))
         /\ \A q \in Procs \ {p} : key'[q] = key[q]
         /\ key' \in [Procs -> Int \cup {None}]
    <2>1. key \in [Procs -> Int \cup {None}] /\ p \in Procs
      BY <1>1 DEF TypeOK
    <2>2. CASE Msg(p) = "pk"
      <3>1. p = Receiver /\ Size("pk") = 1 /\ HopIn(p, "pk") = Left(p)
        BY <1>6, <2>2 DEF Goal, Size, HopIn
      <3>2. IsRight(Left(p), "pk", 0, got[p]["pk"][0])
        BY <1>10, <2>2, <3>1
      <3>3. got[p]["pk"][0].key = HopKey(Left(p))
        BY <3>2 DEF IsRight
      <3>4. HopKey(Left(p)) \in Int
        BY <3>1, HopFacts, KeyFacts
      <3>5. key' = [key EXCEPT ![p] = HopKey(Left(p))]
        BY <2>2, <3>3 DEF Received
      <3> QED BY <2>1, <3>4, <3>5
    <2>3. CASE Msg(p) # "pk"
      <3>1. key' = key
        BY <2>3 DEF Received
      <3>2. Stage(p) > 1
        BY <1>6, <2>3, RankFacts
      <3> QED BY <1>1, <2>1, <3>1, <3>2 DEF Held
    <2> QED BY <2>2, <2>3
  <1>12. \A q \in Members \ {p} : Stays(q)
    BY <1>1, <1>2, <1>8, <1>11 DEF Stays
  <1>13. Held(p)'
    BY <1>1, <1>2, <1>9, <1>11, HeldStep
  <1>14. Outputs' /\ result' \in Seq(Residues \cup {Garbage})
    <2>1. CASE Msg(p) = "z"
      <3>1. p = Receiver /\ protocol # "reveal" /\ Over(p)'
        BY <1>1, <1>3, <1>6, <1>8, <2>1, LastLines DEF Goal, Carried
      <3>2. result' = Unmasked
        BY <2>1 DEF Received
      <3>3. \A n \in 1..N : n - 1 \in Index /\ n - 1 \in 0..(Size("z") - 1)
        BY Basics DEF Index, Size
      <3>4. \A n \in 1..N : got[Receiver]["z"][n - 1] = [plain |-> ZValue(Left(Receiver), n - 1)]
        <4>1. HopIn(p, "z") = Left(Receiver)
          BY <3>1 DEF HopIn
        <4>2. \A n \in 1..N : IsRight(Left(Receiver), "z", n - 1, got[Receiver]["z"][n - 1])
          BY <1>10, <2>1, <3>1, <3>3, <4>1
        <4> QED BY <4>2 DEF IsRight
      <3>5. \A n \in 1..N : (got[Receiver]["z"][n - 1].plain - R[n - 1]) % Q = CheckedOutput(n - 1)
        <4> TAKE n \in 1..N
        <4>1. n - 1 \in Index
          BY <3>3
        <4>2. got[Receiver]["z"][n - 1] = [plain |-> ZValue(Left(Receiver), n - 1)]
          BY <3>4
        <4>3. got[Receiver]["z"][n - 1].plain = ZValue(Left(Receiver), n - 1)
          BY <4>2
        <4>4. (ZValue(Left(Receiver), n - 1) - R[n - 1]) % Q = CheckedOutput(n - 1)
          BY <3>1, <4>1, UnmaskedFacts
        <4> QED BY <4>3, <4>4
      <3>6. result' = [n \in 1..N |-> CheckedOutput(n - 1)]
        BY <3>2, <3>5 DEF Unmasked
      <3>7. \A n \in 1..N : CheckedOutput(n - 1) \in Residues
        <4> TAKE n \in 1..N
        <4>1. n - 1 \in Index
          BY <3>3
        <4>2. \A u \in Int : u % Q \in Residues
          BY ReduceFirst
        <4>3. R[n - 1] \in Int /\ ZValue(Left(Receiver), n - 1) \in Int
          BY <3>1, <4>1, InputFacts, ValueFacts, HopFacts
        <4>4. ZValue(Left(Receiver), n - 1) - R[n - 1] \in Int
          BY <4>3
        <4>5. (ZValue(Left(Receiver), n - 1) - R[n - 1]) % Q = CheckedOutput(n - 1)
          BY <3>1, <4>1, UnmaskedFacts
        <4> QED BY <4>2, <4>4, <4>5
      <3>8. result' \in Seq(Residues \cup {Garbage})
        <4> DEFINE c(n) == CheckedOutput(n - 1)
        <4>1. \A n \in 1..N : c(n) \in Residues \cup {Garbage}
          BY <3>7
        <4>2. result' = [n \in 1..N |-> c(n)] /\ N \in Nat
          BY <3>6, Basics
        <4> HIDE DEF c
        <4> QED BY <4>1, <4>2
      <3>9. \A i : CheckedOutput(i)' = CheckedOutput(i)
        BY <1>2, Same
      <3>10. Outputs'
        BY <1>5, <3>1, <3>6, <3>9 DEF Outputs
      <3> QED BY <3>8, <3>10
    <2>2. CASE Msg(p) # "z"
      <3>1. result' = result /\ result \in Seq(Residues \cup {Garbage})
        BY <2>2 DEF Received, TypeOK
      <3>2. \A q \in Members \ {p} : Over(q)' = Over(q)
        BY <1>1, <1>5, <1>8 DEF Over
      <3>3. protocol # "reveal" => Over(Receiver)' = Over(Receiver)
        <4>1. CASE p = Receiver
          <5>1. protocol # "reveal" => ~(line[p] + 1 > Len(Script(p)))
            BY <1>1, <1>3, <2>2, LastLines
          <5>2. protocol # "reveal" => ~Over(p)' /\ ~Over(p)
            BY <1>3, <1>8, <5>1
          <5> QED BY <4>1, <5>2 DEF Over
        <4>2. CASE p # Receiver
          BY <3>2, <4>2, Basics
        <4> QED BY <4>1, <4>2
      <3>4. protocol = "reveal" /\ line'[Receiver] > 2 => Len(intersection) <= N
        <4>1. CASE p = Receiver
          BY <1>1, <1>3, <1>8, <4>1, LastLines DEF Outputs
        <4>2. CASE p # Receiver
          BY <1>1, <1>8, <4>2, Basics DEF Outputs
        <4> QED BY <4>1, <4>2
      <3>5. protocol = "reveal" /\ Over(Sender)' => examined = N
        <4>1. CASE p = Sender
          <5>1. Over(p)' /\ protocol = "reveal" => Msg(p) = "y"
            BY <1>1, <1>3, <1>8, <4>1, LastLines
          <5>2. protocol = "reveal" /\ Msg(p) = "y" => Filtering(p)
            BY DEF Received, Filtering
          <5>3. Filtering(p) => examined = N
            BY DEF Received
          <5> QED BY <4>1, <5>1, <5>2, <5>3
        <4>2. CASE p # Sender
          BY <1>1, <3>2, <4>2, Basics DEF Outputs
        <4> QED BY <4>1, <4>2
      <3>6. \A l \in Lanes : Cursor(Sender, "y", l, "in")' = Cursor(Sender, "y", l, "in")
        BY <1>2, <1>9, <1>12, SenderStays
      <3>7. Outputs'
        BY <1>1, <1>2, <3>1, <3>3, <3>4, <3>5, <3>6, OutputsStay
      <3> QED BY <3>1, <3>7
    <2> QED BY <2>1, <2>2
  <1>15. Flow'
    BY <1>2, <1>8, <1>9, <1>12, <1>13, <1>14, StillStep
  <1>16. TypeOK'
    BY <1>2, <1>5, <1>8, <1>11, <1>14 DEF TypeOK
  <1> QED BY <1>15, <1>16

\* A program that has died stays as it is.
LEMMA DieStep ==
    ASSUME TypeOK, Flow, NEW p \in Members, failed' = failed \cup {p}, failures' \in 0..MaxFailures,
           UNCHANGED <<inputs, line, step, begin, pos, wire, key, got, out, result, examined>>
    PROVE  TypeOK' /\ Flow'
  <1>1. UNCHANGED <<protocol, lanes, chunk, intersection>> /\ Lanes' = Lanes /\ Members' = Members
    BY Same DEF inputs
  <1>2. \A q \in Members : Stays(q) /\ StaysPut(q)
    BY DEF Stays, StaysPut
  <1>3. Still(p)
    BY <1>2, StaysFacts DEF Still
  <1>4. Placed(p)' /\ Held(p)' /\ Prepared(p)'
    BY <1>2, StaysFacts, StaysHeld DEF Flow
  <1>5. Outputs'
    BY <1>2, <1>3, OutputsSame
  <1>6. Flow'
    BY <1>2, <1>3, <1>4, <1>5, StillStep
  <1>7. TypeOK'
    BY <1>1 DEF TypeOK
  <1> QED BY <1>6, <1>7

LEMMA CheckBoundStep ==
    ASSUME TypeOK, Flow, NEW p \in Members, CheckBound(p)
    PROVE  TypeOK' /\ Flow'
  <1>1. Placed(p) /\ Held(p) /\ Members \subseteq Procs /\ Outputs
    BY Basics DEF Flow
  <1>2. UNCHANGED <<inputs, wire, key, got, out, result, examined, failures>>
    BY DEF CheckBound
  <1>3. ~Over(p) /\ Op(p) = "check"
    BY DEF CheckBound, At, Ended
  <1>4. p = Receiver /\ Msg(p) = "y" /\ protocol = "reveal" /\ Stage(p) = 4 /\ line[p] = 2
    BY <1>1, <1>3, LineFacts, RankFacts
  <1>5. Lanes' = Lanes /\ Members' = Members /\ UNCHANGED <<protocol, lanes, chunk, intersection>>
        /\ \A q : Script(q)' = Script(q)
    BY <1>2, Same DEF inputs
  <1>6. CASE Len(intersection) > N
    <2>1. failed' = failed \cup {p} /\ UNCHANGED <<line, step, begin, pos>>
      BY <1>6 DEF CheckBound
    <2>2. failures' \in 0..MaxFailures
      BY <1>2 DEF TypeOK
    <2> QED BY <1>2, <2>1, <2>2, DieStep
  <1>7. CASE ~(Len(intersection) > N)
    <2>1. NextLine(p) /\ failed' = failed
      BY <1>7 DEF CheckBound
    <2>2. /\ line'[p] = line[p] + 1 /\ Stage(p)' = StageAt(p, line[p] + 1)
          /\ Placed(p)' /\ Prepared(p)'
          /\ \A q \in Procs \ {p} : line'[q] = line[q] /\ step'[q] = step[q]
                                    /\ begin'[q] = begin[q] /\ pos'[q] = pos[q]
          /\ line' \in [Procs -> 1..6] /\ step' \in [Procs -> {"in", "out"}]
          /\ begin' \in [Procs -> 0..N] /\ pos' \in [Procs -> [Lanes -> 0..N]]
      BY <1>1, <1>2, <1>3, <2>1, NextLineStep
    <2>3. StageAt(p, line[p] + 1) = 4
      BY <1>1, <1>3, NextStage
    <2>4. \A q \in Members \ {p} : Stays(q)
      BY <1>1, <1>2, <2>2 DEF Stays
    <2>5. Still(p)
      <3> SUFFICES ASSUME NEW m \in Carried, NEW l \in Lanes
                   PROVE  /\ p # Origin(m) => Cursor(p, m, l, "in")' = Cursor(p, m, l, "in")
                          /\ p # Goal(m) => Cursor(p, m, l, "out")' = Cursor(p, m, l, "out")
        BY DEF Still
      <3>1. \A dir \in {"in", "out"} : Cursor(p, m, l, dir)' = IF Rank[m] < 4 THEN Upto(m, l) ELSE From(m, l)
        BY <1>1, <1>2, <1>3, <2>1, <2>3, NextLineStep
      <3>2. m = "pk" \/ m = "y"
        BY <1>4 DEF Carried
      <3>3. CASE m = "pk"
        <4>1. Rank[m] < 4 /\ m \in Messages
          BY <3>3, RankFacts
        <4>2. \A dir \in {"in", "out"} : Cursor(p, m, l, dir) = Upto(m, l)
          BY <1>1, <1>4, <4>1, CursorFacts
        <4> QED BY <3>1, <4>1, <4>2
      <3>4. CASE m = "y"
        <4>1. Rank[m] = 4 /\ m \in Messages /\ p = Origin(m)
          BY <1>4, <3>4, RankFacts DEF Origin
        <4>2. step[p] # "out" /\ begin[p] = 0
          BY <1>1, <1>3 DEF Placed
        <4>3. Cursor(p, m, l, "out") = Where(m, l, 0)
          BY <1>4, <4>1, <4>2 DEF Cursor
        <4>4. Where(m, l, 0) = From(m, l)
          BY <4>1, WhereFacts
        <4> QED BY <3>1, <4>1, <4>3, <4>4
      <3> QED BY <3>2, <3>3, <3>4
    <2>6. Held(p)'
      <3>1. key'[p] = HopKey(Left(p))
        BY <1>1, <1>2, <1>4 DEF Held
      <3> QED BY <1>1, <1>2, <2>5, <3>1, HeldStep
    <2>7. Outputs'
      <3>1. Len(intersection) <= N
        <4>1. Len(intersection) \in Nat /\ N \in Nat
          BY Basics DEF TypeOK
        <4> QED BY <1>7, <4>1
      <3>2. Sender \in Members \ {p}
        BY <1>4, Basics DEF Sender, Receiver
      <3>3. Over(Sender)' = Over(Sender)
        BY <1>1, <1>5, <2>2, <3>2 DEF Over
      <3>4. Over(Sender)' => examined = N
        BY <1>1, <1>4, <3>3 DEF Outputs
      <3>5. \A l \in Lanes : Cursor(Sender, "y", l, "in")' = Cursor(Sender, "y", l, "in")
        BY <1>2, <2>4, <2>5, SenderStays
      <3> QED BY <1>1, <1>2, <1>4, <3>1, <3>4, <3>5, OutputsStay
    <2>8. Flow'
      BY <1>2, <2>2, <2>4, <2>5, <2>6, <2>7, StillStep
    <2>9. TypeOK'
      BY <1>2, <1>5, <2>1, <2>2 DEF TypeOK
    <2> QED BY <2>8, <2>9
  <1> QED BY <1>6, <1>7

\* Party A looks at slot n, counted from 0, which is the slot that B has sent.
LEMMA ExamineStep ==
    ASSUME TypeOK, Flow, NEW p \in Members, Examine(p)
    PROVE  TypeOK' /\ Flow'
  <1>1. Placed(p) /\ Held(p) /\ Members \subseteq Procs /\ Outputs
    BY Basics DEF Flow
  <1>2. UNCHANGED <<inputs, line, failed, step, begin, pos, wire, key, got, out, failures>>
    BY DEF Examine
  <1>3. /\ ~Over(p) /\ Op(p) = "recv" /\ protocol = "reveal" /\ Msg(p) = "y" /\ ChunkDone(p)
        /\ examined < N /\ examined' = examined + 1
    BY DEF Examine, Filtering, At, Ended
  <1>4. p = Sender /\ Stage(p) = 4 /\ p # Origin("y") /\ "y" \in Messages /\ "y" \in Carried
    BY <1>1, <1>3, LineFacts, RankFacts DEF Origin, Sender, Receiver
  <1>5. examined \in Nat /\ examined \in Index /\ N \in Nat /\ examined' \in 0..N
    <2>1. examined \in 0..N /\ N \in Nat
      BY Basics DEF TypeOK
    <2> QED BY <1>3, <2>1 DEF Index
  <1>6. step[p] = "in" /\ begin[p] = 0 /\ End(p) = Size(Msg(p))
    <2>1. step[p] \in {"in", "out"} /\ step[p] # "out" /\ begin[p] = 0
      BY <1>1, <1>3, StateFacts DEF Placed
    <2>2. End(p) \in Nat /\ Size(Msg(p)) \in Nat /\ End(p) <= Size(Msg(p)) /\ ~(End(p) < Size(Msg(p)))
      BY <1>1, <1>3, EndFacts
    <2> QED BY <2>1, <2>2
  <1> DEFINE v == Slot(examined)
  <1>7. DecryptedY[examined] = v /\ v \in Residues
    <2>1. examined \in InHand(p)
      BY <1>3, <1>5, <1>6 DEF InHand, Size
    <2>2. IsRight(HopIn(p, "y"), "y", examined, got[p]["y"][examined])
      BY <1>1, <1>3, <1>4, <1>6, <2>1, HasChunk
    <2>3. HopIn(p, "y") = 1 /\ HopKey(1) = Sk /\ Sk \in Int
      BY <1>4, KeyFacts DEF HopIn, Sender
    <2>4. Enciphers(got[Sender]["y"][examined], Sk, YValue(examined))
      BY <1>4, <2>2, <2>3 DEF IsRight
    <2>5. Decrypt(Sk, got[Sender]["y"][examined]) = YValue(examined)
      BY <2>3, <2>4, DecryptFacts DEF Enciphers
    <2>6. YValue(examined) = v /\ v \in Residues
      BY <1>3, <1>5, ValueFacts DEF YValue
    <2> QED BY <1>5, <2>5, <2>6 DEF DecryptedY
  <1>8. result' = IF Keeps(v) THEN Append(result, v) ELSE result
    BY <1>7 DEF Examine
  <1>9. Still(p) /\ \A q \in Members : Stays(q) /\ StaysPut(q)
    <2>1. \A q \in Members : Stays(q) /\ StaysPut(q)
      BY <1>2 DEF Stays, StaysPut
    <2> QED BY <1>2, <2>1, StaysFacts DEF Still
  <1>10. Placed(p)' /\ Held(p)' /\ Prepared(p)'
    BY <1>2, <1>9, StaysFacts, StaysHeld DEF Flow
  <1>11. Lanes' = Lanes /\ Members' = Members /\ UNCHANGED <<protocol, lanes, chunk, intersection>>
         /\ (\A i : Slot(i)' = Slot(i)) /\ \A m, l : Upto(m, l)' = Upto(m, l)
    BY <1>2, Same DEF inputs
  <1>12. \A l \in Lanes : Cursor(Sender, "y", l, "in")' = Upto("y", l)
    <2>1. \A l \in Lanes : Cursor(p, "y", l, "in")' = Cursor(p, "y", l, "in")
      BY <1>4, <1>9 DEF Still
    <2>2. \A l \in Lanes : Where("y", l, pos[p][l]) = Upto("y", l)
      BY <1>1, <1>3, <1>4, <1>6, LaneFacts, WhereFacts DEF ChunkDone
    <2>3. \A l \in Lanes : Cursor(p, "y", l, "in") = Where("y", l, pos[p][l])
      BY <1>4, <1>6, RankFacts DEF Cursor
    <2> QED BY <1>4, <2>1, <2>2, <2>3
  <1>13. /\ result \in Seq(Residues \cup {Garbage}) /\ InOrder
         /\ {result[j] : j \in DOMAIN result} = OwnValues \cap {Slot(n) : n \in 0..(examined - 1)}
    BY <1>1, <1>3 DEF TypeOK, Outputs
  <1>14. /\ result' \in Seq(Residues \cup {Garbage})
         /\ {result'[j] : j \in DOMAIN result'} = OwnValues \cap {Slot(n) : n \in 0..examined}
         /\ \A j, k \in DOMAIN result' : j < k =>
              \E n \in Index : Slot(n) = result'[j] /\ \A i \in 0..n : Slot(i) # result'[k]
    <2> DEFINE old == {Slot(n) : n \in 0..(examined - 1)}
               new == {Slot(n) : n \in 0..examined}
    <2>1. new = old \cup {v}
      BY <1>5
    <2>2. CASE Keeps(v)
      <3>1. v \in OwnValues /\ \A j \in DOMAIN result : result[j] # v
        BY <2>2 DEF Keeps
      <3>2. v \notin old
        BY <1>13, <3>1
      <3>3. result' = Append(result, v)
        BY <1>8, <2>2
      <3>4. /\ result' \in Seq(Residues \cup {Garbage}) /\ Len(result) \in Nat
            /\ DOMAIN result = 1..Len(result)
            /\ DOMAIN result' = 1..(Len(result) + 1)
            /\ result'[Len(result) + 1] = v /\ \A j \in 1..Len(result) : result'[j] = result[j]
        BY <1>7, <1>13, <3>3
      <3>5. {result'[j] : j \in DOMAIN result'} = {result[j] : j \in DOMAIN result} \cup {v}
        BY <3>4
      <3>6. {result'[j] : j \in DOMAIN result'} = OwnValues \cap new
        BY <1>13, <2>1, <3>1, <3>5
      <3>7. ASSUME NEW j \in DOMAIN result', NEW k \in DOMAIN result', j < k
            PROVE  \E n \in Index : Slot(n) = result'[j] /\ \A i \in 0..n : Slot(i) # result'[k]
        <4>1. j \in DOMAIN result /\ result'[j] = result[j]
          BY <3>4, <3>7
        <4>2. CASE k \in DOMAIN result
          BY <1>13, <3>4, <3>7, <4>1, <4>2 DEF InOrder
        <4>3. CASE k \notin DOMAIN result
          <5>1. result'[k] = v
            BY <3>4, <4>3
          <5>2. PICK n \in 0..(examined - 1) : result[j] = Slot(n)
            BY <1>13, <4>1
          <5>3. n \in Index /\ \A i \in 0..n : i \in 0..(examined - 1)
            BY <1>5 DEF Index
          <5>4. \A i \in 0..n : Slot(i) # v
            BY <3>2, <5>3
          <5> QED BY <4>1, <5>1, <5>2, <5>3, <5>4
        <4> QED BY <4>2, <4>3
      <3> QED BY <3>4, <3>6, <3>7
    <2>3. CASE ~Keeps(v)
      <3>1. result' = result
        BY <1>8, <2>3
      <3>2. v \in OwnValues => v \in {result[j] : j \in DOMAIN result}
        BY <2>3 DEF Keeps
      <3>3. OwnValues \cap new = OwnValues \cap old
        BY <1>13, <2>1, <3>2
      <3> QED BY <1>13, <3>1, <3>3 DEF InOrder
    <2> QED BY <2>2, <2>3
  <1>15. Outputs'
    <2>1. InOrder'
      BY <1>11, <1>14 DEF InOrder
    <2>2. (Over(Sender) => examined = N)' /\ (line[Receiver] > 2 => Len(intersection) <= N)'
      <3>1. Over(p)' = Over(p)
        BY <1>2, PutFacts
      <3> QED BY <1>1, <1>2, <1>3, <1>4, <1>11, <3>1 DEF Outputs
    <2>3. ({result[j] : j \in DOMAIN result} = OwnValues \cap {Slot(n) : n \in 0..(examined - 1)})'
      <3>1. examined' - 1 = examined
        BY <1>3, <1>5
      <3> QED BY <1>11, <1>14, <3>1
    <2> QED BY <1>3, <1>11, <1>12, <2>1, <2>2, <2>3 DEF Outputs
  <1>16. Flow'
    BY <1>2, <1>9, <1>10, <1>15, StillStep
  <1>17. TypeOK'
    BY <1>2, <1>5, <1>11, <1>14 DEF TypeOK
  <1> QED BY <1>16, <1>17

-------------------------------------------------------------------------------
(***************************************************************************)
(* The lanes: one cursor advances by one.                                  *)
(***************************************************************************)
Lane(p, o) ==
    /\ pos' = [pos EXCEPT ![p][o] = pos[p][o] + 1]
    /\ UNCHANGED <<inputs, line, step, begin>>

LEMMA LaneMove ==
    ASSUME TypeOK, NEW p \in Members, Placed(p), ~Over(p), NEW o \in Lanes, ~LaneDone(p, o), Lane(p, o)
    PROVE  /\ Placed(p)' /\ pos' \in [Procs -> [Lanes -> 0..N]]
           /\ \A q \in Procs \ {p} : pos'[q] = pos[q]
           /\ Cursor(p, Msg(p), o, step[p]) = pos[p][o]
           /\ \A m \in Carried : \A l \in Lanes : \A dir \in {"in", "out"} :
                Cursor(p, m, l, dir)' = IF m = Msg(p) /\ l = o /\ dir = step[p]
                                        THEN Cursor(p, m, l, dir) + 1 ELSE Cursor(p, m, l, dir)
  <1>1. /\ pos' = [pos EXCEPT ![p][o] = pos[p][o] + 1]
        /\ UNCHANGED inputs /\ line' = line /\ step' = step /\ begin' = begin
    BY DEF Lane
  <1>2. p \in Procs /\ pos \in [Procs -> [Lanes -> 0..N]] /\ N \in Nat
    BY Basics DEF TypeOK
  <1>3. /\ pos[p][o] \in Nat /\ pos[p][o] \in Index
        /\ From(Msg(p), o) <= pos[p][o] /\ pos[p][o] < Upto(Msg(p), o)
        /\ Where(Msg(p), o, pos[p][o]) = pos[p][o]
        /\ Where(Msg(p), o, pos[p][o] + 1) = pos[p][o] + 1
        /\ pos[p][o] + 1 <= Last(Msg(p), o, End(p)) /\ pos[p][o] + 1 \in 0..N
    BY LaneFacts, StateFacts
  <1>4. /\ pos' \in [Procs -> [Lanes -> 0..N]] /\ \A q \in Procs \ {p} : pos'[q] = pos[q]
        /\ pos'[p][o] = pos[p][o] + 1 /\ \A l \in Lanes \ {o} : pos'[p][l] = pos[p][l]
    BY <1>1, <1>2, <1>3
  <1>5. /\ Over(p)' = Over(p) /\ Op(p)' = Op(p) /\ Msg(p)' = Msg(p) /\ End(p)' = End(p)
        /\ Stage(p)' = Stage(p) /\ Size(Msg(p))' = Size(Msg(p))
    BY <1>1, PutFacts DEF Size
  <1>6. /\ Lanes' = Lanes /\ Script(p)' = Script(p)
        /\ \A m, l, i : /\ First(m, l, i)' = First(m, l, i) /\ Last(m, l, i)' = Last(m, l, i)
                        /\ Where(m, l, i)' = Where(m, l, i)
                        /\ From(m, l)' = From(m, l) /\ Upto(m, l)' = Upto(m, l)
    BY <1>1, Same
  <1>7. Placed(p)'
    <2>1. \A l \in Lanes :
            (/\ First(Msg(p), l, begin[p]) <= pos[p][l]
             /\ pos[p][l] = First(Msg(p), l, begin[p]) \/ pos[p][l] <= Last(Msg(p), l, End(p)))'
      <3> TAKE l \in Lanes
      <3>1. /\ First(Msg(p), l, begin[p]) <= pos[p][l]
            /\ pos[p][l] = First(Msg(p), l, begin[p]) \/ pos[p][l] <= Last(Msg(p), l, End(p))
        BY DEF Placed
      <3>2. First(Msg(p), l, begin[p])' = First(Msg(p), l, begin[p])
            /\ Last(Msg(p), l, End(p))' = Last(Msg(p), l, End(p))
        BY <1>1, <1>5, <1>6
      <3>3. First(Msg(p), l, begin[p]) \in Int
        BY EndFacts, LineFacts, StateFacts, WhereFacts
      <3>4. CASE l = o
        BY <1>3, <1>4, <3>1, <3>2, <3>3, <3>4
      <3>5. CASE l # o
        BY <1>4, <3>1, <3>2, <3>5
      <3> QED BY <3>4, <3>5
    <2>2. (/\ line[p] <= Len(Script(p)) + 1
           /\ step[p] = "out" => ~Over(p) /\ Op(p) \in {"send", "relay"}
           /\ Over(p) \/ Op(p) # "relay" => begin[p] = 0
           /\ begin[p] < Size(Msg(p)))'
      BY <1>1, <1>5, <1>6 DEF Placed
    <2> QED BY <1>6, <2>1, <2>2 DEF Placed
  <1>8. Stage(p) = Rank[Msg(p)] /\ Msg(p) \in Messages /\ Msg(p) \in Carried /\ Rank[Msg(p)] \in 1..5
    BY LineFacts, RankFacts
  <1>9. Cursor(p, Msg(p), o, step[p]) = pos[p][o]
    BY <1>3, <1>8 DEF Cursor
  <1>10. ASSUME NEW m \in Carried, NEW l \in Lanes, NEW dir \in {"in", "out"}
         PROVE  Cursor(p, m, l, dir)' = IF m = Msg(p) /\ l = o /\ dir = step[p]
                                        THEN Cursor(p, m, l, dir) + 1 ELSE Cursor(p, m, l, dir)
    <2>1. CASE m # Msg(p)
      <3>1. Rank[m] # Stage(p) /\ Rank[m] \in 1..5
        BY <1>8, <2>1, RankFacts
      <3> QED BY <1>5, <1>6, <1>8, <2>1, <3>1 DEF Cursor
    <2>2. CASE m = Msg(p)
      <3>1. ~(Rank[m] > Stage(p)) /\ ~(Rank[m] < Stage(p))
        BY <1>8, <2>2
      <3>2. Cursor(p, m, l, dir) = Where(m, l, IF step[p] = dir THEN pos[p][l]
                                               ELSE IF dir = "in" THEN End(p) ELSE begin[p])
        BY <3>1 DEF Cursor
      <3>3. Cursor(p, m, l, dir)' = Where(m, l, IF step[p] = dir THEN pos'[p][l]
                                                ELSE IF dir = "in" THEN End(p) ELSE begin[p])
        BY <1>1, <1>5, <1>6, <3>1 DEF Cursor
      <3>4. CASE l = o /\ dir = step[p]
        BY <1>3, <1>4, <2>2, <3>2, <3>3, <3>4
      <3>5. CASE ~(l = o /\ dir = step[p])
        BY <1>4, <3>2, <3>3, <3>5
      <3> QED BY <3>4, <3>5
    <2> QED BY <2>1, <2>2
  <1> QED BY <1>4, <1>7, <1>9, <1>10

LEMMA LaneTotal ==
    ASSUME TypeOK, NEW p \in Members, Placed(p), ~Over(p), NEW o \in Lanes, ~LaneDone(p, o), Lane(p, o),
           NEW l \in Lanes, NEW dir \in {"in", "out"}, NEW back \in BOOLEAN
    PROVE  /\ Total(p, l, dir, back) \in Int
           /\ Total(p, l, dir, back)' = IF l = o /\ dir = step[p] /\ (back <=> Msg(p) = "y")
                                        THEN Total(p, l, dir, back) + 1 ELSE Total(p, l, dir, back)
  <1>1. UNCHANGED inputs
    BY DEF Lane
  <1>2. \A m \in Carried : Cursor(p, m, l, dir)' =
          IF m = Msg(p) /\ l = o /\ dir = step[p] THEN Cursor(p, m, l, dir) + 1 ELSE Cursor(p, m, l, dir)
    BY LaneMove
  <1>3. \A m \in Messages : Cursor(p, m, l, dir) \in Int /\ From(m, l) \in Int
    BY CursorFacts, PartFacts
  <1>4. Msg(p) \in Carried /\ Msg(p) \in Messages
    BY LineFacts
  <1>5. \A m \in Messages : Handled(p, m, l, dir) \in Int
    BY <1>3 DEF Handled
  <1>6. \A m \in Messages : Handled(p, m, l, dir)' =
          IF m = Msg(p) /\ l = o /\ dir = step[p] THEN Handled(p, m, l, dir) + 1 ELSE Handled(p, m, l, dir)
    <2> TAKE m \in Messages
    <2>1. From(m, l)' = From(m, l) /\ Carried' = Carried
      BY <1>1, Same
    <2>2. CASE m \in Carried
      <3>1. Handled(p, m, l, dir)' = Cursor(p, m, l, dir)' - From(m, l)
        BY <2>1, <2>2 DEF Handled
      <3>2. Handled(p, m, l, dir) = Cursor(p, m, l, dir) - From(m, l)
        BY <2>2 DEF Handled
      <3> QED BY <1>2, <1>3, <2>2, <3>1, <3>2
    <2>3. CASE m \notin Carried
      BY <1>4, <2>1, <2>3 DEF Handled
    <2> QED BY <2>2, <2>3
  <1>7. "pk" \in Messages /\ "a" \in Messages /\ "b" \in Messages /\ "y" \in Messages /\ "z" \in Messages
    BY RankFacts
  <1>8. CASE back
    BY <1>5, <1>6, <1>7, <1>8 DEF Total
  <1>9. CASE ~back
    <2>1. Total(p, l, dir, back) = Handled(p, "pk", l, dir) + Handled(p, "a", l, dir)
                                     + Handled(p, "b", l, dir) + Handled(p, "z", l, dir)
      BY <1>9 DEF Total
    <2>2. Total(p, l, dir, back)' = Handled(p, "pk", l, dir)' + Handled(p, "a", l, dir)'
                                     + Handled(p, "b", l, dir)' + Handled(p, "z", l, dir)'
      BY <1>9 DEF Total
    <2>3. CASE ~(l = o /\ dir = step[p])
      BY <1>5, <1>6, <1>7, <2>1, <2>2, <2>3
    <2>4. CASE l = o /\ dir = step[p]
      <3>1. Msg(p) = "pk" \/ Msg(p) = "a" \/ Msg(p) = "b" \/ Msg(p) = "y" \/ Msg(p) = "z"
        BY <1>4, RankFacts
      <3>2. CASE Msg(p) = "pk"
        BY <1>5, <1>6, <1>7, <1>9, <2>1, <2>2, <2>4, <3>2
      <3>3. CASE Msg(p) = "a"
        BY <1>5, <1>6, <1>7, <1>9, <2>1, <2>2, <2>4, <3>3
      <3>4. CASE Msg(p) = "b"
        BY <1>5, <1>6, <1>7, <1>9, <2>1, <2>2, <2>4, <3>4
      <3>5. CASE Msg(p) = "y"
        BY <1>5, <1>6, <1>7, <1>9, <2>1, <2>2, <2>4, <3>5
      <3>6. CASE Msg(p) = "z"
        BY <1>5, <1>6, <1>7, <1>9, <2>1, <2>2, <2>4, <3>6
      <3> QED BY <3>1, <3>2, <3>3, <3>4, <3>5, <3>6
    <2> QED BY <2>3, <2>4
  <1> QED BY <1>8, <1>9

LEMMA TotalInt ==
    ASSUME TypeOK, NEW q \in Members, Placed(q), NEW l \in Lanes, NEW dir \in {"in", "out"}
    PROVE  \A back : Total(q, l, dir, back) \in Int
  <1>1. \A m \in Messages : Handled(q, m, l, dir) \in Int
    BY CursorFacts, PartFacts DEF Handled
  <1> QED BY <1>1, RankFacts DEF Total

LEMMA LaneLinks ==
    ASSUME TypeOK, Flow, NEW p \in Members, ~Over(p), NEW o \in Lanes, ~LaneDone(p, o), Lane(p, o),
           \A q \in Members \ {p} : Stays(q), NEW k \in Links, NEW l \in Lanes
    PROVE  /\ Given(k, l) \in Int /\ Taken(k, l) \in Int
           /\ Given(k, l)' = IF k[1] = p /\ step[p] = "out" /\ l = o /\ (Back(k) <=> Msg(p) = "y")
                             THEN Given(k, l) + 1 ELSE Given(k, l)
           /\ Taken(k, l)' = IF k[2] = p /\ step[p] = "in" /\ l = o /\ (Back(k) <=> Msg(p) = "y")
                             THEN Taken(k, l) + 1 ELSE Taken(k, l)
  <1>1. \A q \in Members : Placed(q)
    BY DEF Flow
  <1>2. k[1] \in Members /\ k[2] \in Members /\ Back(k) \in BOOLEAN
    BY LinkFacts
  <1>3. UNCHANGED inputs
    BY DEF Lane
  <1>4. \A q \in Members \ {p} : \A m, i, dir : Cursor(q, m, i, dir)' = Cursor(q, m, i, dir)
    BY <1>3, StaysFacts DEF Stays, StaysPut
  <1>5. \A q \in Members \ {p} : \A dir, back : Total(q, l, dir, back)' = Total(q, l, dir, back)
    BY <1>3, <1>4, TotalSame
  <1>6. \A dir \in {"in", "out"} : \A back \in BOOLEAN :
          Total(p, l, dir, back)' = IF l = o /\ dir = step[p] /\ (back <=> Msg(p) = "y")
                                    THEN Total(p, l, dir, back) + 1 ELSE Total(p, l, dir, back)
    BY <1>1, LaneTotal
  <1>7. Given(k, l) \in Int /\ Taken(k, l) \in Int
    BY <1>1, <1>2, TotalInt DEF Given, Taken
  <1> DEFINE b == Back(k)
  <1>8. /\ Given(k, l) = Total(k[1], l, "out", b) /\ Given(k, l)' = Total(k[1], l, "out", b)'
        /\ Taken(k, l) = Total(k[2], l, "in", b) /\ Taken(k, l)' = Total(k[2], l, "in", b)'
    BY DEF Given, Taken
  <1>9. b \in BOOLEAN /\ b' = b
    BY <1>2 DEF Back
  <1>10. Total(k[1], l, "out", b)' =
            IF k[1] = p /\ step[p] = "out" /\ l = o /\ (b <=> Msg(p) = "y")
            THEN Total(k[1], l, "out", b) + 1 ELSE Total(k[1], l, "out", b)
    <2>1. CASE k[1] = p
      BY <1>6, <1>9, <2>1 DEF Back
    <2>2. CASE k[1] # p
      BY <1>2, <1>5, <2>2 DEF Back
    <2> QED BY <2>1, <2>2
  <1>11. Total(k[2], l, "in", b)' =
            IF k[2] = p /\ step[p] = "in" /\ l = o /\ (b <=> Msg(p) = "y")
            THEN Total(k[2], l, "in", b) + 1 ELSE Total(k[2], l, "in", b)
    <2>1. CASE k[2] = p
      BY <1>6, <1>9, <2>1 DEF Back
    <2>2. CASE k[2] # p
      BY <1>2, <1>5, <2>2 DEF Back
    <2> QED BY <2>1, <2>2
  <1> QED BY <1>7, <1>8, <1>10, <1>11

\* The item that a lane handles next is the one its cursor names.
LEMMA CurrentItem ==
    ASSUME TypeOK, NEW p \in Members, Placed(p), ~Over(p), NEW o \in Lanes, ~LaneDone(p, o),
           Cursor(p, Msg(p), o, step[p]) = pos[p][o]
    PROVE  LET m == Msg(p)
               n == Total(p, o, step[p], m = "y") + 1
           IN  /\ n \in Int /\ Before(m, o) < n /\ n <= Before(m, o) + Span(m, o)
               /\ pos[p][o] = From(m, o) + (n - 1 - Before(m, o))
  <1> DEFINE m == Msg(p)
             t == Total(p, o, step[p], m = "y")
  <1>1. m \in Messages /\ m \in Carried /\ step[p] \in {"in", "out"}
    BY LineFacts, StateFacts
  <1>2. t = Before(m, o) + pos[p][o] - From(m, o)
    BY <1>1, TotalNow
  <1>3. pos[p][o] \in Nat /\ From(m, o) <= pos[p][o] /\ pos[p][o] < Upto(m, o)
    BY LaneFacts, StateFacts
  <1>4. /\ Before(m, o) \in Nat /\ Span(m, o) = Upto(m, o) - From(m, o)
        /\ From(m, o) \in Nat /\ Upto(m, o) \in Nat
    BY <1>1, SpanFacts, PartFacts
  <1> HIDE DEF t
  <1> QED BY <1>2, <1>3, <1>4 DEF t

LEMMA LaneSendStep ==
    ASSUME TypeOK, Flow, NEW p \in Members, NEW o \in Lanes, LaneSend(p, o)
    PROVE  TypeOK' /\ Flow'
  <1> DEFINE m == Msg(p)
             k0 == <<p, Target(p)>>
             x == [msg |-> m, at |-> pos[p][o], is |-> out[p][pos[p][o]]]
  <1>1. Placed(p) /\ Held(p) /\ Prepared(p) /\ Members \subseteq Procs /\ Outputs /\ Aligned /\ p \in Procs
    BY Basics DEF Flow
  <1>2. UNCHANGED <<inputs, line, failed, step, begin, key, got, out, result, examined, failures>>
    BY DEF LaneSend
  <1>3. ~Over(p) /\ Op(p) \in {"send", "relay"} /\ step[p] = "out" /\ ~LaneDone(p, o)
    BY DEF LaneSend, Sending, At, Ended
  <1>4. Len(wire[k0][o]) < Cap /\ wire' = [wire EXCEPT ![k0][o] = Append(@, x)]
    BY DEF LaneSend
  <1>5. Lane(p, o)
    BY <1>2 DEF LaneSend, Lane
  <1>6. /\ Placed(p)' /\ pos' \in [Procs -> [Lanes -> 0..N]]
        /\ \A q \in Procs \ {p} : pos'[q] = pos[q]
        /\ Cursor(p, m, o, step[p]) = pos[p][o]
    BY <1>1, <1>3, <1>5, LaneMove
  <1>7. \A q \in Members \ {p} : Stays(q)
    BY <1>1, <1>2, <1>6 DEF Stays
  <1>8. m \in Messages /\ m \in Carried /\ p # Goal(m)
    BY <1>1, <1>3, LineFacts, HopFacts DEF Goal
  <1>9. k0 \in Links /\ (Back(k0) <=> m = "y") /\ Hop(k0) = HopOut(p, m)
    BY <1>8, NeighbourFacts DEF Target
  <1>10. k0 \in Procs \X Procs /\ k0[1] = p /\ k0[2] # p
    BY <1>9, LinkFacts
  <1>11. pos[p][o] \in Index /\ pos[p][o] \in InHand(p)
    BY <1>1, <1>3, LaneFacts
  <1>12. IsRight(HopOut(p, m), m, pos[p][o], out[p][pos[p][o]])
    BY <1>1, <1>3, <1>11 DEF Prepared
  <1>13. x \in Items
    <2>1. HopOut(p, m) \in {1, 2, 3}
      BY <1>8, HopFacts
    <2>2. out[p][pos[p][o]] \in Contents
      BY <1>8, <1>11, <1>12, <2>1, RightTyped
    <2> QED BY <1>8, <1>11, <2>2 DEF Items
  <1>14. wire \in [Procs \X Procs -> [Lanes -> Seq(Items)]]
         /\ \A k \in Procs \X Procs : \A l \in Lanes : Len(wire[k][l]) <= Cap
    BY DEF TypeOK
  <1> HIDE DEF k0, x
  <1>15. /\ wire' \in [Procs \X Procs -> [Lanes -> Seq(Items)]]
         /\ wire'[k0][o] = Append(wire[k0][o], x)
         /\ \A k \in Procs \X Procs : \A l \in Lanes :
              k # k0 \/ l # o => wire'[k][l] = wire[k][l]
    BY <1>4, <1>10, <1>13, <1>14
  <1>16. \A k \in Procs \X Procs : \A l \in Lanes : Len(wire'[k][l]) <= Cap
    <2> TAKE k \in Procs \X Procs
    <2> TAKE l \in Lanes
    <2>1. CASE k = k0 /\ l = o
      <3>1. wire[k0][o] \in Seq(Items)
        BY <1>10, <1>14
      <3>2. Len(wire'[k0][o]) = Len(wire[k0][o]) + 1 /\ Len(wire[k0][o]) \in Nat
        BY <1>13, <1>15, <3>1
      <3>3. Cap \in Nat
        BY ChainBounds
      <3> QED BY <1>4, <2>1, <3>2, <3>3
    <2>2. CASE k # k0 \/ l # o
      BY <1>14, <1>15, <2>2
    <2> QED BY <2>1, <2>2
  <1>17. TypeOK'
    <2>1. Lanes' = Lanes /\ Members' = Members /\ UNCHANGED <<protocol, lanes, chunk, intersection>>
      BY <1>2, Same DEF inputs
    <2> QED BY <1>2, <1>6, <1>15, <1>16, <2>1 DEF TypeOK
  <1>18. IsItem(k0, o, Given(k0, o) + 1, x)
    <2>1. Given(k0, o) = Total(p, o, step[p], m = "y")
      BY <1>3, <1>9, <1>10 DEF Given, Back
    <2> DEFINE n == Given(k0, o) + 1
    <2>2. /\ n \in Int /\ Before(m, o) < n /\ n <= Before(m, o) + Span(m, o)
          /\ pos[p][o] = From(m, o) + (n - 1 - Before(m, o))
      BY <1>1, <1>3, <1>6, <2>1, CurrentItem
    <2>3. x.msg = m /\ x.at = pos[p][o] /\ x.is = out[p][pos[p][o]]
      BY DEF x
    <2> HIDE DEF n
    <2>4. ASSUME NEW c \in Carried, c = "y" <=> Back(k0), Before(c, o) < n, n <= Before(c, o) + Span(c, o)
          PROVE  c = m
      BY <1>8, <1>9, <2>2, <2>4, OneMessage
    <2>5. IsItem(k0, o, n, x)
      BY <1>9, <1>12, <2>2, <2>3, <2>4 DEF IsItem
    <2> QED BY <2>5 DEF n
  <1>19. Aligned'
    <2>1. /\ Links' = Links /\ Lanes' = Lanes
          /\ \A k, l, n, c : IsItem(k, l, n, c)' = IsItem(k, l, n, c)
      BY <1>2, Same
    <2> SUFFICES ASSUME NEW k \in Links, NEW l \in Lanes
                 PROVE  /\ Given(k, l)' = Taken(k, l)' + Len(wire'[k][l])
                        /\ \A j \in 1..Len(wire'[k][l]) : IsItem(k, l, Taken(k, l)' + j, wire'[k][l][j])
      BY <2>1 DEF Aligned
    <2>2. /\ Given(k, l) = Taken(k, l) + Len(wire[k][l])
          /\ \A j \in 1..Len(wire[k][l]) : IsItem(k, l, Taken(k, l) + j, wire[k][l][j])
      BY <1>1 DEF Aligned
    <2>3. /\ Given(k, l) \in Int /\ Taken(k, l) \in Int
          /\ Given(k, l)' = IF k[1] = p /\ step[p] = "out" /\ l = o /\ (Back(k) <=> Msg(p) = "y")
                            THEN Given(k, l) + 1 ELSE Given(k, l)
          /\ Taken(k, l)' = IF k[2] = p /\ step[p] = "in" /\ l = o /\ (Back(k) <=> Msg(p) = "y")
                            THEN Taken(k, l) + 1 ELSE Taken(k, l)
      BY <1>3, <1>5, <1>7, LaneLinks
    <2>4. k \in Procs \X Procs
      BY LinkFacts
    <2>5. CASE k = k0 /\ l = o
      <3>1. Given(k, l)' = Given(k, l) + 1 /\ Taken(k, l)' = Taken(k, l)
        BY <1>3, <1>9, <1>10, <2>3, <2>5
      <3>2. wire[k][l] \in Seq(Items) /\ wire'[k][l] = Append(wire[k][l], x)
        BY <1>14, <1>15, <2>4, <2>5
      <3>3. /\ Len(wire[k][l]) \in Nat /\ Len(wire'[k][l]) = Len(wire[k][l]) + 1
            /\ wire'[k][l][Len(wire[k][l]) + 1] = x
            /\ \A j \in 1..Len(wire[k][l]) : wire'[k][l][j] = wire[k][l][j]
        BY <1>13, <3>2
      <3>4. Given(k, l)' = Taken(k, l)' + Len(wire'[k][l])
        BY <2>2, <2>3, <3>1, <3>3
      <3>5. ASSUME NEW j \in 1..Len(wire'[k][l])
            PROVE  IsItem(k, l, Taken(k, l)' + j, wire'[k][l][j])
        <4>1. CASE j \in 1..Len(wire[k][l])
          BY <2>2, <3>1, <3>3, <4>1
        <4>2. CASE j \notin 1..Len(wire[k][l])
          <5>1. j = Len(wire[k][l]) + 1
            BY <3>3, <4>2
          <5>2. Taken(k, l)' + j = Given(k, l) + 1
            BY <2>2, <2>3, <3>1, <3>3, <5>1
          <5> QED BY <1>18, <2>5, <3>3, <5>1, <5>2
        <4> QED BY <4>1, <4>2
      <3> QED BY <3>4, <3>5
    <2>6. CASE ~(k = k0 /\ l = o)
      <3>1. ~(k[1] = p /\ l = o /\ (Back(k) <=> m = "y"))
        <4>1. k[1] = p /\ (Back(k) <=> m = "y") => k = k0
          BY LinkFacts DEF k0, Target
        <4> QED BY <2>6, <4>1
      <3>2. Given(k, l)' = Given(k, l) /\ Taken(k, l)' = Taken(k, l)
        BY <1>3, <2>3, <3>1
      <3>3. wire'[k][l] = wire[k][l]
        BY <1>15, <2>4, <2>6
      <3> QED BY <2>2, <3>2, <3>3
    <2> QED BY <2>5, <2>6
  <1>20. \A d \in Carried : \A l \in Lanes : Cursor(p, d, l, "in")' = Cursor(p, d, l, "in")
    BY <1>1, <1>3, <1>5, LaneMove
  <1>21. Members' = Members /\ Left(p)' = Left(p) /\ Lanes' = Lanes /\ Carried' = Carried
         /\ (\A d : HopIn(p, d)' = HopIn(p, d) /\ HopOut(p, d)' = HopOut(p, d))
         /\ (\A d, l : From(d, l)' = From(d, l))
         /\ \A h, d, i, c : IsRight(h, d, i, c)' = IsRight(h, d, i, c)
    BY <1>2, Same
  <1>22. Msg(p)' = Msg(p) /\ InHand(p)' = InHand(p) /\ Stage(p)' = Stage(p) /\ \A q : Over(q)' = Over(q)
    BY <1>2, PutFacts
  <1>23. Held(p)' /\ Prepared(p)'
    <2>1. Held(p)'
      BY <1>1, <1>2, <1>20, <1>21, <1>22 DEF Held
    <2>2. Prepared(p)'
      BY <1>1, <1>2, <1>21, <1>22 DEF Prepared
    <2> QED BY <2>1, <2>2
  <1>24. Outputs'
    <2>1. \A l \in Lanes : Cursor(Sender, "y", l, "in")' = Cursor(Sender, "y", l, "in")
      <3>1. CASE p = Sender
        BY <1>20, <3>1, RankFacts
      <3>2. CASE p # Sender
        BY <1>2, <1>7, <3>2, Basics, StaysFacts DEF Stays, StaysPut
      <3> QED BY <3>1, <3>2
    <2>2. protocol = "reveal" => /\ line'[Receiver] > 2 => Len(intersection) <= N
                                 /\ Over(Sender)' => examined = N
      BY <1>1, <1>2, <1>22 DEF Outputs
    <2> QED BY <1>1, <1>2, <1>22, <2>1, <2>2, OutputsStay
  <1>25. Flow'
    <2>1. \A q \in Members \ {p} : Placed(q)' /\ Held(q)' /\ Prepared(q)'
      BY <1>2, <1>7, StaysFacts, StaysHeld DEF Stays, StaysPut, Flow
    <2> QED BY <1>6, <1>19, <1>21, <1>23, <1>24, <2>1 DEF Flow
  <1> QED BY <1>17, <1>25

\* What is at the head of a lane is the item that is awaited there.
LEMMA HeadItem ==
    ASSUME TypeOK, Flow, NEW p \in Members, NEW o \in Lanes, Receiving(p), ~LaneDone(p, o),
           wire[<<Source(p), p>>][o] # <<>>
    PROVE  LET x == Head(wire[<<Source(p), p>>][o]) IN
           /\ x.msg = Msg(p) /\ x.at = pos[p][o]
           /\ IsRight(HopIn(p, Msg(p)), Msg(p), pos[p][o], x.is)
  <1> DEFINE m == Msg(p)
             k0 == <<Source(p), p>>
             w == wire[k0][o]
             n == Taken(k0, o) + 1
  <1>1. Placed(p) /\ Aligned
    BY DEF Flow
  <1>2. ~Over(p) /\ Op(p) \in {"recv", "relay"} /\ step[p] = "in"
    BY DEF Receiving, At, Ended
  <1>3. m \in Messages /\ m \in Carried /\ p # Origin(m) /\ Stage(p) = Rank[m]
    BY <1>1, <1>2, LineFacts, HopFacts DEF Origin
  <1>4. k0 \in Links /\ (Back(k0) <=> m = "y") /\ Hop(k0) = HopIn(p, m)
    BY <1>3, NeighbourFacts DEF Source
  <1>5. k0 \in Procs \X Procs
    BY <1>4, LinkFacts
  <1>6. w \in Seq(Items)
    BY <1>5 DEF TypeOK
  <1>7. 1 \in 1..Len(w) /\ Head(w) = w[1]
    BY <1>6
  <1>8. IsItem(k0, o, n, Head(w))
    BY <1>1, <1>4, <1>7 DEF Aligned
  <1>9. Cursor(p, m, o, step[p]) = pos[p][o]
    <2>1. Where(m, o, pos[p][o]) = pos[p][o]
      BY <1>1, <1>2, LaneFacts
    <2>2. Rank[m] \in 1..5
      BY <1>3, RankFacts
    <2> QED BY <1>3, <2>1, <2>2 DEF Cursor
  <1>10. Taken(k0, o) = Total(p, o, step[p], m = "y")
    BY <1>2, <1>4 DEF Taken, Back
  <1>11. /\ n \in Int /\ Before(m, o) < n /\ n <= Before(m, o) + Span(m, o)
         /\ pos[p][o] = From(m, o) + (n - 1 - Before(m, o))
    BY <1>1, <1>2, <1>9, <1>10, CurrentItem
  <1> HIDE DEF n, k0, w
  <1>12. Head(w).msg = m /\ Head(w).at = pos[p][o] /\ IsRight(Hop(k0), m, Head(w).at, Head(w).is)
    BY <1>3, <1>4, <1>8, <1>11 DEF IsItem
  <1> QED BY <1>4, <1>12 DEF k0, w

LEMMA LaneRecvStep ==
    ASSUME TypeOK, Flow, NEW p \in Members, NEW o \in Lanes, LaneRecv(p, o)
    PROVE  TypeOK' /\ Flow'
  <1> DEFINE m == Msg(p)
             k0 == <<Source(p), p>>
             w == wire[k0][o]
             i0 == pos[p][o]
             c0 == Head(w).is
  <1>1. Placed(p) /\ Held(p) /\ Members \subseteq Procs /\ Outputs /\ Aligned /\ p \in Procs
    BY Basics DEF Flow
  <1>2. UNCHANGED <<inputs, line, failed, step, begin, key, out, result, examined, failures>>
    BY DEF LaneRecv
  <1>3. /\ ~Over(p) /\ Op(p) \in {"recv", "relay"} /\ step[p] = "in" /\ ~LaneDone(p, o)
        /\ Receiving(p) /\ w # <<>>
    BY DEF LaneRecv, Receiving, At, Ended
  <1>4. wire' = [wire EXCEPT ![k0][o] = Tail(@)] /\ got' = [got EXCEPT ![p][m][i0] = c0]
    BY DEF LaneRecv
  <1>5. Lane(p, o)
    BY <1>2 DEF LaneRecv, Lane
  <1>6. /\ Placed(p)' /\ pos' \in [Procs -> [Lanes -> 0..N]]
        /\ \A q \in Procs \ {p} : pos'[q] = pos[q]
        /\ Cursor(p, m, o, step[p]) = i0
    BY <1>1, <1>3, <1>5, LaneMove
  <1>7. m \in Messages /\ m \in Carried /\ p # Origin(m)
    BY <1>1, <1>3, LineFacts, HopFacts DEF Origin
  <1>8. k0 \in Links /\ (Back(k0) <=> m = "y") /\ Hop(k0) = HopIn(p, m)
    BY <1>7, NeighbourFacts DEF Source
  <1>9. k0 \in Procs \X Procs /\ k0[2] = p /\ k0[1] # p
    BY <1>8, LinkFacts
  <1>10. i0 \in Index /\ i0 \in Nat /\ i0 < Upto(m, o)
    BY <1>1, <1>3, LaneFacts, StateFacts
  <1>11. IsRight(HopIn(p, m), m, i0, c0)
    BY <1>3, HeadItem
  <1>12. /\ wire \in [Procs \X Procs -> [Lanes -> Seq(Items)]]
         /\ \A k \in Procs \X Procs : \A l \in Lanes : Len(wire[k][l]) <= Cap
         /\ got \in [Procs -> [Messages -> [Index -> Contents \cup {None}]]]
    BY DEF TypeOK
  <1>13. w \in Seq(Items) /\ Cap \in Nat
    BY <1>9, <1>12, ChainBounds
  <1>14. c0 \in Contents
    <2>1. HopIn(p, m) \in {1, 2, 3}
      BY <1>7, HopFacts
    <2> QED BY <1>7, <1>10, <1>11, <2>1, RightTyped
  <1>15. /\ Tail(w) \in Seq(Items) /\ Len(Tail(w)) = Len(w) - 1 /\ Len(w) \in Nat /\ Len(w) > 0
         /\ \A j \in 1..(Len(w) - 1) : Tail(w)[j] = w[j + 1]
    BY <1>3, <1>13
  <1>16. /\ wire' \in [Procs \X Procs -> [Lanes -> Seq(Items)]]
         /\ wire'[k0][o] = Tail(w)
         /\ \A k \in Procs \X Procs : \A l \in Lanes :
              k # k0 \/ l # o => wire'[k][l] = wire[k][l]
    <2> HIDE DEF k0
    <2> QED BY <1>4, <1>9, <1>12, <1>15
  <1>17. /\ got' \in [Procs -> [Messages -> [Index -> Contents \cup {None}]]]
         /\ got'[p][m][i0] = c0
         /\ \A q \in Procs \ {p} : got'[q] = got[q]
         /\ \A d \in Messages : \A i \in Index : d # m \/ i # i0 => got'[p][d][i] = got[p][d][i]
    <2> HIDE DEF m, i0, c0
    <2> QED BY <1>1, <1>4, <1>7, <1>10, <1>12, <1>14
  <1> HIDE DEF k0, w, c0
  <1>18. \A k \in Procs \X Procs : \A l \in Lanes : Len(wire'[k][l]) <= Cap
    <2> TAKE k \in Procs \X Procs
    <2> TAKE l \in Lanes
    <2>1. CASE k = k0 /\ l = o
      <3>1. Len(w) <= Cap
        BY <1>9, <1>12 DEF w
      <3> QED BY <1>13, <1>15, <1>16, <2>1, <3>1
    <2>2. CASE k # k0 \/ l # o
      BY <1>12, <1>16, <2>2
    <2> QED BY <2>1, <2>2
  <1>19. TypeOK'
    <2>1. Lanes' = Lanes /\ Members' = Members /\ UNCHANGED <<protocol, lanes, chunk, intersection>>
      BY <1>2, Same DEF inputs
    <2> QED BY <1>2, <1>6, <1>16, <1>17, <1>18, <2>1 DEF TypeOK
  <1>20. \A q \in Members \ {p} : Stays(q)
    BY <1>1, <1>2, <1>6, <1>17 DEF Stays
  <1>21. Aligned'
    <2>1. /\ Links' = Links /\ Lanes' = Lanes
          /\ \A k, l, n, c : IsItem(k, l, n, c)' = IsItem(k, l, n, c)
      BY <1>2, Same
    <2> SUFFICES ASSUME NEW k \in Links, NEW l \in Lanes
                 PROVE  /\ Given(k, l)' = Taken(k, l)' + Len(wire'[k][l])
                        /\ \A j \in 1..Len(wire'[k][l]) : IsItem(k, l, Taken(k, l)' + j, wire'[k][l][j])
      BY <2>1 DEF Aligned
    <2>2. /\ Given(k, l) = Taken(k, l) + Len(wire[k][l])
          /\ \A j \in 1..Len(wire[k][l]) : IsItem(k, l, Taken(k, l) + j, wire[k][l][j])
      BY <1>1 DEF Aligned
    <2>3. /\ Given(k, l) \in Int /\ Taken(k, l) \in Int
          /\ Given(k, l)' = IF k[1] = p /\ step[p] = "out" /\ l = o /\ (Back(k) <=> Msg(p) = "y")
                            THEN Given(k, l) + 1 ELSE Given(k, l)
          /\ Taken(k, l)' = IF k[2] = p /\ step[p] = "in" /\ l = o /\ (Back(k) <=> Msg(p) = "y")
                            THEN Taken(k, l) + 1 ELSE Taken(k, l)
      BY <1>3, <1>5, <1>20, LaneLinks
    <2>4. k \in Procs \X Procs
      BY LinkFacts
    <2>5. CASE k = k0 /\ l = o
      <3>1. Given(k, l)' = Given(k, l) /\ Taken(k, l)' = Taken(k, l) + 1
        BY <1>3, <1>8, <1>9, <2>3, <2>5
      <3>2. wire[k][l] = w /\ wire'[k][l] = Tail(w)
        BY <1>16, <2>5 DEF w
      <3>3. Given(k, l)' = Taken(k, l)' + Len(wire'[k][l])
        BY <1>15, <2>2, <2>3, <3>1, <3>2
      <3>4. ASSUME NEW j \in 1..Len(wire'[k][l])
            PROVE  IsItem(k, l, Taken(k, l)' + j, wire'[k][l][j])
        <4>1. j \in 1..(Len(w) - 1) /\ j + 1 \in 1..Len(w) /\ j \in Int
          BY <1>15, <3>2
        <4>2. wire'[k][l][j] = wire[k][l][j + 1]
          BY <1>15, <3>2, <4>1
        <4>3. Taken(k, l)' + j = Taken(k, l) + (j + 1)
          BY <2>3, <3>1, <4>1
        <4>4. IsItem(k, l, Taken(k, l) + (j + 1), wire[k][l][j + 1])
          BY <2>2, <3>2, <4>1
        <4> QED BY <4>2, <4>3, <4>4
      <3> QED BY <3>3, <3>4
    <2>6. CASE ~(k = k0 /\ l = o)
      <3>1. ~(k[2] = p /\ l = o /\ (Back(k) <=> m = "y"))
        <4>1. k[2] = p /\ (Back(k) <=> m = "y") => k = k0
          BY LinkFacts DEF k0, Source
        <4> QED BY <2>6, <4>1
      <3>2. Given(k, l)' = Given(k, l) /\ Taken(k, l)' = Taken(k, l)
        BY <1>3, <2>3, <3>1
      <3>3. wire'[k][l] = wire[k][l]
        BY <1>16, <2>4, <2>6
      <3> QED BY <2>2, <3>2, <3>3
    <2> QED BY <2>5, <2>6
  <1>22. \A d \in Carried : \A l \in Lanes :
           Cursor(p, d, l, "in")' = IF d = m /\ l = o THEN Cursor(p, d, l, "in") + 1 ELSE Cursor(p, d, l, "in")
    BY <1>1, <1>3, <1>5, LaneMove
  <1>23. Members' = Members /\ Left(p)' = Left(p) /\ Lanes' = Lanes /\ Carried' = Carried
         /\ (\A d : HopIn(p, d)' = HopIn(p, d))
         /\ (\A d, l : From(d, l)' = From(d, l))
         /\ \A h, d, i, c : IsRight(h, d, i, c)' = IsRight(h, d, i, c)
    BY <1>2, Same
  <1>24. Stage(p)' = Stage(p) /\ \A q : Over(q)' = Over(q)
    BY <1>2, PutFacts
  <1>25. Held(p)'
    <2>1. ASSUME NEW d \in Carried, p # (IF d = "y" THEN Receiver ELSE Sender), NEW l \in Lanes,
                 NEW i \in Index, From(d, l) <= i, i < Cursor(p, d, l, "in")'
          PROVE  IsRight(HopIn(p, d), d, i, got'[p][d][i])
      <3>1. d \in Messages
        BY RankFacts
      <3>2. CASE d = m /\ i = i0
        BY <1>11, <1>17, <3>2
      <3>3. CASE ~(d = m /\ i = i0)
        <4>1. got'[p][d][i] = got[p][d][i]
          BY <1>17, <3>1, <3>3
        <4>2. i < Cursor(p, d, l, "in")
          <5>1. CASE d = m /\ l = o
            <6>1. Cursor(p, d, l, "in") = i0 /\ i \in Nat
              BY <1>3, <1>6, <5>1, Basics DEF Index
            <6> QED BY <1>10, <1>22, <2>1, <3>3, <5>1, <6>1
          <5>2. CASE ~(d = m /\ l = o)
            BY <1>22, <2>1, <5>2
          <5> QED BY <5>1, <5>2
        <4>3. IsRight(HopIn(p, d), d, i, got[p][d][i])
          BY <1>1, <2>1, <4>2 DEF Held
        <4> QED BY <4>1, <4>3
      <3> QED BY <3>2, <3>3
    <2>2. (p = Receiver /\ Stage(p) > 1 => key[p] = HopKey(Left(p)))'
      BY <1>1, <1>2, <1>23, <1>24 DEF Held
    <2> QED BY <1>23, <2>1, <2>2 DEF Held
  <1>26. Prepared(p)'
    BY <1>2, <1>3 DEF Prepared
  <1>27. Outputs'
    <2>1. \A l \in Lanes : Cursor(Sender, "y", l, "in") = Upto("y", l) =>
                             Cursor(Sender, "y", l, "in")' = Upto("y", l)
      <3>1. CASE p = Sender
        <4>1. "y" \in Carried
          BY RankFacts
        <4>2. \A l \in Lanes : "y" = m /\ l = o => Cursor(Sender, "y", l, "in") # Upto("y", l)
          <5>1. Cursor(p, m, o, "in") = i0 /\ Upto(m, o) \in Nat
            BY <1>3, <1>6, <1>7, PartFacts
          <5>2. Cursor(p, m, o, "in") # Upto(m, o)
            BY <1>10, <5>1
          <5> QED BY <3>1, <5>2
        <4> QED BY <1>22, <3>1, <4>1, <4>2
      <3>2. CASE p # Sender
        BY <1>2, <1>20, <3>2, Basics, StaysFacts DEF Stays, StaysPut
      <3> QED BY <3>1, <3>2
    <2>2. protocol = "reveal" => /\ line'[Receiver] > 2 => Len(intersection) <= N
                                 /\ Over(Sender)' => examined = N
      BY <1>1, <1>2, <1>24 DEF Outputs
    <2> QED BY <1>1, <1>2, <1>24, <2>1, <2>2, OutputsStay
  <1>28. Flow'
    <2>1. \A q \in Members \ {p} : Placed(q)' /\ Held(q)' /\ Prepared(q)'
      BY <1>2, <1>20, StaysFacts, StaysHeld DEF Stays, StaysPut, Flow
    <2> QED BY <1>6, <1>21, <1>23, <1>25, <1>26, <1>27, <2>1 DEF Flow
  <1> QED BY <1>19, <1>28

-------------------------------------------------------------------------------
(***************************************************************************)
(* The invariant.                                                          *)
(***************************************************************************)
LEMMA ChainInit == Init => TypeOK
  <1> SUFFICES ASSUME Init PROVE TypeOK
    OBVIOUS
  <1>1. N \in Nat \ {0} /\ Cap \in Nat \ {0} /\ MaxFailures \in Nat /\ ChunkSizes \subseteq 1..N
    BY ChainBounds
  <1>2. protocol \in Protocols /\ lanes \in LaneCounts
    BY DEF Init
  <1>3. chunk \in [Firewalls -> 1..N]
    <2>1. CASE protocol = "ole3"
      BY <1>1, <2>1 DEF Init
    <2>2. CASE protocol # "ole3"
      <3>1. chunk \in [Firewalls -> ChunkSizes]
        BY <2>2 DEF Init
      <3> QED BY <1>1, <3>1
    <2> QED BY <2>1, <2>2
  <1>4. intersection \in Seq(Residues)
    <2>1. CASE protocol = "reveal"
      BY <2>1, ChainInputs DEF Init
    <2>2. CASE protocol # "reveal"
      <3>1. intersection = <<>>
        BY <2>2 DEF Init
      <3> QED BY <3>1
    <2> QED BY <2>1, <2>2
  <1>5. pos \in [Procs -> [Lanes -> 0..N]]
    <2>1. \A l \in Lanes : First("pk", l, 0) = 0
      BY DEF First
    <2>2. StartAt("pk", 0) \in [Lanes -> 0..N]
      BY <1>1, <2>1 DEF StartAt
    <2> QED BY <2>2 DEF Init
  <1>6. wire \in [Procs \X Procs -> [Lanes -> Seq(Items)]]
        /\ \A k \in Procs \X Procs : \A l \in Lanes : Len(wire[k][l]) <= Cap
    <2>1. wire = [k \in Procs \X Procs |-> [l \in Lanes |-> <<>>]]
      BY DEF Init
    <2>2. <<>> \in Seq(Items) /\ Len(<<>>) = 0
      OBVIOUS
    <2> QED BY <1>1, <2>1, <2>2
  <1>7. result \in Seq(Residues \cup {Garbage}) /\ examined \in 0..N /\ failures \in 0..MaxFailures
    BY <1>1 DEF Init
  <1>8. line \in [Procs -> 1..6] /\ failed \subseteq Members /\ step \in [Procs -> {"in", "out"}]
        /\ begin \in [Procs -> 0..N] /\ key \in [Procs -> Int \cup {None}]
        /\ got \in [Procs -> [Messages -> [Index -> Contents \cup {None}]]]
        /\ out \in [Procs -> [Index -> Contents \cup {None}]]
    BY <1>1 DEF Init
  <1> QED BY <1>2, <1>3, <1>4, <1>5, <1>6, <1>7, <1>8 DEF TypeOK

LEMMA FlowInit == Init => TypeOK /\ Flow
  <1> SUFFICES ASSUME Init PROVE TypeOK /\ Flow
    OBVIOUS
  <1>1. TypeOK
    BY ChainInit
  <1>2. N \in Nat \ {0} /\ Members \subseteq Procs /\ Receiver \in Members /\ Sender \in Members
    BY <1>1, Basics
  <1>3. /\ \A p \in Procs : /\ line[p] = 1 /\ step[p] = "in" /\ begin[p] = 0
                            /\ pos[p] = StartAt("pk", 0)
        /\ result = <<>> /\ examined = 0
        /\ wire = [k \in Procs \X Procs |-> [l \in Lanes |-> <<>>]]
    BY DEF Init
  <1>4. ASSUME NEW p \in Members
        PROVE  /\ ~Over(p) /\ Msg(p) = "pk" /\ Stage(p) = 1 /\ Op(p) # "check"
               /\ line[p] <= Len(Script(p)) + 1
    <2>1. Len(Script(p)) \in {2, 3, 5} /\ Script(p)[1].msg = "pk"
      BY <1>1, Ole3Script, RevealScript
    <2>2. line[p] = 1
      BY <1>2, <1>3
    <2>3. ~Over(p) /\ Msg(p) = "pk"
      BY <2>1, <2>2 DEF Over, Msg
    <2>4. Script(p)[1].op # "check"
      <3>1. CASE protocol = "reveal"
        BY <1>1, <3>1, Basics, RevealScript DEF Firewalls, Sender, SRF, RRF, Receiver
      <3>2. CASE protocol # "reveal"
        BY <1>1, <3>2, Basics, Ole3Script DEF Firewalls, Sender, SRF, RRF, Receiver
      <3> QED BY <3>1, <3>2
    <2> QED BY <2>1, <2>2, <2>3, <2>4, RankFacts DEF Stage, Op
  <1>5. ASSUME NEW p \in Members PROVE Placed(p)
    <2>1. \A l \in Lanes : pos[p][l] = First(Msg(p), l, begin[p]) /\ pos[p][l] = 0
      BY <1>2, <1>3, <1>4 DEF StartAt, First
    <2>2. begin[p] < Size(Msg(p)) /\ step[p] = "in" /\ begin[p] = 0
      BY <1>2, <1>3, <1>4 DEF Size
    <2>3. \A l \in Lanes : First(Msg(p), l, begin[p]) <= pos[p][l]
      BY <2>1
    <2> QED BY <1>4, <2>1, <2>2, <2>3 DEF Placed
  <1>6. ASSUME NEW p \in Members, NEW m \in Carried, NEW l \in Lanes
        PROVE  /\ p # Origin(m) => Cursor(p, m, l, "in") = From(m, l)
               /\ Cursor(p, m, l, "out") = From(m, l)
    <2>1. m \in Messages /\ Rank[m] \in 1..5 /\ (Rank[m] = 1 => m = "pk")
      BY RankFacts
    <2>2. CASE m = "pk"
      <3>1. step[p] = "in" /\ begin[p] = 0 /\ pos[p][l] = 0
        BY <1>2, <1>3 DEF StartAt, First
      <3>2. Where(m, l, 0) = From(m, l)
        BY <1>1, <2>1, WhereFacts
      <3> QED BY <1>4, <2>2, <3>1, <3>2, RankFacts DEF Cursor
    <2>3. CASE m # "pk"
      BY <1>4, <2>1, <2>3 DEF Cursor
    <2> QED BY <2>2, <2>3
  <1>7. ASSUME NEW p \in Members PROVE Held(p) /\ Prepared(p)
    <2>1. Prepared(p)
      BY <1>2, <1>3 DEF Prepared
    <2>2. ASSUME NEW m \in Carried, p # (IF m = "y" THEN Receiver ELSE Sender), NEW l \in Lanes,
                 NEW i \in Index, From(m, l) <= i, i < Cursor(p, m, l, "in")
          PROVE  FALSE
      <3>1. Cursor(p, m, l, "in") = From(m, l)
        BY <1>6, <2>2 DEF Origin
      <3>2. From(m, l) \in Nat /\ i \in Nat
        BY <1>1, <1>2, PartFacts, RankFacts DEF Index
      <3> QED BY <2>2, <3>1, <3>2
    <2>3. ~(Stage(p) > 1)
      BY <1>4
    <2> QED BY <2>1, <2>2, <2>3 DEF Held
  <1>8. Aligned
    <2> SUFFICES ASSUME NEW k \in Links, NEW l \in Lanes
                 PROVE  /\ Given(k, l) = Taken(k, l) + Len(wire[k][l])
                        /\ \A j \in 1..Len(wire[k][l]) : IsItem(k, l, Taken(k, l) + j, wire[k][l][j])
      BY DEF Aligned
    <2>1. /\ k \in Procs \X Procs /\ k[1] \in Members /\ k[2] \in Members
          /\ \A m : (m = "y" <=> Back(k)) => k[2] # Origin(m)
      BY <1>1, LinkFacts
    <2>2. wire[k][l] = <<>> /\ Len(wire[k][l]) = 0
      BY <1>3, <2>1
    <2>3. \A m \in Messages : From(m, l) \in Nat
      BY <1>1, PartFacts
    <2>4. \A m \in Messages : (m = "y" <=> Back(k)) =>
            Handled(k[1], m, l, "out") = 0 /\ Handled(k[2], m, l, "in") = 0
      BY <1>6, <2>1, <2>3 DEF Handled
    <2>5. Given(k, l) = 0 /\ Taken(k, l) = 0
      <3>1. CASE Back(k)
        BY <2>4, <3>1, RankFacts DEF Given, Taken, Total
      <3>2. CASE ~Back(k)
        BY <2>4, <3>2, RankFacts DEF Given, Taken, Total
      <3> QED BY <3>1, <3>2
    <2> QED BY <2>2, <2>5
  <1>9. Outputs
    <2>1. ~Over(Receiver) /\ ~Over(Sender) /\ line[Receiver] = 1
      BY <1>2, <1>3, <1>4
    <2>2. {result[j] : j \in DOMAIN result} = {} /\ InOrder
      BY <1>3 DEF InOrder
    <2>3. {Slot(n) : n \in 0..(examined - 1)} = {}
      BY <1>3
    <2> QED BY <1>3, <2>1, <2>2, <2>3 DEF Outputs
  <1> QED BY <1>1, <1>5, <1>7, <1>8, <1>9 DEF Flow

LEMMA FlowNext == TypeOK /\ Flow /\ [Next]_vars => TypeOK' /\ Flow'
  <1> SUFFICES ASSUME TypeOK, Flow, [Next]_vars PROVE TypeOK' /\ Flow'
    OBVIOUS
  <1>1. ASSUME NEW p \in Members, Fail(p) \/ PeerFailed(p) PROVE TypeOK' /\ Flow'
    <2>1. Die(p)
      BY <1>1 DEF Fail, PeerFailed
    <2>2. failures' \in 0..MaxFailures
      BY <1>1, ChainBounds DEF Fail, PeerFailed, TypeOK
    <2> QED BY <2>1, <2>2, DieStep DEF Die
  <1>2. CASE UNCHANGED vars
    <2>1. UNCHANGED <<inputs, line, failed, step, begin, pos, wire, key, got, out, result, examined, failures>>
      BY <1>2 DEF vars
    <2>2. PICK p \in Members : TRUE
      BY Basics
    <2>3. \A q \in Members : Stays(q) /\ StaysPut(q)
      BY <2>1 DEF Stays, StaysPut
    <2>4. Still(p)
      BY <2>1, <2>3, StaysFacts DEF Still
    <2>5. Placed(p)' /\ Held(p)' /\ Prepared(p)'
      BY <2>1, <2>3, StaysFacts, StaysHeld DEF Flow
    <2>6. Outputs'
      BY <2>1, <2>3, <2>4, OutputsSame
    <2>7. Flow'
      BY <2>1, <2>3, <2>4, <2>5, <2>6, StillStep
    <2>8. TypeOK'
      <3>1. Lanes' = Lanes /\ Members' = Members /\ UNCHANGED <<protocol, lanes, chunk, intersection>>
        BY <2>1, Same DEF inputs
      <3> QED BY <2>1, <3>1 DEF TypeOK
    <2> QED BY <2>7, <2>8
  <1>3. CASE Progress
    <2>1. PICK p \in Members :
            \/ Prepare(p) \/ Transform(p) \/ Sent(p) \/ Received(p) \/ CheckBound(p) \/ Examine(p)
            \/ PeerFailed(p)
            \/ \E l \in Lanes : LaneRecv(p, l) \/ LaneSend(p, l)
      BY <1>3 DEF Progress
    <2>2. CASE Prepare(p)
      BY <2>2, PrepareStep
    <2>3. CASE Transform(p)
      BY <2>3, TransformStep
    <2>4. CASE Sent(p)
      BY <2>4, SentStep
    <2>5. CASE Received(p)
      BY <2>5, ReceivedStep
    <2>6. CASE CheckBound(p)
      BY <2>6, CheckBoundStep
    <2>7. CASE Examine(p)
      BY <2>7, ExamineStep
    <2>8. CASE PeerFailed(p)
      BY <1>1, <2>8
    <2>9. CASE \E l \in Lanes : LaneRecv(p, l) \/ LaneSend(p, l)
      BY <2>9, LaneRecvStep, LaneSendStep
    <2> QED BY <2>1, <2>2, <2>3, <2>4, <2>5, <2>6, <2>7, <2>8, <2>9
  <1>4. CASE \E p \in Members : Fail(p)
    BY <1>1, <1>4
  <1>5. CASE Finished
    BY <1>2, <1>5 DEF Finished
  <1> QED BY <1>2, <1>3, <1>4, <1>5 DEF Next

\* The streams of all programs fit together: between two neighbours everything
\* that was written and not read is on the wire, in order and right for its
\* hop, and what a program holds, sends and outputs is right.
THEOREM RelayFlow == Spec => [](TypeOK /\ Flow)
  <1>1. Init => TypeOK /\ Flow
    BY FlowInit
  <1>2. TypeOK /\ Flow /\ [Next]_vars => (TypeOK /\ Flow)'
    BY FlowNext
  <1> QED BY <1>1, <1>2, PTL DEF Spec

\* Type correctness: no buffer holds more than Cap items, only keys, ciphertexts
\* and residues travel, and no index leaves the batch.
THEOREM RelayTypes == Spec => []TypeOK
  <1>1. TypeOK /\ Flow => TypeOK
    OBVIOUS
  <1> QED BY <1>1, RelayFlow, PTL

\* Untagged messages are never mistaken for one another, for any number of
\* lanes, chunk sizes of the firewalls and buffer size, and whoever dies.
THEOREM StaysInTurn == Spec => []InTurn
  <1>1. TypeOK /\ Flow => InTurn
    BY HeadItem DEF InTurn
  <1> QED BY <1>1, RelayFlow, PTL

\* The receiver of OLE3 outputs nothing or what the checker expects, item by
\* item, and what the sender decrypts is masked by r_i: for all inputs, blinds,
\* keys, shifts and coins.
THEOREM Ole3Outputs == Spec => []Ole3Exact
  <1>1. ASSUME TypeOK, Flow PROVE Ole3Exact
    <2> SUFFICES ASSUME protocol # "reveal"
                 PROVE  /\ result # <<>> => result = [n \in 1..N |-> CheckedOutput(n - 1)]
                        /\ line[Sender] > 4 => \A i \in Index :
                             DecryptedY[i] = ((A[i] + BlindSum(ABlind, i)) * X[i] + B[i] + R[i]) % Q
      BY DEF Ole3Exact
    <2>1. result # <<>> => result = [n \in 1..N |-> CheckedOutput(n - 1)]
      BY <1>1 DEF Flow, Outputs
    <2>2. ASSUME line[Sender] > 4, NEW i \in Index
          PROVE  DecryptedY[i] = ((A[i] + BlindSum(ABlind, i)) * X[i] + B[i] + R[i]) % Q
      <3>1. Sender \in Members /\ Placed(Sender) /\ Held(Sender)
        BY <1>1, Basics DEF Flow
      <3>2. Stage(Sender) > 4
        <4>1. line[Sender] \in 1..6
          BY <1>1, <3>1, StateFacts
        <4>2. Len(Script(Sender)) = 5 /\ Script(Sender)[5].msg = "z"
          BY <1>1, <3>1, Ole3Script
        <4>3. CASE line[Sender] = 5
          BY <4>2, <4>3, RankFacts DEF Stage, Over, Msg
        <4>4. CASE line[Sender] = 6
          BY <4>2, <4>4 DEF Stage, Over
        <4> QED BY <2>2, <4>1, <4>3, <4>4
      <3>3. IsRight(HopIn(Sender, "y"), "y", i, got[Sender]["y"][i])
        <4>1. "y" \in Carried /\ Rank["y"] = 4 /\ Sender # Origin("y")
          BY RankFacts DEF Origin, Sender, Receiver
        <4>2. i \in 0..(Size("y") - 1)
          BY DEF Size, Index
        <4>3. Rank["y"] < Stage(Sender)
          BY <3>2, <4>1
        <4> QED BY <1>1, <3>1, <4>1, <4>2, <4>3, HasMessage
      <3>4. HopIn(Sender, "y") = 1 /\ HopKey(1) = Sk /\ Sk \in Int
        BY KeyFacts DEF HopIn, Sender
      <3>5. DecryptedY[i] = YValue(i)
        BY <3>3, <3>4, DecryptFacts DEF IsRight, Enciphers, DecryptedY
      <3> DEFINE u == A[i] + BlindSum(ABlind, i)
      <3>6. AValue(Left(Receiver), i) = u % Q /\ u \in Int
        BY <1>1, BlindSums
      <3>7. YValue(i) = ((u % Q) * X[i] + B[i] + R[i]) % Q
        BY <3>6 DEF YValue
      <3>8. X[i] \in Int /\ B[i] \in Int /\ R[i] \in Int
        BY InputFacts
      <3> HIDE DEF u
      <3>9. ((u % Q) * X[i] + (B[i] + R[i])) % Q = (u * X[i] + (B[i] + R[i])) % Q
        <4>1. B[i] + R[i] \in Int
          BY <3>8
        <4> QED BY <3>6, <3>8, <4>1, ReduceFirst
      <3>10. /\ (u % Q) * X[i] + (B[i] + R[i]) = (u % Q) * X[i] + B[i] + R[i]
             /\ u * X[i] + (B[i] + R[i]) = u * X[i] + B[i] + R[i]
        <4>1. \A t \in Int : t + (B[i] + R[i]) = t + B[i] + R[i]
          BY <3>8
        <4>2. u % Q \in Int
          BY <3>6, ReduceFirst
        <4>3. (u % Q) * X[i] \in Int /\ u * X[i] \in Int
          BY <3>6, <3>8, <4>2
        <4> QED BY <4>1, <4>3
      <3> QED BY <3>5, <3>7, <3>9, <3>10 DEF u
    <2> QED BY <2>1, <2>2
  <1> QED BY <1>1, RelayFlow, PTL

\* Party A of the reveal ends normally only with exactly its share of Party B's
\* values: for every intersection and bound, and whoever dies.
THEOREM RevealOutputs == Spec => []RevealExact
  <1>1. ASSUME TypeOK, Flow PROVE RevealExact
    <2> SUFFICES ASSUME protocol = "reveal", Done(Sender)
                 PROVE  /\ Len(intersection) <= N
                        /\ {result[j] : j \in DOMAIN result} =
                             OwnValues \cap ({intersection[n] : n \in DOMAIN intersection}
                                              \cup (IF Len(intersection) < N THEN {0} ELSE {}))
                        /\ InOrder
      BY DEF RevealExact
    <2>1. /\ Over(Sender) /\ Outputs /\ Sender \in Members /\ Placed(Sender) /\ Held(Sender)
          /\ N \in Nat \ {0} /\ intersection \in Seq(Residues)
      BY <1>1, Basics DEF Flow, Done, TypeOK
    <2>2. Len(intersection) <= N
      <3>1. Stage(Sender) = 6
        BY <2>1 DEF Stage
      <3>2. "y" \in Carried /\ Sender # Origin("y") /\ Rank["y"] < Stage(Sender)
        BY <3>1, RankFacts DEF Origin, Sender, Receiver
      <3>3. 0 \in 0..(Size("y") - 1)
        BY <2>1 DEF Size
      <3>4. IsRight(HopIn(Sender, "y"), "y", 0, got[Sender]["y"][0])
        BY <1>1, <2>1, <3>2, <3>3, HasMessage
      <3> QED BY <3>4 DEF IsRight
    <2>3. /\ examined = N /\ InOrder
          /\ {result[j] : j \in DOMAIN result} = OwnValues \cap {Slot(n) : n \in 0..(examined - 1)}
      BY <2>1 DEF Outputs
    <2>4. {Slot(n) : n \in 0..(N - 1)} =
            {intersection[n] : n \in DOMAIN intersection} \cup (IF Len(intersection) < N THEN {0} ELSE {})
      <3> DEFINE len == Len(intersection)
                 slots == {Slot(n) : n \in 0..(N - 1)}
                 sent == {intersection[n] : n \in DOMAIN intersection}
                 pad == IF len < N THEN {0} ELSE {}
      <3>1. len \in Nat /\ DOMAIN intersection = 1..len
        BY <2>1
      <3>2. ASSUME NEW n \in 0..(N - 1) PROVE Slot(n) \in sent \cup pad
        <4>1. CASE n < len
          <5>1. n + 1 \in DOMAIN intersection /\ Slot(n) = intersection[n + 1]
            BY <2>1, <3>1, <4>1 DEF Slot
          <5> QED BY <5>1
        <4>2. CASE ~(n < len)
          <5>1. Slot(n) = 0 /\ len < N
            BY <2>1, <3>1, <4>2 DEF Slot
          <5> QED BY <5>1
        <4> QED BY <4>1, <4>2
      <3>3. ASSUME NEW n \in DOMAIN intersection PROVE intersection[n] \in slots
        <4>1. n - 1 \in 0..(N - 1) /\ Slot(n - 1) = intersection[n]
          BY <2>1, <2>2, <3>1 DEF Slot
        <4> QED BY <4>1
      <3>4. ASSUME len < N PROVE 0 \in slots
        <4>1. N - 1 \in 0..(N - 1) /\ Slot(N - 1) = 0
          BY <2>1, <3>1, <3>4 DEF Slot
        <4> QED BY <4>1
      <3>5. slots \subseteq sent \cup pad
        BY <3>2
      <3>6. sent \subseteq slots /\ pad \subseteq slots
        BY <3>3, <3>4
      <3> QED BY <3>5, <3>6
    <2> QED BY <2>2, <2>3, <2>4
  <1> QED BY <1>1, RelayFlow, PTL
===============================================================================
