----------------------------- MODULE RfOleProofs -----------------------------
(***************************************************************************)
(* Batched RF-OLE is correct for every batch size, lane count, mix of chunk*)
(* sizes, buffer size, input, key, shift and coin, and whatever processes  *)
(* die: the streams stay aligned, the rounds are separated and the receiver*)
(* only stores right outputs.                                              *)
(*                                                                         *)
(* The inductive invariant is TypeOK /\ Flow.  A step moves at most one    *)
(* process and one lane, so every proof has two parts: what the mover does *)
(* to its own cursors (Awaited, Offered) and buffers, and the frame lemmas *)
(* OthersStay, LocalStep and SettledStep, which carry everything else over.*)
(***************************************************************************)
EXTENDS RfOle, ArithmeticProofs

-------------------------------------------------------------------------------
(***************************************************************************)
(* Types and places.                                                       *)
(***************************************************************************)
\* The numbers a process works with.
LEMMA Basics ==
    ASSUME TypeOK
    PROVE  /\ lanes \in Nat \ {0} /\ N \in Nat \ {0}
           /\ \A p \in Procs :
                /\ chunk[p] \in Nat \ {0} /\ begin[p] \in Nat /\ begin[p] < N
                /\ End(p) \in Nat /\ begin[p] < End(p) /\ End(p) <= N
                /\ \A l \in Lanes : pos[p][l] \in Nat /\ pos[p][l] <= N
  <1>1. lanes \in Nat \ {0} /\ N \in Nat \ {0}
    BY LanesAssumption, CountAssumption DEF TypeOK, MaxLanes
  <1>2. ASSUME NEW p \in Procs
        PROVE  /\ chunk[p] \in Nat \ {0} /\ begin[p] \in Nat /\ begin[p] < N
               /\ \A l \in Lanes : pos[p][l] \in Nat /\ pos[p][l] <= N
    BY <1>1, ChunksAssumption DEF TypeOK, Index
  <1>3. ASSUME NEW p \in Procs
        PROVE  End(p) \in Nat /\ begin[p] < End(p) /\ End(p) <= N
    BY <1>1, <1>2 DEF End, Least
  <1> QED BY <1>1, <1>2, <1>3

\* A link joins neighbours; its direction is its round.
LEMMA LinkFacts ==
    /\ Procs = {1, 2, 3, 4}
    /\ \A k \in Links :
         /\ k[1] \in Procs /\ k[2] \in Procs /\ k[1] # k[2] /\ k = <<k[1], k[2]>>
         /\ \/ Round(k) = "r1" /\ k[2] = k[1] + 1 /\ Least(k[1], k[2]) = k[1]
            \/ Round(k) = "r2" /\ k[1] = k[2] + 1 /\ Least(k[1], k[2]) = k[2]
    /\ \A p, q \in Procs : q = p + 1 \/ q = p - 1 => <<p, q>> \in Links
  <1>1. Procs = {1, 2, 3, 4}
    BY DEF Procs, Receiver, Sender
  <1>2. ASSUME NEW k \in Links
        PROVE  /\ k[1] \in Procs /\ k[2] \in Procs /\ k = <<k[1], k[2]>>
               /\ k[2] = k[1] + 1 \/ k[2] = k[1] - 1
    BY DEF Links
  <1>3. ASSUME NEW k \in Links
        PROVE  /\ k[1] # k[2]
               /\ \/ Round(k) = "r1" /\ k[2] = k[1] + 1 /\ Least(k[1], k[2]) = k[1]
                  \/ Round(k) = "r2" /\ k[1] = k[2] + 1 /\ Least(k[1], k[2]) = k[2]
    BY <1>1, <1>2 DEF Round, Least
  <1>4. \A p, q \in Procs : q = p + 1 \/ q = p - 1 => <<p, q>> \in Links
    BY <1>1 DEF Links
  <1> QED BY <1>1, <1>2, <1>3, <1>4

\* Two links of one round have different ends.
LEMMA LinkUnique ==
    ASSUME NEW k \in Links, NEW j \in Links, Round(k) = Round(j),
           k[1] = j[1] \/ k[2] = j[2]
    PROVE  k = j
  <1>1. k[1] = j[1] /\ k[2] = j[2]
    BY LinkFacts
  <1> QED BY <1>1, LinkFacts

\* A transfer of a chunk starts inside the batch.
LEMMA StartFacts ==
    ASSUME TypeOK, NEW b \in Nat, b <= N
    PROVE  /\ StartAt(b) \in [Lanes -> 0..N]
           /\ \A l \in Lanes :
                /\ StartAt(b)[l] = SliceBegin(N, lanes, l, b)
                /\ Reached(N, lanes, l, StartAt(b)[l]) = Reached(N, lanes, l, b)
                /\ Reached(N, lanes, l, 0) = RfLaneBegin(N, lanes, l)
                /\ Reached(N, lanes, l, N) = RfLaneEnd(N, lanes, l)
  <1>1. lanes \in Nat \ {0} /\ N \in Nat \ {0} /\ Lanes = 0..(lanes - 1)
    BY Basics DEF Lanes
  <1>2. ASSUME NEW l \in Lanes
        PROVE  /\ SliceBegin(N, lanes, l, b) \in 0..N
               /\ Reached(N, lanes, l, SliceBegin(N, lanes, l, b)) = Reached(N, lanes, l, b)
               /\ Reached(N, lanes, l, 0) = RfLaneBegin(N, lanes, l)
               /\ Reached(N, lanes, l, N) = RfLaneEnd(N, lanes, l)
    BY <1>1, b \in 0..N, SliceStart, ReachedEnds
  <1>3. StartAt(b) = [l \in Lanes |-> SliceBegin(N, lanes, l, b)]
    BY DEF StartAt
  <1> QED BY <1>2, <1>3

\* Where a lane is in its process's chunk: at an index of its own, or at the end.
LEMMA LaneFacts ==
    ASSUME TypeOK, NEW p \in Procs, NEW l \in Lanes, Placed(p), phase[p] \in {"r1", "r2"}
    PROVE  LET q == pos[p][l]
               f == RfLaneBegin(N, lanes, l)
               g == RfLaneEnd(N, lanes, l)
           IN  /\ LaneDone(p, l) => Reached(N, lanes, l, q) = Reached(N, lanes, l, End(p))
               /\ ~LaneDone(p, l) =>
                    /\ q \in Chunk(p) /\ f <= q /\ q < g /\ q + 1 <= N
                    /\ Reached(N, lanes, l, q) = q /\ Reached(N, lanes, l, q + 1) = q + 1
                    /\ q + 1 <= Reached(N, lanes, l, End(p))
                    /\ StartAt(begin[p])[l] <= q + 1
                    /\ q + 1 <= Greatest(StartAt(begin[p])[l], SliceEnd(N, lanes, l, End(p)))
  <1> DEFINE q == pos[p][l]
  <1>1. /\ lanes \in Nat \ {0} /\ N \in Nat \ {0} /\ Lanes = 0..(lanes - 1)
        /\ begin[p] \in Nat /\ End(p) \in Nat /\ begin[p] < End(p) /\ End(p) <= N
        /\ begin[p] <= N /\ q \in Nat
    BY Basics DEF Lanes
  <1>2. StartAt(begin[p])[l] = SliceBegin(N, lanes, l, begin[p])
    BY <1>1, StartFacts
  <1>3. /\ SliceBegin(N, lanes, l, begin[p]) <= q
        /\ q <= Greatest(SliceBegin(N, lanes, l, begin[p]), SliceEnd(N, lanes, l, End(p)))
    BY <1>2 DEF Placed
  <1>4. SliceBegin(N, lanes, l, begin[p]) \in Nat /\ SliceEnd(N, lanes, l, End(p)) \in Nat
    BY <1>1, LaneBounds DEF SliceBegin, SliceEnd, Greatest, Least
  <1>5. LaneDone(p, l) <=> q >= SliceEnd(N, lanes, l, End(p))
    BY DEF LaneDone
  <1> DEFINE e == End(p)
             b == begin[p]
             s == SliceEnd(N, lanes, l, e)
  <1>6. /\ q >= s => Reached(N, lanes, l, q) = Reached(N, lanes, l, e)
        /\ q < s =>
             /\ b <= q /\ q < e /\ q + 1 <= N
             /\ RfLaneBegin(N, lanes, l) <= q /\ q < RfLaneEnd(N, lanes, l)
             /\ Reached(N, lanes, l, q) = q /\ Reached(N, lanes, l, q + 1) = q + 1
             /\ q + 1 <= Reached(N, lanes, l, e)
             /\ q + 1 <= Greatest(SliceBegin(N, lanes, l, b), s)
    <2> HIDE DEF q, e, b
    <2> QED BY <1>1, <1>3, SliceProgress DEF e, b
  <1>7. q < e /\ b <= q => q \in Chunk(p)
    BY <1>1 DEF Chunk
  <1> QED BY <1>1, <1>2, <1>3, <1>4, <1>5, <1>6, <1>7

\* The cursors of a link are inside their lane.
LEMMA CursorBounds ==
    ASSUME TypeOK, NEW k \in Links, NEW l \in Lanes
    PROVE  /\ RfLaneBegin(N, lanes, l) \in Nat /\ RfLaneEnd(N, lanes, l) \in Nat
           /\ RfLaneBegin(N, lanes, l) <= RfLaneEnd(N, lanes, l)
           /\ RfLaneEnd(N, lanes, l) <= N
           /\ Awaited(k, l) \in Nat /\ RfLaneBegin(N, lanes, l) <= Awaited(k, l)
           /\ Awaited(k, l) <= RfLaneEnd(N, lanes, l)
           /\ Offered(k, l) \in Nat /\ RfLaneBegin(N, lanes, l) <= Offered(k, l)
           /\ Offered(k, l) <= RfLaneEnd(N, lanes, l)
  <1>1. /\ lanes \in Nat \ {0} /\ N \in Nat \ {0} /\ l \in 0..(lanes - 1)
        /\ \A p \in Procs : begin[p] \in Nat /\ End(p) \in Nat /\ pos[p][l] \in Nat
    BY Basics DEF Lanes
  <1>2. k[1] \in Procs /\ k[2] \in Procs
    BY LinkFacts
  <1>3. /\ RfLaneBegin(N, lanes, l) \in Nat /\ RfLaneEnd(N, lanes, l) \in Nat
        /\ RfLaneBegin(N, lanes, l) <= RfLaneEnd(N, lanes, l)
        /\ RfLaneEnd(N, lanes, l) <= N
    BY <1>1, LaneBounds
  <1>4. \A i \in Nat : /\ Reached(N, lanes, l, i) \in Nat
                       /\ RfLaneBegin(N, lanes, l) <= Reached(N, lanes, l, i)
                       /\ Reached(N, lanes, l, i) <= RfLaneEnd(N, lanes, l)
    BY <1>1, ReachedEnds
  <1>5. /\ Awaited(k, l) \in Nat /\ RfLaneBegin(N, lanes, l) <= Awaited(k, l)
        /\ Awaited(k, l) <= RfLaneEnd(N, lanes, l)
    BY <1>1, <1>2, <1>3, <1>4 DEF Awaited
  <1>6. /\ Offered(k, l) \in Nat /\ RfLaneBegin(N, lanes, l) <= Offered(k, l)
        /\ Offered(k, l) <= RfLaneEnd(N, lanes, l)
    BY <1>1, <1>2, <1>3, <1>4 DEF Offered
  <1> QED BY <1>3, <1>5, <1>6

\* The key between two processes is an integer, shifted by the firewall it passes.
LEMMA HopKeys ==
    /\ \A p \in 0..4 : HopKey(p) \in Int
    /\ HopKey(0) = Sk /\ HopKey(Receiver) = Sk
    /\ \A p \in Firewalls : Maul[p] \in Int /\ HopKey(p) = MaulPk(HopKey(p - 1), Maul[p])
  <1>1. Maul[RRF] \in Int /\ Maul[SRF] \in Int /\ Sk \in Int
    BY KeyAssumption DEF Firewalls
  <1> QED BY <1>1 DEF HopKey, MaulPk, Firewalls, RRF, SRF, Receiver

-------------------------------------------------------------------------------
(***************************************************************************)
(* Frames.                                                                 *)
(***************************************************************************)
\* Only process p moves.
Moves(p) ==
    /\ lanes' = lanes /\ chunk' = chunk
    /\ \A q \in Procs : q # p =>
         phase'[q] = phase[q] /\ step'[q] = step[q] /\ begin'[q] = begin[q] /\ pos'[q] = pos[q]

\* What a step of p leaves as it is.
LEMMA OthersStay ==
    ASSUME NEW p \in Procs, Moves(p)
    PROVE  /\ Lanes' = Lanes
           /\ \A b : StartAt(b)' = StartAt(b)
           /\ \A q \in Procs : q # p =>
                /\ End(q)' = End(q) /\ Chunk(q)' = Chunk(q)
                /\ Placed(q) => Placed(q)'
                /\ ForwardedAll(q)' <=> ForwardedAll(q)
           /\ \A k \in Links : k[2] # p => \A l : Awaited(k, l)' = Awaited(k, l)
           /\ \A k \in Links : k[1] # p => \A l : Offered(k, l)' = Offered(k, l)
  <1>1. Lanes' = Lanes /\ lanes' = lanes /\ chunk' = chunk
    BY DEF Moves, Lanes
  <1>2. \A b : StartAt(b)' = StartAt(b)
    BY <1>1 DEF StartAt
  <1>3. ASSUME NEW q \in Procs, q # p
        PROVE  /\ phase'[q] = phase[q] /\ step'[q] = step[q] /\ begin'[q] = begin[q]
               /\ pos'[q] = pos[q]
    BY <1>3 DEF Moves
  <1>4. ASSUME NEW q \in Procs, q # p
        PROVE  End(q)' = End(q) /\ Chunk(q)' = Chunk(q)
    BY <1>1, <1>3, <1>4 DEF End, Chunk
  <1>5. ASSUME NEW q \in Procs, q # p, Placed(q)
        PROVE  Placed(q)'
    BY <1>1, <1>2, <1>3, <1>4, <1>5 DEF Placed
  <1>6. ASSUME NEW q \in Procs, q # p
        PROVE  ForwardedAll(q)' <=> ForwardedAll(q)
    BY <1>1, <1>3, <1>4, <1>6 DEF ForwardedAll, ChunkDone, LaneDone
  <1>7. ASSUME NEW k \in Links, k[2] # p, NEW l
        PROVE  Awaited(k, l)' = Awaited(k, l)
    BY <1>1, <1>3, <1>4, <1>7, LinkFacts DEF Awaited, Before
  <1>8. ASSUME NEW k \in Links, k[1] # p, NEW l
        PROVE  Offered(k, l)' = Offered(k, l)
    BY <1>1, <1>3, <1>4, <1>8, LinkFacts DEF Offered, Before
  <1> QED BY <1>1, <1>2, <1>4, <1>5, <1>6, <1>7, <1>8

\* The two halves of Flow: the streams and what processes hold of them; keys,
\* Enc(b_i) and outputs.
Streams ==
    /\ \A q \in Procs : Placed(q) /\ Prepared(q)
    /\ \A k \in Links : Received(k[2], k)
    /\ StreamsAligned /\ Relayed /\ PhaseSeparation

Settled ==
    /\ KeysChained /\ OutputsCorrect
    /\ enc_b \in {[i \in Index |-> Blank],
                  [i \in Index |-> Encrypt(HopKey(SRF), B[i], Coin[Sender][1][i])]}
    /\ phase[Receiver] = "r2" =>
         \A i \in Index : i < begin[Receiver] => y_vals[i] = Result(i)

\* A step of p can disturb the streams at p only.
LEMMA LocalStep ==
    ASSUME TypeOK, Flow, NEW p \in Procs, Moves(p), wire' = wire,
           phase[p] # "failed" \/ phase'[p] = "failed",
           \A q \in Procs : q # p => in_buf'[q] = in_buf[q] /\ out_buf'[q] = out_buf[q],
           phase'[p] = "failed" \/ \A k \in Links : \A l \in Lanes :
             /\ k[2] = p => Awaited(k, l)' = Awaited(k, l)
             /\ k[1] = p => Offered(k, l)' = Offered(k, l),
           Placed(p)', Prepared(p)',
           \A k \in Links : k[2] = p => Received(p, k)',
           p \in Firewalls /\ ForwardedAll(p) => ForwardedAll(p)',
           p = Sender /\ phase'[p] \in {"compute", "r2", "done"} =>
             \A q \in Firewalls : ForwardedAll(q)
    PROVE  Streams'
  <1>1. /\ Lanes' = Lanes /\ lanes' = lanes
        /\ \A q \in Procs : q # p =>
             /\ phase'[q] = phase[q] /\ step'[q] = step[q] /\ Chunk(q)' = Chunk(q)
             /\ Placed(q) => Placed(q)'
             /\ ForwardedAll(q)' <=> ForwardedAll(q)
        /\ \A k \in Links : k[2] # p => \A l : Awaited(k, l)' = Awaited(k, l)
        /\ \A k \in Links : k[1] # p => \A l : Offered(k, l)' = Offered(k, l)
    BY OthersStay DEF Moves
  <1>2. /\ \A q \in Procs : Placed(q) /\ Prepared(q)
        /\ \A k \in Links : Received(k[2], k)
        /\ StreamsAligned /\ Relayed /\ PhaseSeparation
    BY DEF Flow, BuffersRight
  <1>3. ASSUME NEW q \in Procs
        PROVE  Placed(q)'
    BY <1>1, <1>2
  <1>4. ASSUME NEW q \in Procs
        PROVE  Prepared(q)'
    <2>1. CASE q = p
      BY <2>1
    <2>2. CASE q # p
      BY <1>1, <1>2, <2>2 DEF Prepared, Transferring, Target
    <2> QED BY <2>1, <2>2
  <1>5. ASSUME NEW k \in Links
        PROVE  Received(k[2], k)'
    <2>1. CASE k[2] = p
      BY <2>1
    <2>2. CASE k[2] # p
      BY <1>1, <1>2, <2>2, LinkFacts DEF Received
    <2> QED BY <2>1, <2>2
  <1>6. ASSUME NEW k \in Links, NEW l \in Lanes
        PROVE  /\ phase'[k[2]] # "failed" =>
                    phase[k[2]] # "failed" /\ Awaited(k, l)' = Awaited(k, l)
               /\ phase'[k[1]] # "failed" =>
                    phase[k[1]] # "failed" /\ Offered(k, l)' = Offered(k, l)
    BY <1>1, LinkFacts
  <1>7. StreamsAligned'
    <2> SUFFICES ASSUME NEW k \in Links, phase'[k[2]] # "failed", NEW l \in Lanes
                 PROVE  /\ Awaited(k, l)' + Len(wire[k][l]) <= RfLaneEnd(N, lanes, l)
                        /\ phase'[k[1]] # "failed" =>
                             Offered(k, l)' = Awaited(k, l)' + Len(wire[k][l])
                        /\ \A j \in 1..Len(wire[k][l]) :
                             Encrypts(wire[k][l][j], HopKey(Least(k[1], k[2])),
                                      Plain(k, Awaited(k, l)' + j - 1))
      BY <1>1 DEF StreamsAligned
    <2> QED BY <1>2, <1>6 DEF StreamsAligned
  <1>8. \A q \in Firewalls : ForwardedAll(q) => ForwardedAll(q)'
    BY <1>1, Firewalls \subseteq Procs DEF Firewalls, Procs, RRF, SRF, Receiver, Sender
  <1>9. PhaseSeparation'
    BY <1>1, <1>2, <1>8 DEF PhaseSeparation
  <1>10. Relayed'
    <2>1. <<SRF, Sender>> \in Links /\ <<RRF, SRF>> \in Links /\ Sender \in Procs /\ RRF \in Procs
      BY LinkFacts DEF SRF, Sender, RRF
    <2>2. ASSUME phase'[Sender] # "failed", phase'[RRF] # "failed", NEW l \in Lanes
          PROVE  Awaited(<<SRF, Sender>>, l)' + Len(wire[<<SRF, Sender>>][l])
                   <= Offered(<<RRF, SRF>>, l)'
      <3>1. /\ phase[Sender] # "failed"
            /\ Awaited(<<SRF, Sender>>, l)' = Awaited(<<SRF, Sender>>, l)
        BY <1>6, <2>1, <2>2
      <3>2. /\ phase[RRF] # "failed"
            /\ Offered(<<RRF, SRF>>, l)' = Offered(<<RRF, SRF>>, l)
        BY <1>6, <2>1, <2>2
      <3> QED BY <1>2, <3>1, <3>2 DEF Relayed
    <2>3. ASSUME phase'[Sender] \in {"compute", "r2", "done"}
          PROVE  \A q \in Firewalls : ForwardedAll(q)
      BY <1>1, <1>2, <2>1, <2>3 DEF Relayed
    <2> QED BY <1>1, <1>8, <2>2, <2>3 DEF Relayed
  <1> QED BY <1>3, <1>4, <1>5, <1>7, <1>9, <1>10 DEF Streams

\* The phases in which a process has its public key.
Keyed == {"r1", "compute", "r2", "done"}

\* A step that computes no key, no Enc(b_i) and no output.
LEMMA SettledStep ==
    ASSUME Flow, NEW p \in Procs, Moves(p), UNCHANGED <<key, pkwire, enc_b, y_vals>>,
           phase'[p] \in Keyed => phase[p] \in Keyed,
           p = Receiver =>
             /\ phase'[p] = "r2" =>
                  begin'[p] = 0 \/ (phase[p] = "r2" /\ begin'[p] = begin[p])
             /\ phase'[p] = "done" => phase[p] = "done"
    PROVE  Settled'
  <1>1. KeysChained'
    BY DEF Flow, KeysChained, Moves, Keyed
  <1>2. Receiver \in Procs
    BY LinkFacts DEF Receiver
  <1>3. OutputsCorrect'
    BY <1>2 DEF Flow, OutputsCorrect, Moves
  <1>4. phase'[Receiver] = "r2" =>
          \A i \in Index : i < begin'[Receiver] => y_vals'[i] = Result(i)
    BY <1>2, CountAssumption DEF Flow, BuffersRight, Moves, Index
  <1> QED BY <1>1, <1>3, <1>4 DEF Flow, BuffersRight, Settled

LEMMA FlowHalves == (Flow <=> Streams /\ Settled) /\ (Flow' <=> Streams' /\ Settled')
  BY DEF Flow, Streams, Settled, BuffersRight

-------------------------------------------------------------------------------
(***************************************************************************)
(* What the cursors say about the buffers and about the firewalls.         *)
(***************************************************************************)
\* A process that has received a chunk has everything up to its end.
LEMMA ChunkHeld ==
    ASSUME TypeOK, Flow, NEW k \in Links, NEW p \in Procs, p = k[2], phase[p] = Round(k),
           step[p] = "in", ChunkDone(p), NEW i \in Index, i < End(p)
    PROVE  Encrypts(in_buf[p][i], HopKey(Least(k[1], k[2])), Plain(k, i))
  <1>1. /\ lanes \in Nat \ {0} /\ N \in Nat \ {0} /\ Lanes = 0..(lanes - 1)
        /\ i \in Nat /\ i \in 0..(N - 1) /\ End(p) \in Nat
    BY Basics DEF Lanes, Index
  <1>2. PICK l \in Lanes : RfLaneBegin(N, lanes, l) <= i /\ i < RfLaneEnd(N, lanes, l)
    BY <1>1, SomeLane
  <1>3. Awaited(k, l) = Reached(N, lanes, l, pos[p][l])
    BY LinkFacts DEF Awaited, Before
  <1>4. Reached(N, lanes, l, pos[p][l]) = Reached(N, lanes, l, End(p))
    BY LinkFacts, LaneFacts DEF ChunkDone, Flow
  <1>5. i < Reached(N, lanes, l, End(p))
    BY <1>1, <1>2, CursorBounds DEF Reached, Least, Greatest
  <1>6. Received(p, k)
    BY DEF Flow, BuffersRight
  <1> QED BY <1>2, <1>3, <1>4, <1>5, <1>6 DEF Received

\* The sender that computes has everything.
LEMMA AllHeld ==
    ASSUME TypeOK, Flow, phase[Sender] = "compute", NEW i \in Index
    PROVE  Encrypts(in_buf[Sender][i], HopKey(SRF), X[i])
  <1> DEFINE k == <<SRF, Sender>>
  <1>1. /\ k \in Links /\ k[1] = SRF /\ k[2] = Sender /\ Round(k) = "r1"
        /\ Least(k[1], k[2]) = SRF /\ Plain(k, i) = X[i]
    BY LinkFacts DEF SRF, Sender, Plain, Round, Least
  <1>2. lanes \in Nat \ {0} /\ N \in Nat \ {0} /\ Lanes = 0..(lanes - 1) /\ i \in 0..(N - 1)
    BY Basics DEF Lanes, Index
  <1>3. PICK l \in Lanes : RfLaneBegin(N, lanes, l) <= i /\ i < RfLaneEnd(N, lanes, l)
    BY <1>2, SomeLane
  <1> HIDE DEF k
  <1>4. Awaited(k, l) = RfLaneEnd(N, lanes, l)
    BY <1>1 DEF Awaited, Before
  <1>5. Received(Sender, k)
    BY <1>1 DEF Flow, BuffersRight
  <1> QED BY <1>1, <1>3, <1>4, <1>5 DEF Received

\* A firewall that has offered every lane's last index has forwarded all.
LEMMA AllForwarded ==
    ASSUME TypeOK, Flow, NEW p \in Firewalls,
           \A l \in Lanes : Offered(<<p, p + 1>>, l) >= RfLaneEnd(N, lanes, l)
    PROVE  ForwardedAll(p)
  <1> DEFINE k == <<p, p + 1>>
  <1>1. k \in Links /\ k[1] = p /\ Round(k) = "r1" /\ p \in Procs /\ p # Sender
    BY LinkFacts DEF Firewalls, RRF, SRF, Sender, Round
  <1>2. /\ lanes \in Nat \ {0} /\ N \in Nat \ {0} /\ Lanes = 0..(lanes - 1)
        /\ begin[p] \in Nat /\ begin[p] < N /\ End(p) \in Nat /\ End(p) <= N
        /\ \A l \in Lanes : pos[p][l] \in Nat
    BY <1>1, Basics DEF Lanes
  <1>3. PICK m \in Lanes : RfLaneBegin(N, lanes, m) <= N - 1 /\ N - 1 < RfLaneEnd(N, lanes, m)
    BY <1>2, SomeLane, N - 1 \in 0..(N - 1)
  <1>4. \A l \in Lanes : /\ RfLaneBegin(N, lanes, l) \in Nat /\ RfLaneEnd(N, lanes, l) \in Nat
                        /\ RfLaneBegin(N, lanes, l) <= RfLaneEnd(N, lanes, l)
                        /\ RfLaneEnd(N, lanes, l) <= N
    BY <1>2, LaneBounds
  <1>5. RfLaneEnd(N, lanes, m) = N /\ RfLaneBegin(N, lanes, m) < N
    BY <1>2, <1>3, <1>4
  <1>6. phase[p] \in Phases /\ Placed(p) /\ step[p] \in {"in", "out"}
    BY <1>1 DEF TypeOK, Flow
  <1> HIDE DEF k
  <1>7. \A l \in Lanes : Offered(k, l) >= RfLaneEnd(N, lanes, l)
    BY DEF k
  <1>8. CASE phase[p] = "key"
    <2>1. Offered(k, m) = RfLaneBegin(N, lanes, m)
      BY <1>1, <1>8 DEF Offered, Before
    <2> QED BY <1>2, <1>4, <1>5, <1>7, <2>1
  <1>9. CASE phase[p] = "r1" /\ step[p] = "in"
    <2>1. Offered(k, m) = Reached(N, lanes, m, begin[p])
      BY <1>1, <1>9 DEF Offered, Before
    <2>2. Reached(N, lanes, m, begin[p]) < N
      BY <1>2, <1>4, <1>5 DEF Reached, Least, Greatest
    <2>3. Reached(N, lanes, m, begin[p]) >= N
      BY <1>5, <1>7, <2>1
    <2>4. Reached(N, lanes, m, begin[p]) \in Nat
      BY <1>2, ReachedEnds
    <2> QED BY <1>2, <2>2, <2>3, <2>4
  <1>10. CASE phase[p] = "r1" /\ step[p] = "out"
    <2>1. \A l \in Lanes : Reached(N, lanes, l, pos[p][l]) >= RfLaneEnd(N, lanes, l)
      BY <1>1, <1>7, <1>10 DEF Offered, Before
    <2>2. \A l \in Lanes :
            /\ SliceBegin(N, lanes, l, begin[p]) <= pos[p][l]
            /\ pos[p][l] <= Greatest(SliceBegin(N, lanes, l, begin[p]),
                                    SliceEnd(N, lanes, l, End(p)))
      <3>1. begin[p] \in Nat /\ begin[p] <= N
        BY <1>2
      <3>2. \A l \in Lanes : StartAt(begin[p])[l] = SliceBegin(N, lanes, l, begin[p])
        BY <3>1, StartFacts
      <3> QED BY <1>6, <1>10, <3>2 DEF Placed
    <2>3. ASSUME NEW l \in Lanes
          PROVE  pos[p][l] >= RfLaneEnd(N, lanes, l)
      <3> DEFINE f == RfLaneBegin(N, lanes, l)
                 g == RfLaneEnd(N, lanes, l)
                 q == pos[p][l]
      <3>1. Least(g, Greatest(f, q)) >= g /\ Greatest(f, begin[p]) <= q
        BY <2>1, <2>2 DEF Reached, SliceBegin
      <3>2. f \in Nat /\ g \in Nat /\ f <= g /\ q \in Nat /\ begin[p] \in Nat
        BY <1>2, <1>4
      <3> HIDE DEF f, g, q
      <3> QED BY <3>1, <3>2 DEF Least, Greatest, g, q
    <2>4. pos[p][m] >= N /\ SliceBegin(N, lanes, m, begin[p]) < N
      BY <1>2, <1>4, <1>5, <2>3 DEF SliceBegin, Greatest
    <2>5. End(p) = N
      <3>1. pos[p][m] <= Greatest(SliceBegin(N, lanes, m, begin[p]), Least(N, End(p)))
        BY <1>5, <2>2 DEF SliceEnd
      <3>2. SliceBegin(N, lanes, m, begin[p]) \in Nat /\ pos[p][m] \in Nat
        BY <1>2, <1>4 DEF SliceBegin, Greatest
      <3> QED BY <1>2, <2>4, <3>1, <3>2 DEF Greatest, Least
    <2>6. ChunkDone(p)
      BY <1>2, <1>4, <2>3, <2>5 DEF ChunkDone, LaneDone, SliceEnd, Least
    <2> QED BY <1>10, <2>5, <2>6 DEF ForwardedAll
  <1>11. phase[p] # "compute"
    BY <1>1, <1>6 DEF Placed
  <1> QED BY <1>6, <1>8, <1>9, <1>10, <1>11 DEF Phases, ForwardedAll

-------------------------------------------------------------------------------
(***************************************************************************)
(* The steps that move a process and no ciphertext.                        *)
(***************************************************************************)
\* A transfer that has just been started is placed right.
LEMMA StartPlaced ==
    ASSUME TypeOK, NEW b \in Nat, b <= N, NEW e \in Nat, NEW l \in Lanes
    PROVE  /\ StartAt(b)[l] <= StartAt(b)[l]
           /\ StartAt(b)[l] <= Greatest(StartAt(b)[l], SliceEnd(N, lanes, l, e))
  <1>1. StartAt(b)[l] \in 0..N
    BY StartFacts
  <1>2. lanes \in Nat \ {0} /\ N \in Nat \ {0} /\ l \in 0..(lanes - 1)
    BY Basics DEF Lanes
  <1>3. SliceEnd(N, lanes, l, e) \in Nat
    BY <1>2, LaneBounds DEF SliceEnd, Least
  <1> QED BY <1>1, <1>2, <1>3 DEF Greatest

\* A process has its public key and starts round 1.
LEMMA EnterR1Streams ==
    ASSUME TypeOK, Flow, NEW p \in Procs, phase[p] = "key", EnterR1(p),
           UNCHANGED <<lanes, chunk, step, begin, pos, wire, in_buf, out_buf>>
    PROVE  Moves(p) /\ phase'[p] = "r1" /\ Streams'
  <1>1. phase'[p] = "r1" /\ Moves(p)
    BY DEF TypeOK, EnterR1, Moves
  <1>2. step[p] = "in" /\ begin[p] = 0 /\ pos[p] = StartAt(0)
    BY DEF Flow, Placed
  <1>3. \A l \in Lanes : Reached(N, lanes, l, pos[p][l]) = RfLaneBegin(N, lanes, l)
                        /\ Reached(N, lanes, l, begin[p]) = RfLaneBegin(N, lanes, l)
    BY <1>2, StartFacts, CountAssumption
  <1>4. ASSUME NEW k \in Links, NEW l \in Lanes, k[2] = p
        PROVE  Awaited(k, l) = RfLaneBegin(N, lanes, l) /\ Awaited(k, l)' = RfLaneBegin(N, lanes, l)
    BY <1>1, <1>2, <1>3, <1>4, LinkFacts DEF Awaited, Before
  <1>5. ASSUME NEW k \in Links, NEW l \in Lanes, k[1] = p
        PROVE  Offered(k, l) = RfLaneBegin(N, lanes, l) /\ Offered(k, l)' = RfLaneBegin(N, lanes, l)
    BY <1>1, <1>2, <1>3, <1>5, LinkFacts DEF Offered, Before
  <1>6. Lanes' = Lanes /\ (\A b : StartAt(b)' = StartAt(b)) /\ End(p)' = End(p) /\ End(p) \in Nat
    BY <1>1, OthersStay, Basics DEF End
  <1>7. Placed(p)'
    <2>1. \A l \in Lanes :
            /\ StartAt(0)[l] <= StartAt(0)[l]
            /\ StartAt(0)[l] <= Greatest(StartAt(0)[l], SliceEnd(N, lanes, l, End(p)))
      BY <1>6, StartPlaced, CountAssumption
    <2> QED BY <1>1, <1>2, <1>6, <2>1 DEF Placed
  <1>8. Prepared(p)'
    BY <1>2 DEF Prepared, Transferring
  <1>9. ASSUME NEW k \in Links, k[2] = p
        PROVE  Received(p, k)'
    <2>1. \A l \in Lanes : Awaited(k, l)' = RfLaneBegin(N, lanes, l) /\ RfLaneBegin(N, lanes, l) \in Nat
      BY <1>4, <1>9, CursorBounds
    <2> QED BY <1>6, <2>1, CountAssumption DEF Received, Index
  <1>10. ~ForwardedAll(p)
    BY DEF ForwardedAll
  <1>11. wire' = wire /\ in_buf' = in_buf /\ out_buf' = out_buf
    OBVIOUS
  <1>12. Streams'
    BY <1>1, <1>4, <1>5, <1>7, <1>8, <1>9, <1>10, <1>11, LocalStep
  <1> QED BY <1>1, <1>12

\* Where the code goes on after a chunk: in ChunkSent, SenderCollect and
\* ReceiverDecrypt.
Course(p, after, next) ==
    \/ /\ step[p] = "out"
       /\ after = IF phase[p] = "r1" THEN "r2" ELSE "done"
       /\ next = IF p = Sender THEN "out" ELSE "in"
    \/ p = Sender /\ phase[p] = "r1" /\ step[p] = "in" /\ after = "compute" /\ next = "in"
    \/ p = Receiver /\ phase[p] = "r2" /\ step[p] = "in" /\ after = "done" /\ next = "in"

\* Going on with the next chunk or the next phase moves no cursor.
LEMMA AdvanceCursors ==
    ASSUME TypeOK, Flow, NEW p \in Procs, NEW after \in Phases, NEW next \in {"in", "out"},
           phase[p] \in {"r1", "r2"}, ChunkDone(p), Advance(p, after, next),
           UNCHANGED <<lanes, chunk>>, Course(p, after, next)
    PROVE  /\ Moves(p)
           /\ \A k \in Links : \A l \in Lanes :
                /\ k[2] = p => Awaited(k, l)' = Awaited(k, l)
                /\ k[1] = p => Offered(k, l)' = Offered(k, l)
           /\ \/ /\ begin'[p] = 0 /\ phase'[p] = after /\ End(p) = N
              \/ /\ begin'[p] = End(p) /\ End(p) < N /\ phase'[p] = phase[p]
           /\ pos'[p] = StartAt(begin'[p]) /\ step'[p] = next
           /\ begin'[p] \in Nat /\ begin'[p] < N
  <1> DEFINE last == begin[p] + chunk[p] >= N
             b == IF last THEN 0 ELSE begin[p] + chunk[p]
  <1>1. /\ begin' = [begin EXCEPT ![p] = b] /\ pos' = [pos EXCEPT ![p] = StartAt(b)]
        /\ step' = [step EXCEPT ![p] = next]
        /\ phase' = [phase EXCEPT ![p] = IF last THEN after ELSE @]
    BY DEF Advance
  <1>2. /\ begin'[p] = b /\ pos'[p] = StartAt(b) /\ step'[p] = next
        /\ phase'[p] = IF last THEN after ELSE phase[p]
        /\ Moves(p)
    BY <1>1 DEF TypeOK, Moves
  <1>3. /\ b \in Nat /\ b < N /\ b <= N /\ N \in Nat
        /\ last => End(p) = N /\ b = 0
        /\ ~last => End(p) = b
    BY Basics DEF End, Least
  <1> HIDE DEF last, b
  <1>4. Placed(p)
    BY DEF Flow
  <1>5. \A l \in Lanes :
          /\ Reached(N, lanes, l, StartAt(b)[l]) = Reached(N, lanes, l, b)
          /\ Reached(N, lanes, l, 0) = RfLaneBegin(N, lanes, l)
          /\ Reached(N, lanes, l, N) = RfLaneEnd(N, lanes, l)
          /\ Reached(N, lanes, l, pos[p][l]) = Reached(N, lanes, l, End(p))
    BY <1>3, <1>4, StartFacts, LaneFacts DEF ChunkDone
  <1>6. ASSUME NEW k \in Links, NEW l \in Lanes, k[2] = p
        PROVE  Awaited(k, l)' = Awaited(k, l)
    <2>1. p # Sender \/ Round(k) = "r1"
      BY <1>6, LinkFacts DEF Sender
    <2>2. CASE phase[p] = Round(k)
      <3>1. Awaited(k, l) = Reached(N, lanes, l, End(p))
        BY <1>5, <1>6, <2>2, LinkFacts DEF Awaited, Before
      <3>2. next = "in"
        BY <1>4, <2>1, <2>2 DEF Placed, Course
      <3>3. CASE last
        <4>1. Awaited(k, l)' = RfLaneEnd(N, lanes, l)
          BY <1>2, <1>6, <2>2, <3>3, LinkFacts DEF Awaited, Before, Course
        <4> QED BY <1>3, <1>5, <3>1, <3>3, <4>1
      <3>4. CASE ~last
        <4>1. Awaited(k, l)' = Reached(N, lanes, l, StartAt(b)[l])
          BY <1>2, <1>6, <2>2, <3>2, <3>4, LinkFacts DEF Awaited, Before
        <4> QED BY <1>3, <1>5, <3>1, <3>4, <4>1
      <3> QED BY <3>3, <3>4
    <2>3. CASE phase[p] = "r1" /\ Round(k) = "r2"
      <3>1. Awaited(k, l) = RfLaneBegin(N, lanes, l)
        BY <1>6, <2>3 DEF Awaited, Before
      <3>2. p # Sender /\ next = "in" /\ after = "r2"
        BY <1>4, <2>1, <2>3 DEF Placed, Course, Receiver, Sender
      <3>3. CASE last
        BY <1>2, <1>3, <1>5, <1>6, <2>3, <3>1, <3>2, <3>3 DEF Awaited, Before
      <3>4. CASE ~last
        BY <1>2, <1>6, <2>3, <3>1, <3>4 DEF Awaited, Before
      <3> QED BY <3>3, <3>4
    <2>4. CASE phase[p] = "r2" /\ Round(k) = "r1"
      <3>1. after = "done"
        BY <2>4 DEF Course
      <3> QED BY <1>2, <1>6, <2>4, <3>1 DEF Awaited, Before
    <2> QED BY <2>2, <2>3, <2>4, LinkFacts
  <1>7. ASSUME NEW k \in Links, NEW l \in Lanes, k[1] = p
        PROVE  Offered(k, l)' = Offered(k, l)
    <2>1. (p # Sender \/ Round(k) = "r2") /\ (p # Receiver \/ Round(k) = "r1")
      BY <1>7, LinkFacts DEF Sender, Receiver
    <2>2. CASE phase[p] = Round(k)
      <3>1. step[p] = "out"
        BY <2>1, <2>2 DEF Course
      <3>2. Offered(k, l) = Reached(N, lanes, l, End(p))
        BY <1>5, <1>7, <2>2, <3>1, LinkFacts DEF Offered, Before
      <3>3. CASE last
        <4>1. Offered(k, l)' = RfLaneEnd(N, lanes, l)
          BY <1>2, <1>7, <2>2, <3>1, <3>3, LinkFacts DEF Offered, Before, Course
        <4> QED BY <1>3, <1>5, <3>2, <3>3, <4>1
      <3>4. CASE ~last
        <4>1. Offered(k, l)' = Reached(N, lanes, l, b)
          BY <1>2, <1>5, <1>7, <2>2, <3>4, LinkFacts DEF Offered, Before
        <4> QED BY <1>3, <3>2, <3>4, <4>1
      <3> QED BY <3>3, <3>4
    <2>3. CASE phase[p] = "r1" /\ Round(k) = "r2"
      <3>1. Offered(k, l) = RfLaneBegin(N, lanes, l)
        BY <1>7, <2>3 DEF Offered, Before
      <3>2. CASE last /\ p # Sender
        <4>1. next = "in" /\ after = "r2"
          BY <2>3, <3>2 DEF Course, Receiver, Sender
        <4> QED BY <1>2, <1>3, <1>5, <1>7, <2>3, <3>1, <3>2, <4>1 DEF Offered, Before
      <3>3. CASE p = Sender \/ ~last
        <4>1. phase'[p] \in {"r1", "compute"}
          BY <1>2, <1>4, <2>3, <3>3 DEF Placed, Course, Receiver, Sender
        <4> QED BY <1>2, <1>7, <2>3, <3>1, <4>1 DEF Offered, Before, Moves
      <3> QED BY <3>2, <3>3
    <2>4. CASE phase[p] = "r2" /\ Round(k) = "r1"
      <3>1. after = "done"
        BY <2>4 DEF Course
      <3> QED BY <1>2, <1>7, <2>4, <3>1 DEF Offered, Before
    <2> QED BY <2>2, <2>3, <2>4, LinkFacts
  <1> QED BY <1>2, <1>3, <1>6, <1>7

LEMMA AdvanceStreams ==
    ASSUME TypeOK, Flow, NEW p \in Procs, NEW after \in Phases, NEW next \in {"in", "out"},
           phase[p] \in {"r1", "r2"}, ChunkDone(p), Advance(p, after, next),
           Course(p, after, next), UNCHANGED <<lanes, chunk, wire, in_buf, out_buf>>
    PROVE  Streams'
  <1>1. /\ Moves(p)
        /\ \A k \in Links : \A l \in Lanes :
             /\ k[2] = p => Awaited(k, l)' = Awaited(k, l)
             /\ k[1] = p => Offered(k, l)' = Offered(k, l)
        /\ \/ /\ begin'[p] = 0 /\ phase'[p] = after /\ End(p) = N
           \/ /\ begin'[p] = End(p) /\ End(p) < N /\ phase'[p] = phase[p]
        /\ pos'[p] = StartAt(begin'[p]) /\ step'[p] = next
        /\ begin'[p] \in Nat /\ begin'[p] < N
    BY AdvanceCursors
  <1>2. /\ Lanes' = Lanes /\ (\A b : StartAt(b)' = StartAt(b))
        /\ N \in Nat \ {0} /\ chunk[p] \in Nat \ {0} /\ chunk'[p] = chunk[p] /\ lanes' = lanes
    BY <1>1, OthersStay, Basics
  <1>3. Placed(p) /\ Prepared(p)
    BY DEF Flow, BuffersRight
  <1>4. Placed(p)'
    <2>1. PICK b \in Nat : b = begin'[p]
      BY <1>1
    <2>2. PICK e \in Nat : e = End(p)'
      BY <1>1, <1>2 DEF End, Least
    <2>3. \A l \in Lanes : /\ StartAt(b)[l] <= StartAt(b)[l]
                          /\ StartAt(b)[l] <= Greatest(StartAt(b)[l], SliceEnd(N, lanes, l, e))
      BY <1>1, <1>2, <2>1, <2>2, StartPlaced
    <2>4. \A l \in Lanes :
             /\ StartAt(begin[p])'[l] <= pos'[p][l]
             /\ pos'[p][l] <= Greatest(StartAt(begin[p])'[l], SliceEnd(N, lanes, l, End(p)'))
      BY <1>1, <1>2, <2>1, <2>2, <2>3 DEF StartAt
    <2>5. phase'[p] # "key" /\ (phase'[p] = "compute" => p = Sender /\ begin'[p] = 0)
      BY <1>1, <1>3 DEF Course
    <2>6. /\ phase'[p] = "r2" /\ p = Receiver => step'[p] = "in"
          /\ p = Sender /\ phase'[p] = "r1" => step'[p] = "in"
          /\ p = Sender /\ phase'[p] = "r2" => step'[p] = "out"
      BY <1>1, <1>3 DEF Course, Placed, Receiver, Sender
    <2> QED BY <1>1, <1>2, <2>1, <2>4, <2>5, <2>6 DEF Placed, StartAt
  <1>5. Prepared(p)'
    <2>1. CASE next = "in"
      BY <1>1, <2>1 DEF Prepared, Transferring
    <2>2. CASE next = "out"
      <3>1. p = Sender /\ step[p] = "out" /\ phase[p] = "r2"
        BY <1>3, <2>2 DEF Course, Placed
      <3>2. phase'[p] \in {"r2", "done"}
        BY <1>1, <3>1 DEF Course, Sender, Receiver
      <3> QED BY <1>3, <3>1, <3>2 DEF Prepared, Transferring, Target
    <2> QED BY <2>1, <2>2
  <1>6. ASSUME NEW k \in Links, k[2] = p
        PROVE  Received(p, k)'
    <2>1. Received(p, k) /\ \A l \in Lanes : Awaited(k, l)' = Awaited(k, l)
      BY <1>1, <1>6 DEF Flow, BuffersRight
    <2>2. CASE phase[p] = Round(k)
      BY <1>2, <2>1, <2>2 DEF Received
    <2>3. CASE phase[p] = "r1" /\ Round(k) = "r2"
      <3>1. \A l \in Lanes : Awaited(k, l) = RfLaneBegin(N, lanes, l)
        BY <1>6, <2>3 DEF Awaited, Before
      <3>2. \A l \in Lanes : RfLaneBegin(N, lanes, l) \in Nat
        BY CursorBounds
      <3> QED BY <1>2, <2>1, <3>1, <3>2 DEF Received, Index
    <2>4. CASE phase[p] = "r2" /\ Round(k) = "r1"
      <3>1. phase'[p] \in {"r2", "done"}
        BY <1>1, <2>4 DEF Course, Sender, Receiver
      <3> QED BY <2>4, <3>1 DEF Received
    <2> QED BY <2>2, <2>3, <2>4, LinkFacts
  <1>7. p \in Firewalls /\ ForwardedAll(p) => ForwardedAll(p)'
    <2> SUFFICES ASSUME p \in Firewalls, ForwardedAll(p)
                 PROVE  phase'[p] \in {"r2", "done"}
      BY DEF ForwardedAll
    <2>1. step[p] = "out" /\ after \in {"r2", "done"}
      BY DEF Course, Firewalls, RRF, SRF, Sender, Receiver
    <2> QED BY <1>1, <1>2, <2>1 DEF ForwardedAll
  <1>8. ASSUME p = Sender, phase'[p] \in {"compute", "r2", "done"}
        PROVE  \A q \in Firewalls : ForwardedAll(q)
    <2>1. CASE phase[p] = "r2"
      BY <1>8, <2>1 DEF Flow, Relayed
    <2>2. CASE phase[p] = "r1"
      <3> DEFINE k == <<SRF, Sender>>
      <3>1. /\ k \in Links /\ k[2] = p /\ k[1] = SRF /\ Round(k) = "r1"
            /\ <<RRF, SRF>> \in Links /\ phase[p] # "failed" /\ SRF \in Firewalls
        BY <1>8, <2>2, LinkFacts DEF SRF, Sender, RRF, Round, Firewalls
      <3>2. phase'[p] # "r1" /\ phase'[p] # "key"
        BY <1>8
      <3> HIDE DEF k
      <3>3. \A l \in Lanes : Awaited(k, l)' = RfLaneEnd(N, lanes, l)
        BY <1>2, <3>1, <3>2 DEF Awaited, Before
      <3>4. \A l \in Lanes : /\ Awaited(k, l) = RfLaneEnd(N, lanes, l)
                            /\ RfLaneEnd(N, lanes, l) \in Nat
                            /\ Len(wire[k][l]) \in Nat
        <4>1. \A l \in Lanes : wire[k][l] \in Seq(Ciphertexts)
          BY <3>1 DEF TypeOK
        <4> QED BY <1>1, <3>1, <3>3, <4>1, CursorBounds
      <3>5. ForwardedAll(SRF)
        <4>1. CASE phase[SRF] = "failed"
          BY <4>1 DEF ForwardedAll
        <4>2. CASE phase[SRF] # "failed"
          <5>1. \A l \in Lanes : Offered(k, l) = Awaited(k, l) + Len(wire[k][l])
            BY <3>1, <4>2 DEF Flow, StreamsAligned
          <5>2. \A l \in Lanes : Offered(k, l) >= RfLaneEnd(N, lanes, l)
            BY <3>4, <5>1
          <5>3. k = <<SRF, SRF + 1>>
            BY DEF k, SRF, Sender
          <5> QED BY <3>1, <5>2, <5>3, AllForwarded
        <4> QED BY <4>1, <4>2
      <3>6. ForwardedAll(RRF)
        <4>1. CASE phase[RRF] = "failed"
          BY <4>1 DEF ForwardedAll
        <4>2. CASE phase[RRF] # "failed"
          <5>1. \A l \in Lanes : Awaited(k, l) + Len(wire[k][l]) <= Offered(<<RRF, SRF>>, l)
            BY <1>8, <3>1, <4>2 DEF Flow, Relayed, k
          <5>2. \A l \in Lanes : Offered(<<RRF, SRF>>, l) >= RfLaneEnd(N, lanes, l)
            BY <3>1, <3>4, <5>1, CursorBounds
          <5>3. <<RRF, SRF>> = <<RRF, RRF + 1>> /\ RRF \in Firewalls
            BY DEF RRF, SRF, Firewalls
          <5> QED BY <5>2, <5>3, AllForwarded
        <4> QED BY <4>1, <4>2
      <3> QED BY <3>5, <3>6 DEF Firewalls
    <2> QED BY <2>1, <2>2
  <1>9. wire' = wire /\ in_buf' = in_buf /\ out_buf' = out_buf /\ phase[p] # "failed"
    OBVIOUS
  <1> QED BY <1>1, <1>4, <1>5, <1>6, <1>7, <1>8, <1>9, LocalStep

\* A process has filled out_buf with the current chunk and starts to send it.
LEMMA SendChunkStep ==
    ASSUME TypeOK, Flow, NEW p \in Procs, p # Sender, NEW f, SendChunk(p, f), UNCHANGED Crypto,
           phase[p] \in {"r1", "r2"}, step[p] = "in",
           \/ p = Receiver /\ phase[p] = "r1"
           \/ p # Receiver /\ ChunkDone(p),
           \A i \in Index : i \in Chunk(p) =>
             /\ f[i] \in Ciphertexts
             /\ Encrypts(f[i], HopKey(Least(p, Target(p))), Plain(<<p, Target(p)>>, i))
    PROVE  TypeOK' /\ Flow'
  <1> DEFINE new == [i \in Index |-> IF i \in Chunk(p) THEN f[i] ELSE out_buf[p][i]]
  <1>1. /\ out_buf' = [out_buf EXCEPT ![p] = new]
        /\ step' = [step EXCEPT ![p] = "out"] /\ pos' = [pos EXCEPT ![p] = StartAt(begin[p])]
        /\ lanes' = lanes /\ chunk' = chunk /\ begin' = begin /\ phase' = phase
        /\ key' = key /\ pkwire' = pkwire /\ wire' = wire /\ in_buf' = in_buf
        /\ enc_b' = enc_b /\ y_vals' = y_vals /\ failures' = failures
    BY DEF SendChunk, Crypto, TypeOK
  <1>2. begin[p] \in Nat /\ begin[p] <= N /\ End(p) \in Nat
    BY Basics
  <1>3. StartAt(begin[p]) \in [Lanes -> 0..N]
    BY <1>2, StartFacts
  <1>4. new \in [Index -> Ciphertexts]
    BY DEF TypeOK
  <1>5. Lanes' = Lanes
    BY <1>1 DEF Lanes
  <1> HIDE DEF new
  <1>6. TypeOK'
    BY <1>1, <1>3, <1>4, <1>5 DEF TypeOK
  <1>7. /\ step'[p] = "out" /\ pos'[p] = StartAt(begin[p]) /\ out_buf'[p] = new /\ Moves(p)
        /\ \A q \in Procs : q # p => out_buf'[q] = out_buf[q]
    BY <1>1 DEF TypeOK, Moves
  <1>8. Placed(p)
    BY DEF Flow
  <1>9. (\A b : StartAt(b)' = StartAt(b)) /\ End(p)' = End(p) /\ Chunk(p)' = Chunk(p)
    BY <1>1, <1>7, OthersStay DEF End, Chunk
  <1>10. ASSUME NEW k \in Links, NEW l \in Lanes, k[2] = p
         PROVE  Awaited(k, l)' = Awaited(k, l)
    <2>1. CASE phase[p] = Round(k)
      <3>1. ChunkDone(p)
        BY <1>10, <2>1, LinkFacts DEF Receiver
      <3>2. Awaited(k, l) = Reached(N, lanes, l, End(p))
        <4>1. Reached(N, lanes, l, pos[p][l]) = Reached(N, lanes, l, End(p))
          BY <1>8, <3>1, LaneFacts DEF ChunkDone
        <4> QED BY <1>10, <2>1, <4>1, LinkFacts DEF Awaited, Before
      <3>3. Awaited(k, l)' = Reached(N, lanes, l, End(p))
        BY <1>1, <1>7, <1>9, <1>10, <2>1, LinkFacts DEF Awaited, Before
      <3> QED BY <3>2, <3>3
    <2>2. CASE phase[p] # Round(k)
      BY <1>1, <1>10, <2>2 DEF Awaited, Before
    <2> QED BY <2>1, <2>2
  <1>11. ASSUME NEW k \in Links, NEW l \in Lanes, k[1] = p
         PROVE  Offered(k, l)' = Offered(k, l)
    <2>1. Reached(N, lanes, l, StartAt(begin[p])[l]) = Reached(N, lanes, l, begin[p])
      BY <1>2, StartFacts
    <2>2. CASE phase[p] = Round(k)
      BY <1>1, <1>7, <1>11, <2>1, <2>2 DEF Offered, Before
    <2>3. CASE phase[p] # Round(k)
      BY <1>1, <1>11, <2>3 DEF Offered, Before
    <2> QED BY <2>2, <2>3
  <1>12. Placed(p)'
    <2>1. \A l \in Lanes :
            /\ StartAt(begin[p])[l] <= StartAt(begin[p])[l]
            /\ StartAt(begin[p])[l]
                 <= Greatest(StartAt(begin[p])[l], SliceEnd(N, lanes, l, End(p)))
      BY <1>2, StartPlaced
    <2>2. \A l \in Lanes :
             /\ StartAt(begin[p])'[l] <= pos'[p][l]
             /\ pos'[p][l] <= Greatest(StartAt(begin[p])'[l], SliceEnd(N, lanes, l, End(p)'))
      BY <1>1, <1>5, <1>7, <1>9, <2>1 DEF StartAt
    <2> QED BY <1>1, <1>5, <1>7, <2>2 DEF Placed, Receiver
  <1>13. Prepared(p)'
    BY <1>1, <1>7, <1>9 DEF Prepared, Transferring, Target, new
  <1>14. ASSUME NEW k \in Links, k[2] = p
         PROVE  Received(p, k)'
    <2>1. Received(p, k)
      BY <1>14 DEF Flow, BuffersRight
    <2> QED BY <1>1, <1>5, <1>10, <1>14, <2>1 DEF Received
  <1>15. ForwardedAll(p) => ForwardedAll(p)'
    BY <1>1 DEF ForwardedAll
  <1>16. Streams'
    BY <1>1, <1>7, <1>10, <1>11, <1>12, <1>13, <1>14, <1>15, LocalStep
  <1>17. Settled'
    BY <1>1, <1>7, SettledStep DEF Receiver
  <1> QED BY <1>6, <1>16, <1>17, FlowHalves

-------------------------------------------------------------------------------
(***************************************************************************)
(* One lemma per action.                                                   *)
(***************************************************************************)
\* A process gets its key and starts round 1.
LEMMA KeyStep ==
    ASSUME TypeOK, Flow, NEW p \in Procs, phase[p] = "key", EnterR1(p),
           UNCHANGED <<lanes, chunk, step, begin, pos, wire, in_buf, out_buf, enc_b, y_vals,
                       failures>>,
           key' = [key EXCEPT ![p] = HopKey(p - 1)],
           \/ p # Sender /\ pkwire' = [pkwire EXCEPT ![p] = HopKey(p)]
           \/ p = Sender /\ pkwire' = pkwire
    PROVE  TypeOK' /\ Flow'
  <1>1. Moves(p) /\ phase'[p] = "r1" /\ Streams'
    BY EnterR1Streams
  <1>2. HopKey(p - 1) \in Int /\ HopKey(p) \in Int /\ HopKey(0) = Sk
    BY HopKeys, LinkFacts
  <1>3. /\ key'[p] = HopKey(p - 1) /\ (p # Sender => pkwire'[p] = HopKey(p))
        /\ p = Sender => pkwire'[p] = pkwire[p]
        /\ \A q \in Procs : q # p =>
             key'[q] = key[q] /\ pkwire'[q] = pkwire[q] /\ phase'[q] = phase[q]
    BY <1>1 DEF TypeOK, Moves
  <1>4. TypeOK'
    <2>1. Lanes' = Lanes
      BY DEF Lanes
    <2>2. key' \in [Procs -> Int \cup {None}] /\ pkwire' \in [Procs -> Int \cup {None}]
      BY <1>2 DEF TypeOK
    <2>3. phase' \in [Procs -> Phases]
      BY DEF TypeOK, EnterR1, Phases
    <2> QED BY <2>1, <2>2, <2>3 DEF TypeOK
  <1>5. KeysChained'
    <2>1. key'[Receiver] = Sk
      BY <1>2, <1>3, LinkFacts DEF Flow, KeysChained, Receiver
    <2> QED BY <1>1, <1>3, <2>1 DEF Flow, KeysChained
  <1>6. Receiver \in Procs
    BY LinkFacts DEF Receiver
  <1>7. phase'[Receiver] = "r2" => phase[Receiver] = "r2"
    BY <1>1, <1>3, <1>6
  <1>8. phase'[Receiver] = "done" => phase[Receiver] = "done"
    BY <1>1, <1>3, <1>6
  <1>9. OutputsCorrect'
    BY <1>8 DEF Flow, OutputsCorrect
  <1>10. Settled'
    BY <1>5, <1>7, <1>9 DEF Settled, Flow, BuffersRight
  <1> QED BY <1>1, <1>4, <1>10, FlowHalves

LEMMA ReceiverSendPkStep ==
    ASSUME TypeOK, Flow, ReceiverSendPk
    PROVE  TypeOK' /\ Flow'
  <1>1. /\ key[Receiver] = Sk /\ Receiver \in Procs /\ Receiver # Sender
        /\ HopKey(Receiver - 1) = Sk /\ HopKey(Receiver) = Sk
    BY LinkFacts, HopKeys DEF Flow, KeysChained, Receiver, Sender
  <1>2. key' = [key EXCEPT ![Receiver] = Sk]
    BY <1>1 DEF ReceiverSendPk, TypeOK
  <1> QED BY <1>1, <1>2, KeyStep DEF ReceiverSendPk

LEMMA ForwardPkStep ==
    ASSUME TypeOK, Flow, NEW p \in Firewalls, ForwardPk(p)
    PROVE  TypeOK' /\ Flow'
  <1>1. p \in Procs /\ p - 1 \in Procs /\ p # Sender
    BY LinkFacts DEF Firewalls, RRF, SRF, Sender
  <1>2. pkwire[p - 1] = HopKey(p - 1)
    BY <1>1 DEF ForwardPk, Flow, KeysChained
  <1>3. MaulPk(HopKey(p - 1), Maul[p]) = HopKey(p)
    BY HopKeys
  <1> QED BY <1>1, <1>2, <1>3, KeyStep DEF ForwardPk

LEMMA SenderRecvPkStep ==
    ASSUME TypeOK, Flow, SenderRecvPk
    PROVE  TypeOK' /\ Flow'
  <1>1. Sender \in Procs /\ SRF \in Procs /\ Sender - 1 = SRF
    BY LinkFacts DEF Sender, SRF
  <1>2. pkwire[SRF] = HopKey(Sender - 1)
    BY <1>1 DEF SenderRecvPk, Flow, KeysChained
  <1> QED BY <1>1, <1>2, KeyStep DEF SenderRecvPk

LEMMA ReceiverEncryptStep ==
    ASSUME TypeOK, Flow, ReceiverEncrypt
    PROVE  TypeOK' /\ Flow'
  <1> DEFINE f == [i \in Index |-> Encrypt(key[Receiver], X[i], Coin[Receiver][1][i])]
  <1>1. /\ Receiver \in Procs /\ Receiver # Sender /\ key[Receiver] = Sk
        /\ phase[Receiver] = "r1" /\ step[Receiver] = "in"
        /\ SendChunk(Receiver, f) /\ UNCHANGED Crypto
    BY LinkFacts DEF ReceiverEncrypt, Receiver, Sender, Flow, KeysChained
  <1>2. /\ HopKey(Least(Receiver, Target(Receiver))) = Sk
        /\ \A i : Plain(<<Receiver, Target(Receiver)>>, i) = X[i]
    BY <1>1, HopKeys DEF Target, Receiver, Least, Plain
  <1>3. ASSUME NEW i \in Index
        PROVE  f[i] \in Ciphertexts /\ Encrypts(f[i], Sk, X[i])
    <2>1. X[i] \in Residues /\ Sk \in Int /\ Coin[Receiver][1][i] \in Int
      BY <1>1, InputAssumption, KeyAssumption, CoinAssumption
    <2> QED BY <1>1, <2>1, EncryptFacts
  <1> HIDE DEF f
  <1> QED BY <1>1, <1>2, <1>3, SendChunkStep

\* The chunk a firewall has received in a round.
LEMMA FirewallHolds ==
    ASSUME TypeOK, Flow, NEW p \in Firewalls, NEW round \in {"r1", "r2"},
           ChunkReceived(p, round), NEW i \in Index, i \in Chunk(p)
    PROVE  /\ in_buf[p][i] \in Ciphertexts
           /\ round = "r1" => Encrypts(in_buf[p][i], HopKey(p - 1), X[i])
           /\ round = "r2" => Encrypts(in_buf[p][i], HopKey(p), Result(i))
  <1>1. p \in Procs /\ p - 1 \in Procs /\ p + 1 \in Procs
    BY LinkFacts DEF Firewalls, RRF, SRF
  <1>2. in_buf[p][i] \in Ciphertexts
    BY <1>1 DEF TypeOK
  <1>3. i < End(p)
    BY <1>1, Basics DEF Chunk, Index
  <1>4. phase[p] = round /\ step[p] = "in" /\ ChunkDone(p)
    BY DEF ChunkReceived
  <1>5. CASE round = "r1"
    <2> DEFINE k == <<p - 1, p>>
    <2>1. /\ k \in Links /\ k[2] = p /\ Round(k) = "r1" /\ Least(k[1], k[2]) = p - 1
          /\ Plain(k, i) = X[i]
      BY <1>1, LinkFacts DEF Round, Least, Plain
    <2> HIDE DEF k
    <2> QED BY <1>1, <1>2, <1>3, <1>4, <1>5, <2>1, ChunkHeld
  <1>6. CASE round = "r2"
    <2> DEFINE k == <<p + 1, p>>
    <2>1. /\ k \in Links /\ k[2] = p /\ Round(k) = "r2" /\ Least(k[1], k[2]) = p
          /\ Plain(k, i) = Result(i)
      BY <1>1, LinkFacts DEF Round, Least, Plain
    <2> HIDE DEF k
    <2> QED BY <1>1, <1>2, <1>3, <1>4, <1>6, <2>1, ChunkHeld
  <1> QED BY <1>5, <1>6

LEMMA ForwardStep ==
    ASSUME TypeOK, Flow, NEW p \in Firewalls, ChunkReceived(p, "r1"),
           SendChunk(p, Forward(p)), UNCHANGED Crypto
    PROVE  TypeOK' /\ Flow'
  <1>1. /\ p \in Procs /\ p # Sender /\ p # Receiver /\ phase[p] = "r1" /\ step[p] = "in"
        /\ ChunkDone(p)
    BY LinkFacts DEF Firewalls, RRF, SRF, Sender, Receiver, ChunkReceived
  <1>2. /\ HopKey(Least(p, Target(p))) = HopKey(p)
        /\ \A i : Plain(<<p, Target(p)>>, i) = X[i]
    BY <1>1, LinkFacts DEF Target, Least, Plain
  <1>3. /\ pkwire[p] = HopKey(p) /\ HopKey(p) = MaulPk(HopKey(p - 1), Maul[p])
        /\ HopKey(p - 1) \in Int /\ Maul[p] \in Int
    BY <1>1, LinkFacts, HopKeys DEF Flow, KeysChained
  <1>4. ASSUME NEW i \in Index, i \in Chunk(p)
        PROVE  Forward(p)[i] \in Ciphertexts /\ Encrypts(Forward(p)[i], HopKey(p), X[i])
    <2>1. in_buf[p][i] \in Ciphertexts /\ Encrypts(in_buf[p][i], HopKey(p - 1), X[i])
      BY <1>4, FirewallHolds
    <2>2. Coin[p][1][i] \in Int
      BY <1>1, CoinAssumption
    <2>3. Forward(p)[i] = MaulFwdRerand(in_buf[p][i], Maul[p],
                                        EncZero(MaulPk(HopKey(p - 1), Maul[p]), Coin[p][1][i]))
      BY <1>3 DEF Forward
    <2> QED BY <1>3, <2>1, <2>2, <2>3, ForwardMovesKey
  <1> QED BY <1>1, <1>2, <1>4, SendChunkStep

LEMMA BackwardStep ==
    ASSUME TypeOK, Flow, NEW p \in Firewalls, ChunkReceived(p, "r2"),
           SendChunk(p, Backward(p)), UNCHANGED Crypto
    PROVE  TypeOK' /\ Flow'
  <1>1. /\ p \in Procs /\ p # Sender /\ p # Receiver /\ phase[p] = "r2" /\ step[p] = "in"
        /\ ChunkDone(p)
    BY LinkFacts DEF Firewalls, RRF, SRF, Sender, Receiver, ChunkReceived
  <1>2. /\ HopKey(Least(p, Target(p))) = HopKey(p - 1)
        /\ \A i : Plain(<<p, Target(p)>>, i) = Result(i)
    BY <1>1, LinkFacts DEF Target, Least, Plain
  <1>3. /\ key[p] = HopKey(p - 1) /\ HopKey(p) = MaulPk(HopKey(p - 1), Maul[p])
        /\ HopKey(p - 1) \in Int /\ Maul[p] \in Int
    BY <1>1, LinkFacts, HopKeys DEF Flow, KeysChained
  <1>4. ASSUME NEW i \in Index, i \in Chunk(p)
        PROVE  Backward(p)[i] \in Ciphertexts /\ Encrypts(Backward(p)[i], HopKey(p - 1), Result(i))
    <2>1. /\ in_buf[p][i] \in Ciphertexts
          /\ Encrypts(in_buf[p][i], MaulPk(HopKey(p - 1), Maul[p]), Result(i))
      BY <1>3, <1>4, FirewallHolds
    <2>2. Coin[p][2][i] \in Int
      BY <1>1, CoinAssumption
    <2>3. Backward(p)[i] = MaulInvRerand(in_buf[p][i], Maul[p],
                                         EncZero(HopKey(p - 1), Coin[p][2][i]))
      BY <1>3 DEF Backward
    <2> QED BY <1>3, <2>1, <2>2, <2>3, BackwardMovesKey
  <1> QED BY <1>1, <1>2, <1>4, SendChunkStep

\* The types of what Advance assigns.
LEMMA AdvanceTypes ==
    ASSUME TypeOK, NEW p \in Procs, NEW after \in Phases, NEW next \in {"in", "out"},
           Advance(p, after, next), lanes' = lanes
    PROVE  /\ phase' \in [Procs -> Phases] /\ step' \in [Procs -> {"in", "out"}]
           /\ begin' \in [Procs -> Index] /\ pos' \in [Procs -> [Lanes -> 0..N]]
           /\ Lanes' = Lanes
  <1> DEFINE b == IF begin[p] + chunk[p] >= N THEN 0 ELSE begin[p] + chunk[p]
  <1>1. b \in Nat /\ b <= N /\ b \in Index
    BY Basics DEF Index
  <1>2. begin' = [begin EXCEPT ![p] = b] /\ pos' = [pos EXCEPT ![p] = StartAt(b)]
    BY DEF Advance
  <1> HIDE DEF b
  <1>3. StartAt(b) \in [Lanes -> 0..N]
    BY <1>1, StartFacts
  <1>4. begin' \in [Procs -> Index] /\ pos' \in [Procs -> [Lanes -> 0..N]]
    BY <1>1, <1>2, <1>3 DEF TypeOK
  <1>5. phase' \in [Procs -> Phases] /\ step' \in [Procs -> {"in", "out"}]
    BY DEF TypeOK, Advance
  <1> QED BY <1>4, <1>5 DEF Lanes

LEMMA ChunkSentStep ==
    ASSUME TypeOK, Flow, NEW p \in Procs, ChunkSent(p)
    PROVE  TypeOK' /\ Flow'
  <1> DEFINE after == IF phase[p] = "r1" THEN "r2" ELSE "done"
             next == IF p = Sender THEN "out" ELSE "in"
  <1>1. /\ phase[p] \in {"r1", "r2"} /\ step[p] = "out" /\ ChunkDone(p)
        /\ Advance(p, after, next)
        /\ UNCHANGED <<lanes, chunk, key, pkwire, wire, in_buf, out_buf, enc_b, y_vals, failures>>
    BY DEF ChunkSent, Transferring
  <1>2. after \in Phases /\ next \in {"in", "out"} /\ Course(p, after, next)
    BY <1>1 DEF Phases, Course
  <1>3. phase[p] = "r1" => after = "r2"
    OBVIOUS
  <1> HIDE DEF after, next
  <1>4. TypeOK'
    BY <1>1, <1>2, AdvanceTypes DEF TypeOK
  <1>5. Streams'
    BY <1>1, <1>2, AdvanceStreams
  <1>6. /\ Moves(p)
        /\ \/ begin'[p] = 0 /\ phase'[p] = after
           \/ phase'[p] = phase[p]
    BY <1>1, <1>2, AdvanceCursors
  <1>7. p = Receiver => phase[p] = "r1"
    BY <1>1 DEF Flow, Placed
  <1>8. Settled'
    BY <1>1, <1>3, <1>6, <1>7, SettledStep DEF Keyed
  <1> QED BY <1>4, <1>5, <1>8, FlowHalves

LEMMA SenderCollectStep ==
    ASSUME TypeOK, Flow, SenderCollect
    PROVE  TypeOK' /\ Flow'
  <1>1. /\ phase[Sender] = "r1" /\ step[Sender] = "in" /\ ChunkDone(Sender)
        /\ Advance(Sender, "compute", "in")
        /\ UNCHANGED <<lanes, chunk, key, pkwire, wire, in_buf, out_buf, enc_b, y_vals, failures>>
    BY DEF SenderCollect, ChunkReceived
  <1>2. /\ Sender \in Procs /\ Sender # Receiver /\ "compute" \in Phases
        /\ Course(Sender, "compute", "in")
    BY <1>1, LinkFacts DEF Phases, Course, Sender, Receiver
  <1>3. TypeOK'
    BY <1>1, <1>2, AdvanceTypes DEF TypeOK
  <1>4. Streams'
    BY <1>1, <1>2, AdvanceStreams
  <1>5. Moves(Sender)
    BY <1>1, <1>2, AdvanceCursors
  <1>6. Settled'
    BY <1>1, <1>2, <1>5, SettledStep DEF Keyed
  <1> QED BY <1>3, <1>4, <1>6, FlowHalves

LEMMA ReceiverDecryptStep ==
    ASSUME TypeOK, Flow, ReceiverDecrypt
    PROVE  TypeOK' /\ Flow'
  <1>1. /\ phase[Receiver] = "r2" /\ step[Receiver] = "in" /\ ChunkDone(Receiver)
        /\ Advance(Receiver, "done", "in")
        /\ UNCHANGED <<lanes, chunk, key, pkwire, wire, in_buf, out_buf, enc_b, failures>>
        /\ y_vals' = [i \in Index |-> IF i \in Chunk(Receiver)
                                     THEN Decrypt(Sk, in_buf[Receiver][i]) ELSE y_vals[i]]
    BY DEF ReceiverDecrypt, ChunkReceived
  <1>2. /\ Receiver \in Procs /\ Sender # Receiver /\ "done" \in Phases
        /\ Course(Receiver, "done", "in")
    BY <1>1, LinkFacts DEF Phases, Course, Sender, Receiver
  <1> DEFINE k == <<RRF, Receiver>>
  <1>3. /\ k \in Links /\ k[2] = Receiver /\ Round(k) = "r2"
        /\ HopKey(Least(k[1], k[2])) = Sk /\ \A i : Plain(k, i) = Result(i)
    BY LinkFacts, HopKeys DEF RRF, Receiver, Round, Least, Plain
  <1> HIDE DEF k
  <1>4. /\ N \in Nat \ {0} /\ begin[Receiver] \in Nat /\ End(Receiver) \in Nat
        /\ begin[Receiver] < End(Receiver) /\ End(Receiver) <= N
    BY <1>2, Basics
  <1>5. ASSUME NEW i \in Index, i < End(Receiver)
        PROVE  Decrypt(Sk, in_buf[Receiver][i]) = Result(i)
    <2>1. Encrypts(in_buf[Receiver][i], Sk, Result(i))
      BY <1>1, <1>2, <1>3, <1>5, ChunkHeld
    <2>2. in_buf[Receiver][i] \in Ciphertexts /\ Sk \in Int
      BY <1>2, KeyAssumption DEF TypeOK
    <2> QED BY <2>1, <2>2, DecryptFacts
  <1>6. \A i \in Index : i < begin[Receiver] => y_vals[i] = Result(i)
    BY <1>1 DEF Flow, BuffersRight
  <1>7. \A i \in Index : i < End(Receiver) => y_vals'[i] = Result(i)
    <2> SUFFICES ASSUME NEW i \in Index, i < End(Receiver)
                 PROVE  y_vals'[i] = Result(i)
      OBVIOUS
    <2>1. i \in Chunk(Receiver) \/ i < begin[Receiver]
      BY <1>4 DEF Chunk, Index
    <2> QED BY <1>1, <1>5, <1>6, <2>1
  <1>8. \A i \in Index : y_vals'[i] \in {None, Result(i)}
    <2> SUFFICES ASSUME NEW i \in Index
                 PROVE  y_vals'[i] \in {None, Result(i)}
      OBVIOUS
    <2>1. CASE i \in Chunk(Receiver)
      <3>1. i < End(Receiver)
        BY <1>4, <2>1 DEF Chunk, Index
      <3> QED BY <1>7, <3>1
    <2>2. CASE i \notin Chunk(Receiver)
      BY <1>1, <2>2 DEF Flow, OutputsCorrect
    <2> QED BY <2>1, <2>2
  <1>9. TypeOK'
    <2>1. \A i \in Index : Result(i) \in Residues
      <3>1. ASSUME NEW i \in Index
            PROVE  A[i] * X[i] + B[i] \in Int
        BY InputAssumption, QAssumption DEF Residues
      <3> QED BY <3>1, QAssumption DEF Result, Residues
    <2>2. y_vals' \in [Index -> Residues \cup {None, Garbage}]
      BY <1>1, <1>8, <2>1
    <2> QED BY <1>1, <1>2, <2>2, AdvanceTypes DEF TypeOK
  <1>10. Streams'
    BY <1>1, <1>2, AdvanceStreams
  <1>11. /\ Moves(Receiver)
         /\ \/ phase'[Receiver] = "done" /\ End(Receiver) = N
            \/ phase'[Receiver] = "r2" /\ begin'[Receiver] = End(Receiver)
    BY <1>1, <1>2, AdvanceCursors
  <1>12. OutputsCorrect'
    BY <1>4, <1>7, <1>8, <1>11 DEF OutputsCorrect, Index
  <1>13. KeysChained'
    BY <1>1, <1>11 DEF Flow, KeysChained, Moves
  <1>14. Settled'
    BY <1>1, <1>7, <1>11, <1>12, <1>13 DEF Settled, Flow, BuffersRight
  <1> QED BY <1>9, <1>10, <1>14, FlowHalves

\* A step that moves nobody keeps the streams.
LEMMA StillStreams ==
    ASSUME TypeOK, Flow,
           UNCHANGED <<lanes, chunk, phase, step, begin, pos, wire, in_buf, out_buf>>
    PROVE  Moves(Sender) /\ Streams'
  <1>1. /\ Moves(Sender) /\ wire' = wire /\ in_buf' = in_buf /\ out_buf' = out_buf
        /\ phase' = phase /\ Sender \in Procs
    BY LinkFacts DEF Moves, Sender
  <1>2. \A k \in Links : \A l \in Lanes :
           Awaited(k, l)' = Awaited(k, l) /\ Offered(k, l)' = Offered(k, l)
    BY DEF Awaited, Offered, Before, End
  <1>3. Placed(Sender)' /\ Prepared(Sender)'
    <2>1. Placed(Sender) /\ Prepared(Sender)
      BY <1>1 DEF Flow, BuffersRight
    <2> QED BY <2>1 DEF Placed, Prepared, Transferring, Target, Chunk, End, StartAt, Lanes
  <1>4. \A k \in Links : k[2] = Sender => Received(Sender, k)'
    BY <1>2 DEF Flow, BuffersRight, Received, Lanes
  <1>5. Sender \notin Firewalls
    BY DEF Sender, Firewalls, RRF, SRF
  <1>6. phase[Sender] \in {"compute", "r2", "done"} => \A q \in Firewalls : ForwardedAll(q)
    BY DEF Flow, Relayed
  <1>7. Streams'
    BY <1>1, <1>2, <1>3, <1>4, <1>5, <1>6, LocalStep
  <1> QED BY <1>1, <1>7

LEMMA EncryptBStep ==
    ASSUME TypeOK, Flow, EncryptB
    PROVE  TypeOK' /\ Flow'
  <1>1. /\ phase[Sender] \in {"r1", "compute"}
        /\ enc_b' = [i \in Index |-> Encrypt(key[Sender], B[i], Coin[Sender][1][i])]
        /\ UNCHANGED <<lanes, chunk, phase, step, begin, pos, key, pkwire, wire, in_buf, out_buf,
                       y_vals, failures>>
    BY DEF EncryptB
  <1>2. Sender \in Procs /\ key[Sender] = HopKey(SRF) /\ HopKey(SRF) \in Int
    <2>1. Sender \in Procs /\ Sender - 1 = SRF /\ SRF \in 0..4
      BY LinkFacts DEF Sender, SRF
    <2> QED BY <1>1, <2>1, HopKeys DEF Flow, KeysChained
  <1>3. enc_b' \in [Index -> Ciphertexts]
    <2>1. ASSUME NEW i \in Index
          PROVE  Encrypt(key[Sender], B[i], Coin[Sender][1][i]) \in Ciphertexts
      <3>1. B[i] \in Residues /\ Coin[Sender][1][i] \in Int
        BY <1>2, InputAssumption, CoinAssumption
      <3> QED BY <1>2, <3>1, EncryptFacts
    <2> QED BY <1>1, <2>1
  <1>4. TypeOK'
    BY <1>1, <1>3 DEF TypeOK, Lanes
  <1>5. Streams'
    BY <1>1, StillStreams
  <1>6. Settled'
    BY <1>1, <1>2 DEF Settled, Flow, BuffersRight, KeysChained, OutputsCorrect
  <1> QED BY <1>4, <1>5, <1>6, FlowHalves

LEMMA SenderComputeStep ==
    ASSUME TypeOK, Flow, SenderCompute
    PROVE  TypeOK' /\ Flow'
  <1> DEFINE p == Sender
             new == [i \in Index |-> Add(CMult(in_buf[p][i], A[i]), enc_b[i])]
  <1>1. /\ phase[p] = "compute" /\ enc_b # [i \in Index |-> Blank]
        /\ out_buf' = [out_buf EXCEPT ![p] = new]
        /\ phase' = [phase EXCEPT ![p] = "r2"] /\ step' = [step EXCEPT ![p] = "out"]
        /\ lanes' = lanes /\ chunk' = chunk /\ begin' = begin /\ pos' = pos /\ key' = key
        /\ pkwire' = pkwire /\ wire' = wire /\ in_buf' = in_buf /\ enc_b' = enc_b
        /\ y_vals' = y_vals /\ failures' = failures
    BY DEF SenderCompute
  <1>2. p \in Procs /\ p # Receiver /\ p \notin Firewalls
    BY LinkFacts DEF Sender, Receiver, Firewalls, RRF, SRF
  <1>3. enc_b = [i \in Index |-> Encrypt(HopKey(SRF), B[i], Coin[p][1][i])]
    BY <1>1 DEF Flow, BuffersRight
  <1>4. ASSUME NEW i \in Index
        PROVE  new[i] \in Ciphertexts /\ Encrypts(new[i], HopKey(SRF), Result(i))
    <2>1. /\ X[i] \in Residues /\ A[i] \in Residues /\ B[i] \in Residues
          /\ Coin[p][1][i] \in Int /\ in_buf[p][i] \in Ciphertexts /\ HopKey(SRF) \in Int
      BY <1>2, InputAssumption, CoinAssumption, HopKeys DEF TypeOK, SRF
    <2>2. Encrypts(in_buf[p][i], HopKey(SRF), X[i])
      BY <1>1, AllHeld
    <2>3. new[i] = Add(CMult(in_buf[p][i], A[i]), Encrypt(HopKey(SRF), B[i], Coin[p][1][i]))
      BY <1>3
    <2> HIDE DEF new, p
    <2> QED BY <2>1, <2>2, <2>3, EvaluateFacts DEF Result
  <1>5. new \in [Index -> Ciphertexts]
    BY <1>4
  <1> HIDE DEF new, p
  <1>6. Lanes' = Lanes
    BY <1>1 DEF Lanes
  <1>7. TypeOK'
    BY <1>1, <1>2, <1>5, <1>6 DEF TypeOK, Phases
  <1>8. /\ phase'[p] = "r2" /\ step'[p] = "out" /\ out_buf'[p] = new /\ Moves(p)
        /\ \A q \in Procs : q # p => out_buf'[q] = out_buf[q]
    BY <1>1, <1>2 DEF TypeOK, Moves
  <1>9. begin[p] = 0 /\ pos[p] = StartAt(0)
    BY <1>1, <1>2 DEF Flow, Placed
  <1>10. \A l \in Lanes : /\ Reached(N, lanes, l, pos[p][l]) = RfLaneBegin(N, lanes, l)
                         /\ Reached(N, lanes, l, begin[p]) = RfLaneBegin(N, lanes, l)
    BY <1>9, StartFacts, CountAssumption
  <1>11. ASSUME NEW k \in Links, NEW l \in Lanes, k[2] = p
         PROVE  Awaited(k, l)' = Awaited(k, l)
    <2>1. Round(k) = "r1"
      BY <1>11, LinkFacts DEF p, Sender
    <2> QED BY <1>1, <1>8, <1>11, <2>1 DEF Awaited, Before
  <1>12. ASSUME NEW k \in Links, NEW l \in Lanes, k[1] = p
         PROVE  Offered(k, l)' = Offered(k, l)
    <2>1. Round(k) = "r2"
      BY <1>12, LinkFacts DEF p, Sender
    <2> QED BY <1>1, <1>8, <1>10, <1>12, <2>1 DEF Offered, Before
  <1>13. (\A b : StartAt(b)' = StartAt(b)) /\ End(p)' = End(p) /\ End(p) \in Nat
    BY <1>1, <1>2, <1>8, OthersStay, Basics DEF End
  <1>14. Placed(p)'
    <2>1. \A l \in Lanes :
            /\ StartAt(0)[l] <= StartAt(0)[l]
            /\ StartAt(0)[l] <= Greatest(StartAt(0)[l], SliceEnd(N, lanes, l, End(p)))
      BY <1>13, StartPlaced, CountAssumption
    <2> QED BY <1>1, <1>2, <1>6, <1>8, <1>9, <1>13, <2>1 DEF Placed
  <1>15. Prepared(p)'
    <2>1. /\ Target(p)' = p - 1 /\ HopKey(Least(p, p - 1)) = HopKey(SRF)
          /\ \A i : Plain(<<p, p - 1>>, i) = Result(i)
      BY <1>8 DEF Target, p, Sender, SRF, Least, Plain
    <2> QED BY <1>4, <1>8, <2>1 DEF Prepared
  <1>16. ASSUME NEW k \in Links, k[2] = p
         PROVE  Received(p, k)'
    <2>1. Round(k) = "r1"
      BY <1>16, LinkFacts DEF p, Sender
    <2> QED BY <1>8, <2>1 DEF Received
  <1>17. \A q \in Firewalls : ForwardedAll(q)
    BY <1>1 DEF Flow, Relayed, p
  <1>18. Streams'
    BY <1>1, <1>2, <1>8, <1>11, <1>12, <1>14, <1>15, <1>16, <1>17, LocalStep
  <1>19. Settled'
    BY <1>1, <1>2, <1>8, SettledStep DEF Keyed
  <1> QED BY <1>7, <1>18, <1>19, FlowHalves

LEMMA DieStep ==
    ASSUME TypeOK, Flow, NEW p \in Procs, Die(p), phase[p] # "failed",
           failures' \in 0..MaxFailures
    PROVE  TypeOK' /\ Flow'
  <1>1. /\ phase' = [phase EXCEPT ![p] = "failed"] /\ lanes' = lanes /\ chunk' = chunk
        /\ step' = step /\ begin' = begin /\ pos' = pos /\ key' = key /\ pkwire' = pkwire
        /\ wire' = wire /\ in_buf' = in_buf /\ out_buf' = out_buf /\ enc_b' = enc_b
        /\ y_vals' = y_vals
    BY DEF Die
  <1>2. TypeOK'
    BY <1>1 DEF TypeOK, Lanes, Phases
  <1>3. phase'[p] = "failed" /\ Moves(p)
    BY <1>1 DEF TypeOK, Moves
  <1>4. Placed(p)'
    BY <1>3 DEF Placed
  <1>5. Prepared(p)'
    BY <1>3 DEF Prepared, Transferring
  <1>6. \A k \in Links : k[2] = p => Received(p, k)'
    BY <1>3, LinkFacts DEF Received
  <1>7. ForwardedAll(p)'
    BY <1>3 DEF ForwardedAll
  <1>8. Streams'
    BY <1>1, <1>3, <1>4, <1>5, <1>6, <1>7, LocalStep
  <1>9. Settled'
    BY <1>1, <1>3, SettledStep DEF Keyed
  <1> QED BY <1>2, <1>8, <1>9, FlowHalves

-------------------------------------------------------------------------------
(***************************************************************************)
(* The steps that move a ciphertext.                                       *)
(***************************************************************************)
LEMMA LaneRecvStep ==
    ASSUME TypeOK, Flow, NEW p \in Procs, NEW l \in Lanes, LaneRecv(p, l)
    PROVE  TypeOK' /\ Flow'
  <1>0. PICK k \in Links : k = <<Source(p), p>>
    BY DEF LaneRecv
  <1> DEFINE q == pos[p][l]
             w == wire[k][l]
  <1>1. /\ phase[p] \in {"r1", "r2"} /\ step[p] = "in" /\ ~LaneDone(p, l) /\ w # <<>>
        /\ lanes' = lanes /\ chunk' = chunk /\ phase' = phase /\ step' = step /\ begin' = begin
        /\ key' = key /\ pkwire' = pkwire /\ out_buf' = out_buf /\ enc_b' = enc_b
        /\ y_vals' = y_vals /\ failures' = failures
    BY <1>0 DEF LaneRecv, Transferring
  <1>u. /\ in_buf' = [in_buf EXCEPT ![p][q] = Head(w)]
        /\ wire' = [wire EXCEPT ![k][l] = Tail(w)]
        /\ pos' = [pos EXCEPT ![p][l] = q + 1]
    BY <1>0 DEF LaneRecv
  <1>2. k[1] = Source(p) /\ k[2] = p /\ Round(k) = phase[p]
    BY <1>0, <1>1, LinkFacts DEF Source, Round
  <1>3. /\ q \in Nat /\ RfLaneBegin(N, lanes, l) <= q /\ q < RfLaneEnd(N, lanes, l) /\ q + 1 <= N
        /\ Reached(N, lanes, l, q) = q /\ Reached(N, lanes, l, q + 1) = q + 1
        /\ StartAt(begin[p])[l] <= q + 1
        /\ q + 1 <= Greatest(StartAt(begin[p])[l], SliceEnd(N, lanes, l, End(p)))
    BY <1>1, LaneFacts, Basics DEF Flow
  <1>4. w \in Seq(Ciphertexts)
    BY <1>1 DEF TypeOK
  <1> HIDE DEF q, w
  <1>5. /\ Len(w) \in Nat /\ Len(w) >= 1 /\ Head(w) = w[1] /\ Head(w) \in Ciphertexts
        /\ Tail(w) \in Seq(Ciphertexts) /\ Len(Tail(w)) = Len(w) - 1
        /\ \A j \in 1..Len(Tail(w)) : Tail(w)[j] = w[j + 1]
    BY <1>1, <1>4
  <1>6. q \in Index /\ Lanes' = Lanes /\ N \in Nat
    BY <1>1, <1>3, CountAssumption DEF Index, Lanes
  <1>7. /\ pos'[p][l] = q + 1 /\ in_buf'[p][q] = Head(w) /\ wire'[k][l] = Tail(w)
        /\ \A m \in Lanes : m # l => pos'[p][m] = pos[p][m] /\ wire'[k][m] = wire[k][m]
        /\ \A i \in Index : i # q => in_buf'[p][i] = in_buf[p][i]
        /\ \A r \in Procs : r # p => in_buf'[r] = in_buf[r] /\ pos'[r] = pos[r]
        /\ \A j \in Links : j # k => wire'[j] = wire[j]
    BY <1>u, <1>6 DEF TypeOK
  <1>8. TypeOK'
    <2>1. in_buf' \in [Procs -> [Index -> Ciphertexts]]
      BY <1>u, <1>5, <1>6 DEF TypeOK
    <2>2. pos' \in [Procs -> [Lanes -> 0..N]]
      <3>1. q + 1 \in 0..N
        BY <1>3, <1>6
      <3> QED BY <1>u, <3>1 DEF TypeOK
    <2>3. DOMAIN wire' = Links /\ \A j \in Links : wire'[j] \in [Lanes -> Seq(Ciphertexts)]
      BY <1>u, <1>5 DEF TypeOK
    <2> QED BY <1>1, <1>6, <2>1, <2>2, <2>3 DEF TypeOK
  <1>9. Moves(p)
    BY <1>1, <1>7 DEF Moves
  <1>10. /\ StartAt(begin[p])' = StartAt(begin[p]) /\ \A r : End(r)' = End(r) /\ Chunk(r)' = Chunk(r)
    BY <1>1, <1>6 DEF StartAt, End, Chunk
  <1>11. Awaited(k, l) = q /\ Awaited(k, l)' = q + 1
    BY <1>1, <1>2, <1>3, <1>7 DEF Awaited, Before, q
  <1>12. ASSUME NEW j \in Links, NEW m \in Lanes, j # k \/ m # l
         PROVE  Awaited(j, m)' = Awaited(j, m) /\ wire'[j][m] = wire[j][m]
    <2>1. CASE j[2] # p
      BY <1>2, <1>7, <1>9, <2>1, OthersStay
    <2>2. CASE j = k
      BY <1>1, <1>2, <1>7, <1>12, <2>2 DEF Awaited, Before
    <2>3. CASE j # k /\ j[2] = p
      <3>1. Round(j) # phase[p]
        BY <1>1, <1>2, <2>3, LinkUnique
      <3> QED BY <1>1, <1>7, <2>3, <3>1 DEF Awaited, Before
    <2> QED BY <2>1, <2>2, <2>3
  <1>13. ASSUME NEW j \in Links, NEW m \in Lanes
         PROVE  Offered(j, m)' = Offered(j, m)
    <2>1. CASE j[1] # p
      BY <1>9, <2>1, OthersStay
    <2>2. CASE j[1] = p
      BY <1>1, <2>2 DEF Offered, Before
    <2> QED BY <2>1, <2>2
  <1>14. Placed(p)'
    <2>1. Placed(p)
      BY DEF Flow
    <2>2. \A m \in Lanes :
             /\ StartAt(begin[p])[m] <= pos'[p][m]
             /\ pos'[p][m] <= Greatest(StartAt(begin[p])[m], SliceEnd(N, lanes, m, End(p)))
      BY <1>1, <1>3, <1>7, <2>1 DEF Placed
    <2>3. \A m \in Lanes :
             /\ StartAt(begin[p])'[m] <= pos'[p][m]
             /\ pos'[p][m] <= Greatest(StartAt(begin[p])'[m], SliceEnd(N, lanes, m, End(p)'))
      BY <1>1, <1>10, <2>2
    <2> QED BY <1>1, <1>6, <2>1, <2>3 DEF Placed
  <1>15. \A r \in Procs : Placed(r)'
    <2>1. \A r \in Procs : Placed(r)
      BY DEF Flow
    <2> QED BY <1>9, <1>14, <2>1, OthersStay
  <1>16. \A r \in Procs : Prepared(r)'
    <2>1. \A r \in Procs : Prepared(r)
      BY DEF Flow, BuffersRight
    <2> QED BY <1>1, <1>10, <2>1 DEF Prepared, Transferring, Target
  <1>17. /\ phase[k[2]] # "failed"
         /\ Awaited(k, l) + Len(wire[k][l]) <= RfLaneEnd(N, lanes, l)
         /\ phase[k[1]] # "failed" => Offered(k, l) = Awaited(k, l) + Len(wire[k][l])
         /\ \A j \in 1..Len(wire[k][l]) :
              Encrypts(wire[k][l][j], HopKey(Least(k[1], k[2])), Plain(k, Awaited(k, l) + j - 1))
    BY <1>1, <1>2 DEF Flow, StreamsAligned
  <1>18. Encrypts(Head(w), HopKey(Least(k[1], k[2])), Plain(k, q))
    <2>1. 1 \in 1..Len(w) /\ q + 1 - 1 = q
      BY <1>3, <1>5
    <2> QED BY <1>5, <1>11, <1>17, <2>1 DEF w
  <1>19. ASSUME NEW j \in Links
         PROVE  Received(j[2], j)'
    <2>1. Received(j[2], j)
      BY DEF Flow, BuffersRight
    <2>2. CASE j[2] # p
      <3>1. j # k /\ j[2] \in Procs
        BY <1>2, <2>2, LinkFacts
      <3>2. in_buf'[j[2]] = in_buf[j[2]] /\ \A m \in Lanes : Awaited(j, m)' = Awaited(j, m)
        BY <1>7, <1>12, <2>2, <3>1
      <3> QED BY <1>1, <1>6, <2>1, <3>2 DEF Received
    <2>3. CASE j[2] = p /\ j # k
      <3>1. Round(j) # phase[p]
        BY <1>1, <1>2, <2>3, LinkUnique
      <3> QED BY <1>1, <2>3, <3>1 DEF Received
    <2>4. CASE j = k
      <3> SUFFICES ASSUME NEW m \in Lanes, NEW i \in Index, RfLaneBegin(N, lanes, m) <= i,
                          i < Awaited(k, m)'
                   PROVE  Encrypts(in_buf'[p][i], HopKey(Least(k[1], k[2])), Plain(k, i))
        BY <1>1, <1>2, <1>6, <2>4 DEF Received
      <3>1. CASE i = q
        BY <1>7, <1>18, <3>1
      <3>2. CASE i # q
        <4>1. i < Awaited(k, m)
          <5>1. CASE m = l
            <6>1. i \in Nat
              BY <1>6 DEF Index
            <6> QED BY <1>3, <1>11, <3>2, <5>1, <6>1
          <5>2. CASE m # l
            BY <1>1, <1>12, <5>2
          <5> QED BY <5>1, <5>2
        <4> QED BY <1>1, <1>2, <1>7, <2>1, <2>4, <3>2, <4>1 DEF Received
      <3> QED BY <3>1, <3>2
    <2> QED BY <2>2, <2>3, <2>4
  <1>20. StreamsAligned'
    <2> SUFFICES ASSUME NEW j \in Links, phase[j[2]] # "failed", NEW m \in Lanes
                 PROVE  /\ Awaited(j, m)' + Len(wire'[j][m]) <= RfLaneEnd(N, lanes, m)
                        /\ phase[j[1]] # "failed" =>
                             Offered(j, m)' = Awaited(j, m)' + Len(wire'[j][m])
                        /\ \A n \in 1..Len(wire'[j][m]) :
                             Encrypts(wire'[j][m][n], HopKey(Least(j[1], j[2])),
                                      Plain(j, Awaited(j, m)' + n - 1))
      BY <1>1, <1>6 DEF StreamsAligned
    <2>1. CASE j # k \/ m # l
      BY <1>12, <1>13, <2>1 DEF Flow, StreamsAligned
    <2>2. CASE j = k /\ m = l
      <3>1. (q + 1) + Len(Tail(w)) = q + Len(w)
        BY <1>3, <1>5
      <3>2. ASSUME NEW n \in 1..Len(Tail(w))
            PROVE  Encrypts(Tail(w)[n], HopKey(Least(k[1], k[2])), Plain(k, q + 1 + n - 1))
        <4>1. n + 1 \in 1..Len(w) /\ q + (n + 1) - 1 = q + 1 + n - 1
          BY <1>3, <1>5
        <4> QED BY <1>5, <1>11, <1>17, <4>1 DEF w
      <3> QED BY <1>7, <1>11, <1>13, <1>17, <2>2, <3>1, <3>2 DEF w
    <2> QED BY <2>1, <2>2
  <1>21. \A r \in Firewalls : ForwardedAll(r) => ForwardedAll(r)'
    <2> SUFFICES ASSUME NEW r \in Firewalls, ForwardedAll(r)
                 PROVE  ForwardedAll(r)'
      OBVIOUS
    <2>1. r \in Procs
      BY LinkFacts DEF Firewalls, RRF, SRF
    <2>2. CASE r # p
      BY <1>9, <2>1, <2>2, OthersStay
    <2>3. CASE r = p
      BY <1>1, <2>3 DEF ForwardedAll
    <2> QED BY <2>2, <2>3
  <1>22. PhaseSeparation'
    <2>1. <<Sender, SRF>> \in Links
      BY LinkFacts DEF Sender, SRF
    <2>2. ASSUME NEW m \in Lanes, wire'[<<Sender, SRF>>][m] # <<>>
          PROVE  wire[<<Sender, SRF>>][m] # <<>>
      BY <1>1, <1>12, <2>1, <2>2 DEF w
    <2> QED BY <1>6, <1>21, <2>2 DEF Flow, PhaseSeparation
  <1>23. Relayed'
    <2>1. <<SRF, Sender>> \in Links /\ <<RRF, SRF>> \in Links
      BY LinkFacts DEF SRF, Sender, RRF
    <2>2. ASSUME NEW m \in Lanes
          PROVE  Awaited(<<SRF, Sender>>, m)' + Len(wire'[<<SRF, Sender>>][m])
                   = Awaited(<<SRF, Sender>>, m) + Len(wire[<<SRF, Sender>>][m])
      <3>1. CASE <<SRF, Sender>> = k /\ m = l
        <4>1. (q + 1) + Len(Tail(w)) = q + Len(w)
          BY <1>3, <1>5
        <4> QED BY <1>7, <1>11, <3>1, <4>1 DEF w
      <3>2. CASE <<SRF, Sender>> # k \/ m # l
        BY <1>12, <2>1, <3>2
      <3> QED BY <3>1, <3>2
    <2> QED BY <1>1, <1>6, <1>13, <1>21, <2>1, <2>2 DEF Flow, Relayed
  <1>24. Streams'
    BY <1>15, <1>16, <1>19, <1>20, <1>22, <1>23 DEF Streams
  <1>25. Settled'
    BY <1>1, <1>9, SettledStep DEF Keyed
  <1> QED BY <1>8, <1>24, <1>25, FlowHalves

LEMMA LaneSendStep ==
    ASSUME TypeOK, Flow, NEW p \in Procs, NEW l \in Lanes, LaneSend(p, l)
    PROVE  TypeOK' /\ Flow'
  <1>0. PICK k \in Links : k = <<p, Target(p)>>
    <2>1. phase[p] \in {"r1", "r2"} /\ step[p] = "out" /\ Placed(p)
      BY DEF LaneSend, Transferring, Flow
    <2>2. (p = Receiver => phase[p] = "r1") /\ (p = Sender => phase[p] = "r2")
      BY <2>1 DEF Placed
    <2>3. Target(p) \in Procs /\ (Target(p) = p + 1 \/ Target(p) = p - 1)
      BY <2>1, <2>2, LinkFacts DEF Target, Receiver, Sender
    <2> QED BY <2>3, LinkFacts
  <1> DEFINE q == pos[p][l]
             w == wire[k][l]
             c == out_buf[p][q]
  <1>1. /\ phase[p] \in {"r1", "r2"} /\ step[p] = "out" /\ ~LaneDone(p, l)
        /\ lanes' = lanes /\ chunk' = chunk /\ phase' = phase /\ step' = step /\ begin' = begin
        /\ key' = key /\ pkwire' = pkwire /\ in_buf' = in_buf /\ out_buf' = out_buf
        /\ enc_b' = enc_b /\ y_vals' = y_vals /\ failures' = failures
    BY DEF LaneSend, Transferring
  <1>u. wire' = [wire EXCEPT ![k][l] = Append(w, c)] /\ pos' = [pos EXCEPT ![p][l] = q + 1]
    BY <1>0 DEF LaneSend
  <1>2. k[1] = p /\ k[2] = Target(p) /\ Round(k) = phase[p]
    BY <1>0, <1>1, LinkFacts DEF Target, Round
  <1>3. /\ q \in Nat /\ RfLaneBegin(N, lanes, l) <= q /\ q < RfLaneEnd(N, lanes, l) /\ q + 1 <= N
        /\ Reached(N, lanes, l, q) = q /\ Reached(N, lanes, l, q + 1) = q + 1
        /\ StartAt(begin[p])[l] <= q + 1 /\ q \in Chunk(p)
        /\ q + 1 <= Greatest(StartAt(begin[p])[l], SliceEnd(N, lanes, l, End(p)))
        /\ q + 1 <= Reached(N, lanes, l, End(p))
    BY <1>1, LaneFacts, Basics DEF Flow
  <1>4. w \in Seq(Ciphertexts) /\ RfLaneEnd(N, lanes, l) \in Nat
    BY CursorBounds DEF TypeOK
  <1>5. q \in Index /\ Lanes' = Lanes /\ N \in Nat
    BY <1>1, <1>3, CountAssumption DEF Index, Lanes
  <1>6. c \in Ciphertexts /\ Encrypts(c, HopKey(Least(k[1], k[2])), Plain(k, q))
    <2>1. Prepared(p)
      BY DEF Flow, BuffersRight
    <2> QED BY <1>0, <1>1, <1>2, <1>3, <1>5, <2>1 DEF Prepared, Transferring, TypeOK
  <1> HIDE DEF q, w, c
  <1>7. /\ Append(w, c) \in Seq(Ciphertexts) /\ Len(w) \in Nat /\ Len(Append(w, c)) = Len(w) + 1
        /\ \A n \in 1..Len(w) : Append(w, c)[n] = w[n]
        /\ Append(w, c)[Len(w) + 1] = c
    BY <1>4, <1>6
  <1>8. /\ pos'[p][l] = q + 1 /\ wire'[k][l] = Append(w, c)
        /\ \A m \in Lanes : m # l => pos'[p][m] = pos[p][m] /\ wire'[k][m] = wire[k][m]
        /\ \A r \in Procs : r # p => pos'[r] = pos[r]
        /\ \A j \in Links : j # k => wire'[j] = wire[j]
    BY <1>u DEF TypeOK
  <1>9. TypeOK'
    <2>1. pos' \in [Procs -> [Lanes -> 0..N]]
      <3>1. q + 1 \in 0..N
        BY <1>3, <1>5
      <3> QED BY <1>u, <3>1 DEF TypeOK
    <2>2. DOMAIN wire' = Links /\ \A j \in Links : wire'[j] \in [Lanes -> Seq(Ciphertexts)]
      BY <1>u, <1>7 DEF TypeOK
    <2> QED BY <1>1, <1>5, <2>1, <2>2 DEF TypeOK
  <1>10. Moves(p)
    BY <1>1, <1>8 DEF Moves
  <1>11. /\ StartAt(begin[p])' = StartAt(begin[p]) /\ \A r : End(r)' = End(r) /\ Chunk(r)' = Chunk(r)
    BY <1>1, <1>5 DEF StartAt, End, Chunk
  <1>12. Offered(k, l) = q /\ Offered(k, l)' = q + 1
    BY <1>1, <1>2, <1>3, <1>8 DEF Offered, Before, q
  <1>13. ASSUME NEW j \in Links, NEW m \in Lanes, j # k \/ m # l
         PROVE  Offered(j, m)' = Offered(j, m) /\ wire'[j][m] = wire[j][m]
    <2>1. CASE j[1] # p
      BY <1>2, <1>8, <1>10, <2>1, OthersStay
    <2>2. CASE j = k
      BY <1>1, <1>2, <1>8, <1>13, <2>2 DEF Offered, Before
    <2>3. CASE j # k /\ j[1] = p
      <3>1. Round(j) # phase[p]
        BY <1>1, <1>2, <2>3, LinkUnique
      <3> QED BY <1>1, <1>8, <2>3, <3>1 DEF Offered, Before
    <2> QED BY <2>1, <2>2, <2>3
  <1>14. ASSUME NEW j \in Links, NEW m \in Lanes
         PROVE  Awaited(j, m)' = Awaited(j, m)
    <2>1. CASE j[2] # p
      BY <1>10, <2>1, OthersStay
    <2>2. CASE j[2] = p
      BY <1>1, <1>11, <2>2 DEF Awaited, Before
    <2> QED BY <2>1, <2>2
  <1>15. Placed(p)'
    <2>1. Placed(p)
      BY DEF Flow
    <2>2. \A m \in Lanes :
             /\ StartAt(begin[p])[m] <= pos'[p][m]
             /\ pos'[p][m] <= Greatest(StartAt(begin[p])[m], SliceEnd(N, lanes, m, End(p)))
      BY <1>1, <1>3, <1>8, <2>1 DEF Placed
    <2>3. \A m \in Lanes :
             /\ StartAt(begin[p])'[m] <= pos'[p][m]
             /\ pos'[p][m] <= Greatest(StartAt(begin[p])'[m], SliceEnd(N, lanes, m, End(p)'))
      BY <1>1, <1>11, <2>2
    <2> QED BY <1>1, <1>5, <2>1, <2>3 DEF Placed
  <1>16. \A r \in Procs : Placed(r)'
    <2>1. \A r \in Procs : Placed(r)
      BY DEF Flow
    <2> QED BY <1>10, <1>15, <2>1, OthersStay
  <1>17. \A r \in Procs : Prepared(r)'
    <2>1. \A r \in Procs : Prepared(r)
      BY DEF Flow, BuffersRight
    <2> QED BY <1>1, <1>11, <2>1 DEF Prepared, Transferring, Target
  <1>18. \A j \in Links : Received(j[2], j)'
    <2>1. \A j \in Links : Received(j[2], j)
      BY DEF Flow, BuffersRight
    <2> QED BY <1>1, <1>5, <1>14, <2>1 DEF Received
  <1>19. StreamsAligned'
    <2> SUFFICES ASSUME NEW j \in Links, phase[j[2]] # "failed", NEW m \in Lanes
                 PROVE  /\ Awaited(j, m)' + Len(wire'[j][m]) <= RfLaneEnd(N, lanes, m)
                        /\ phase[j[1]] # "failed" =>
                             Offered(j, m)' = Awaited(j, m)' + Len(wire'[j][m])
                        /\ \A n \in 1..Len(wire'[j][m]) :
                             Encrypts(wire'[j][m][n], HopKey(Least(j[1], j[2])),
                                      Plain(j, Awaited(j, m)' + n - 1))
      BY <1>1, <1>5 DEF StreamsAligned
    <2>1. CASE j # k \/ m # l
      BY <1>13, <1>14, <2>1 DEF Flow, StreamsAligned
    <2>2. CASE j = k /\ m = l
      <3>1. /\ q = Awaited(k, l) + Len(w)
            /\ \A n \in 1..Len(w) :
                 Encrypts(w[n], HopKey(Least(k[1], k[2])), Plain(k, Awaited(k, l) + n - 1))
        <4>1. phase[k[2]] # "failed" /\ phase[k[1]] # "failed"
          BY <1>1, <1>2, <2>2
        <4> QED BY <1>12, <4>1 DEF Flow, StreamsAligned, w
      <3>2. Awaited(k, l) \in Nat
        BY CursorBounds
      <3>3. Awaited(k, l) + (Len(w) + 1) = q + 1 /\ q + 1 <= RfLaneEnd(N, lanes, l)
        BY <1>3, <1>4, <1>7, <3>1, <3>2
      <3>4. ASSUME NEW n \in 1..(Len(w) + 1)
            PROVE  Encrypts(Append(w, c)[n], HopKey(Least(k[1], k[2])),
                            Plain(k, Awaited(k, l) + n - 1))
        <4>1. CASE n \in 1..Len(w)
          BY <1>7, <3>1, <4>1
        <4>2. CASE n = Len(w) + 1
          <5>1. Awaited(k, l) + n - 1 = q
            BY <1>7, <3>1, <3>2, <4>2
          <5> QED BY <1>6, <1>7, <4>2, <5>1
        <4> QED BY <1>7, <4>1, <4>2
      <3> QED BY <1>7, <1>8, <1>12, <1>14, <2>2, <3>3, <3>4
    <2> QED BY <2>1, <2>2
  <1>20. \A r \in Firewalls : ForwardedAll(r) => ForwardedAll(r)'
    <2> SUFFICES ASSUME NEW r \in Firewalls, ForwardedAll(r)
                 PROVE  ForwardedAll(r)'
      OBVIOUS
    <2>1. r \in Procs
      BY LinkFacts DEF Firewalls, RRF, SRF
    <2>2. CASE r # p
      BY <1>10, <2>1, <2>2, OthersStay
    <2>3. CASE r = p
      BY <1>1, <2>3 DEF ForwardedAll, ChunkDone
    <2> QED BY <2>2, <2>3
  <1>21. PhaseSeparation'
    <2>1. <<Sender, SRF>> \in Links
      BY LinkFacts DEF Sender, SRF
    <2>2. ASSUME NEW m \in Lanes, wire'[<<Sender, SRF>>][m] # <<>>
          PROVE  \A r \in Firewalls : ForwardedAll(r)
      <3>1. CASE <<Sender, SRF>> # k
        <4>1. wire[<<Sender, SRF>>][m] # <<>>
          BY <1>8, <2>1, <2>2, <3>1
        <4> QED BY <4>1 DEF Flow, PhaseSeparation
      <3>2. CASE <<Sender, SRF>> = k
        <4>1. p = Sender /\ phase[p] = "r2"
          BY <1>1, <1>2, <3>2 DEF Flow, Placed, Sender, SRF, Target
        <4> QED BY <4>1 DEF Flow, Relayed
      <3> QED BY <3>1, <3>2
    <2> QED BY <1>5, <1>20, <2>2 DEF PhaseSeparation
  <1>22. Relayed'
    <2> DEFINE a == <<SRF, Sender>>
               b == <<RRF, SRF>>
    <2>1. /\ a \in Links /\ b \in Links /\ a # b /\ b[1] = RRF /\ b[2] = SRF
          /\ a[1] = SRF /\ a[2] = Sender /\ Round(b) = "r1" /\ Round(a) = "r1"
      BY LinkFacts DEF SRF, Sender, RRF, Round
    <2> HIDE DEF a, b
    <2>2. ASSUME phase[Sender] # "failed", phase[RRF] # "failed", NEW m \in Lanes
          PROVE  Awaited(a, m)' + Len(wire'[a][m]) <= Offered(b, m)'
      <3>1. Awaited(a, m) + Len(wire[a][m]) <= Offered(b, m)
        BY <2>2 DEF Flow, Relayed, a, b
      <3>2. Awaited(a, m)' = Awaited(a, m) /\ Awaited(a, m) \in Nat /\ Offered(b, m) \in Nat
        BY <1>14, <2>1, CursorBounds
      <3>3. Len(wire[a][m]) \in Nat
        <4>1. wire[a][m] \in Seq(Ciphertexts)
          BY <2>1 DEF TypeOK
        <4> QED BY <4>1
      <3>4. CASE a = k /\ m = l
        <4>1. p = SRF /\ phase[SRF] = "r1" /\ step[SRF] = "out"
          BY <1>1, <1>2, <2>1, <3>4
        <4>2. Awaited(b, m) = Reached(N, lanes, l, End(p))
          BY <2>1, <3>4, <4>1 DEF Awaited, Before
        <4>3. Offered(b, m) = Awaited(b, m) + Len(wire[b][m])
          BY <2>1, <2>2, <4>1 DEF Flow, StreamsAligned
        <4>4. Len(wire[b][m]) \in Nat /\ Awaited(b, m) \in Nat
          <5>1. wire[b][m] \in Seq(Ciphertexts)
            BY <2>1 DEF TypeOK
          <5>2. Awaited(b, m) \in Nat
            BY <2>1, CursorBounds
          <5> QED BY <5>1, <5>2
        <4>5. q + 1 <= Offered(b, m)
          BY <1>3, <4>2, <4>3, <4>4
        <4>6. Awaited(a, m) + Len(wire[a][m]) = q
          BY <1>12, <2>1, <2>2, <3>4, <4>1 DEF Flow, StreamsAligned
        <4>7. Len(wire'[a][m]) = Len(wire[a][m]) + 1
          BY <1>7, <1>8, <3>4 DEF w
        <4>8. Offered(b, m)' = Offered(b, m)
          BY <1>13, <2>1, <3>4
        <4> QED BY <1>3, <3>2, <3>3, <4>5, <4>6, <4>7, <4>8
      <3>5. CASE b = k /\ m = l
        <4>1. wire'[a][m] = wire[a][m]
          BY <1>13, <2>1, <3>5
        <4>2. Offered(b, m) = q /\ Offered(b, m)' = q + 1
          BY <1>12, <3>5
        <4> QED BY <1>3, <3>1, <3>2, <3>3, <4>1, <4>2
      <3>6. CASE m # l \/ (a # k /\ b # k)
        <4>1. wire'[a][m] = wire[a][m] /\ Offered(b, m)' = Offered(b, m)
          BY <1>13, <2>1, <3>6
        <4> QED BY <3>1, <3>2, <4>1
      <3> QED BY <3>4, <3>5, <3>6
    <2> QED BY <1>1, <1>5, <1>20, <2>2 DEF Flow, Relayed, a, b
  <1>23. Streams'
    BY <1>16, <1>17, <1>18, <1>19, <1>21, <1>22 DEF Streams
  <1>24. Settled'
    BY <1>1, <1>10, SettledStep DEF Keyed
  <1> QED BY <1>9, <1>23, <1>24, FlowHalves

-------------------------------------------------------------------------------
(***************************************************************************)
(* The invariant.                                                          *)
(***************************************************************************)
\* Before the first step nothing is on a wire and nobody has moved.
LEMMA FlowInit == Init => TypeOK /\ Flow
  <1> SUFFICES ASSUME Init
               PROVE  TypeOK /\ Flow
    OBVIOUS
  <1>1. /\ lanes \in LaneCounts /\ chunk \in [Procs -> ChunkSizes]
        /\ phase = [p \in Procs |-> "key"] /\ step = [p \in Procs |-> "in"]
        /\ begin = [p \in Procs |-> 0] /\ pos = [p \in Procs |-> StartAt(0)]
        /\ key = [p \in Procs |-> IF p = Receiver THEN Sk ELSE None]
        /\ pkwire = [p \in Procs |-> None] /\ wire = [k \in Links |-> [l \in Lanes |-> <<>>]]
        /\ in_buf = [p \in Procs |-> [i \in Index |-> Blank]]
        /\ out_buf = [p \in Procs |-> [i \in Index |-> Blank]]
        /\ enc_b = [i \in Index |-> Blank] /\ y_vals = [i \in Index |-> None] /\ failures = 0
    BY DEF Init
  <1>2. Blank \in Ciphertexts /\ 0 \in Index /\ Sk \in Int /\ 0 \in 0..MaxFailures
    BY QAssumption, CountAssumption, KeyAssumption, FailureAssumption
       DEF Blank, Ciphertexts, Residues, Index
  <1>3. StartAt(0) \in [Lanes -> 0..N]
    <2>1. lanes \in Nat \ {0} /\ N \in Nat
      BY <1>1, LanesAssumption, CountAssumption DEF MaxLanes
    <2>2. \A l \in Lanes : SliceBegin(N, lanes, l, 0) \in 0..N
      BY <2>1, SliceStart, 0 \in 0..N DEF Lanes
    <2> QED BY <2>2 DEF StartAt
  <1>4. TypeOK
    <2>1. DOMAIN wire = Links /\ \A k \in Links : wire[k] \in [Lanes -> Seq(Ciphertexts)]
      BY <1>1
    <2> QED BY <1>1, <1>2, <1>3, <2>1 DEF TypeOK, Phases
  <1>5. \A p \in Procs : phase[p] = "key" /\ step[p] = "in" /\ begin[p] = 0 /\ pos[p] = StartAt(0)
    BY <1>1
  <1>6. \A p \in Procs : Placed(p) /\ Prepared(p)
    BY <1>5 DEF Placed, Prepared, Transferring
  <1>7. \A k \in Links : \A l \in Lanes :
          /\ Awaited(k, l) = RfLaneBegin(N, lanes, l) /\ Offered(k, l) = RfLaneBegin(N, lanes, l)
          /\ wire[k][l] = <<>>
    BY <1>1, <1>5, LinkFacts DEF Awaited, Offered, Before
  <1>8. \A k \in Links : Received(k[2], k)
    <2>1. Sender \in Procs
      BY LinkFacts DEF Sender
    <2> QED BY <1>5, <2>1, LinkFacts DEF Received
  <1>9. StreamsAligned
    <2> SUFFICES ASSUME NEW k \in Links, NEW l \in Lanes
                 PROVE  /\ Awaited(k, l) + Len(wire[k][l]) <= RfLaneEnd(N, lanes, l)
                        /\ Offered(k, l) = Awaited(k, l) + Len(wire[k][l])
                        /\ 1..Len(wire[k][l]) = {}
      BY DEF StreamsAligned
    <2>1. Len(wire[k][l]) = 0
      BY <1>7
    <2>2. /\ RfLaneBegin(N, lanes, l) \in Nat /\ RfLaneEnd(N, lanes, l) \in Nat
          /\ RfLaneBegin(N, lanes, l) <= RfLaneEnd(N, lanes, l)
      BY <1>4, CursorBounds
    <2> QED BY <1>7, <2>1, <2>2
  <1>10. Relayed
    <2>1. /\ <<SRF, Sender>> \in Links /\ <<RRF, SRF>> \in Links /\ Sender \in Procs
      BY LinkFacts DEF SRF, Sender, RRF
    <2>2. ASSUME NEW l \in Lanes
          PROVE  Awaited(<<SRF, Sender>>, l) + Len(wire[<<SRF, Sender>>][l])
                   <= Offered(<<RRF, SRF>>, l)
      <3>1. RfLaneBegin(N, lanes, l) \in Nat /\ Len(wire[<<SRF, Sender>>][l]) = 0
        BY <1>4, <1>7, <2>1, CursorBounds
      <3> QED BY <1>7, <2>1, <3>1
    <2> QED BY <1>5, <2>1, <2>2 DEF Relayed
  <1>11. PhaseSeparation
    <2>1. <<Sender, SRF>> \in Links
      BY LinkFacts DEF SRF, Sender
    <2> QED BY <1>7, <2>1 DEF PhaseSeparation
  <1>12. Settled
    <2>1. Receiver \in Procs
      BY LinkFacts DEF Receiver
    <2>2. KeysChained
      BY <1>1, <1>5, <2>1 DEF KeysChained
    <2>3. OutputsCorrect
      BY <1>1, <1>5, <2>1 DEF OutputsCorrect
    <2> QED BY <1>1, <1>5, <2>1, <2>2, <2>3 DEF Settled
  <1>13. Streams
    BY <1>6, <1>8, <1>9, <1>10, <1>11 DEF Streams
  <1> QED BY <1>4, <1>12, <1>13, FlowHalves

\* Every step of every process and lane keeps the invariant.
LEMMA FlowNext == TypeOK /\ Flow /\ [Next]_vars => TypeOK' /\ Flow'
  <1> SUFFICES ASSUME TypeOK, Flow, [Next]_vars
               PROVE  TypeOK' /\ Flow'
    OBVIOUS
  <1> USE DEF Firewalls
  <1>1. CASE UNCHANGED vars
    <2>1. TypeOK'
      BY <1>1 DEF vars, TypeOK, Lanes
    <2>2. Moves(Sender) /\ Streams' /\ Sender \in Procs /\ Sender # Receiver
      BY <1>1, StillStreams, LinkFacts DEF vars, Sender, Receiver
    <2>3. Settled'
      BY <1>1, <2>2, SettledStep DEF vars
    <2> QED BY <2>1, <2>2, <2>3, FlowHalves
  <1>2. ASSUME NEW p \in Procs, ProcNext(p)
        PROVE  TypeOK' /\ Flow'
    <2>1. CASE ReceiverNext
      BY <2>1, ReceiverSendPkStep, ReceiverEncryptStep, ReceiverDecryptStep DEF ReceiverNext
    <2>2. CASE RrfNext
      BY <2>2, ForwardPkStep, ForwardStep, BackwardStep
         DEF RrfNext, RrfForwardPk, RrfRound1, RrfRound2
    <2>3. CASE SrfNext
      BY <2>3, ForwardPkStep, ForwardStep, BackwardStep
         DEF SrfNext, SrfForwardPk, SrfRound1, SrfRound2
    <2>4. CASE SenderNext
      BY <2>4, SenderRecvPkStep, SenderCollectStep, EncryptBStep, SenderComputeStep DEF SenderNext
    <2>5. CASE ChunkSent(p)
      BY <2>5, ChunkSentStep
    <2>6. CASE PeerFailed(p)
      <3>1. phase[p] # "failed" /\ Die(p) /\ failures' = failures
        BY <2>6 DEF PeerFailed, Transferring
      <3> QED BY <3>1, DieStep DEF TypeOK
    <2> QED BY <1>2, <2>1, <2>2, <2>3, <2>4, <2>5, <2>6 DEF ProcNext
  <1>3. ASSUME NEW p \in Procs, NEW l \in Lanes, LaneNext(p, l)
        PROVE  TypeOK' /\ Flow'
    BY <1>3, LaneRecvStep, LaneSendStep DEF LaneNext
  <1>4. ASSUME NEW p \in Procs, Fail(p)
        PROVE  TypeOK' /\ Flow'
    <2>1. phase[p] # "failed" /\ Die(p)
      BY <1>4 DEF Fail, Ended
    <2>2. failures' \in 0..MaxFailures
      BY <1>4, FailureAssumption DEF Fail, TypeOK
    <2> QED BY <2>1, <2>2, DieStep
  <1>5. CASE Finished
    BY <1>1, <1>5 DEF Finished
  <1> QED BY <1>1, <1>2, <1>3, <1>4, <1>5 DEF Next, Progress

\* The processes keep to the protocol whatever the lane count, the chunk sizes
\* and the buffers are, and whoever dies: TypeOK and Flow are invariants.
THEOREM FlowInvariant == Spec => [](TypeOK /\ Flow)
  BY FlowInit, FlowNext, PTL DEF Spec

\* The type invariant of the four processes.
THEOREM RfOleTypes == Spec => []TypeOK
  BY FlowInvariant, PTL

\* Although recv_ct_lanes_range takes untagged ciphertexts from `lanes` sockets,
\* every ciphertext a process takes is the one for the index it stores it at,
\* under the key of that hop.
THEOREM StreamsStayAligned == Spec => []StreamsAligned
  <1>1. Flow => StreamsAligned
    BY DEF Flow
  <1> QED BY <1>1, FlowInvariant, PTL

\* The sender's answers leave only after both firewalls have forwarded all of
\* round 1.
THEOREM RoundsSeparated == Spec => []PhaseSeparation
  <1>1. Flow => PhaseSeparation
    BY DEF Flow
  <1> QED BY <1>1, FlowInvariant, PTL

\* The receiver stores nothing but a_i x_i + b_i, and all of them when it returns.
THEOREM ReceiverOutputs == Spec => []OutputsCorrect
  <1>1. Flow => OutputsCorrect
    BY DEF Flow
  <1> QED BY <1>1, FlowInvariant, PTL
==============================================================================
