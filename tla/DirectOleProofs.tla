--------------------------- MODULE DirectOleProofs ---------------------------
(***************************************************************************)
(* Direct batched OLE, in lock-step and whole-batch form, for every batch  *)
(* size, lane count, pair of chunk sizes, buffer size, input, key and coin:*)
(* outputs are right whatever the settings are, and with settings that     *)
(* agree the two processes never block each other.                         *)
(*                                                                         *)
(* The inductive invariant is TypeOK /\ Flow: the cursors Given and Taken  *)
(* account for every ciphertext (Aligned), and with chunk sizes that agree *)
(* they force the two loops into step (Sync).                              *)
(***************************************************************************)
EXTENDS DirectOle, ArithmeticProofs

-------------------------------------------------------------------------------
(***************************************************************************)
(* Types, places and cursors.                                              *)
(***************************************************************************)
LEMMA Basics ==
    ASSUME TypeOK
    PROVE  /\ lanes \in Nat \ {0} /\ N \in Nat \ {0} /\ Lanes = 0..(lanes - 1)
           /\ \A p \in Procs :
                /\ chunk[p] \in Nat \ {0} /\ begin[p] \in Nat /\ begin[p] < N
                /\ End(p) \in Nat /\ begin[p] < End(p) /\ End(p) <= N
                /\ begin[p] + Size(p) < N => End(p) = begin[p] + Size(p)
                /\ begin[p] + Size(p) >= N => End(p) = N
                /\ \A l \in Lanes : pos[p][l] \in Nat /\ pos[p][l] <= N
  <1>1. lanes \in Nat \ {0} /\ N \in Nat \ {0} /\ Lanes = 0..(lanes - 1)
    BY DirectConstants DEF TypeOK, MaxLanes, Lanes
  <1>2. ASSUME NEW p \in Procs
        PROVE  /\ chunk[p] \in Nat \ {0} /\ begin[p] \in Nat /\ begin[p] < N
               /\ Size(p) \in Nat \ {0}
               /\ \A l \in Lanes : pos[p][l] \in Nat /\ pos[p][l] <= N
    <2>1. chunk[p] \in Nat \ {0}
      BY DirectConstants DEF TypeOK
    <2>2. begin[p] \in Nat /\ begin[p] < N
      BY <1>1 DEF TypeOK, Index
    <2>3. \A l \in Lanes : pos[p][l] \in 0..N
      BY DEF TypeOK
    <2>4. Size(p) \in Nat \ {0}
      BY <1>1, <2>1 DEF Size
    <2> QED BY <1>1, <2>1, <2>2, <2>3, <2>4
  <1>3. ASSUME NEW p \in Procs
        PROVE  /\ End(p) \in Nat /\ begin[p] < End(p) /\ End(p) <= N
               /\ begin[p] + Size(p) < N => End(p) = begin[p] + Size(p)
               /\ begin[p] + Size(p) >= N => End(p) = N
    BY <1>1, <1>2 DEF End, Least
  <1> QED BY <1>1, <1>2, <1>3

LEMMA Peers ==
    /\ Receiver \in Procs /\ Sender \in Procs /\ Receiver # Sender
    /\ Peer(Receiver) = Sender /\ Peer(Sender) = Receiver
    /\ \A p \in Procs : /\ p = Receiver \/ p = Sender
                        /\ Peer(p) \in Procs /\ Peer(p) # p /\ Peer(Peer(p)) = p
                        /\ \A q \in Procs : q # p => q = Peer(p)
  BY DEF Procs, Receiver, Sender, Peer

LEMMA StartFacts ==
    ASSUME TypeOK, NEW b \in Nat, b <= N
    PROVE  /\ StartAt(b) \in [Lanes -> 0..N]
           /\ \A l \in Lanes :
                /\ StartAt(b)[l] = SliceBegin(N, lanes, l, b)
                /\ StartAt(b)[l] \in Nat
                /\ Reached(N, lanes, l, StartAt(b)[l]) = Reached(N, lanes, l, b)
                /\ Reached(N, lanes, l, 0) = RfLaneBegin(N, lanes, l)
                /\ Reached(N, lanes, l, N) = RfLaneEnd(N, lanes, l)
  <1>1. lanes \in Nat \ {0} /\ N \in Nat \ {0} /\ Lanes = 0..(lanes - 1)
    BY Basics
  <1>2. ASSUME NEW l \in Lanes
        PROVE  /\ SliceBegin(N, lanes, l, b) \in 0..N
               /\ Reached(N, lanes, l, SliceBegin(N, lanes, l, b)) = Reached(N, lanes, l, b)
               /\ Reached(N, lanes, l, 0) = RfLaneBegin(N, lanes, l)
               /\ Reached(N, lanes, l, N) = RfLaneEnd(N, lanes, l)
    BY <1>1, b \in 0..N, SliceStart, ReachedEnds
  <1>3. StartAt(b) = [l \in Lanes |-> SliceBegin(N, lanes, l, b)]
    BY DEF StartAt
  <1> QED BY <1>2, <1>3

\* Where a lane is in its process's chunk: at an index of its own, or at the end.
LEMMA LaneFacts ==
    ASSUME TypeOK, NEW p \in Procs, NEW l \in Lanes, Placed(p), pc[p] \in {"send", "recv"}
    PROVE  LET q == pos[p][l] IN
           /\ Reached(N, lanes, l, begin[p]) <= Reached(N, lanes, l, q)
           /\ Reached(N, lanes, l, q) <= Reached(N, lanes, l, End(p))
           /\ LaneDone(p, l) => Reached(N, lanes, l, q) = Reached(N, lanes, l, End(p))
           /\ ~LaneDone(p, l) =>
                /\ InChunk(p, q) /\ q + 1 <= N
                /\ RfLaneBegin(N, lanes, l) <= q /\ q < RfLaneEnd(N, lanes, l)
                /\ Reached(N, lanes, l, q) = q /\ Reached(N, lanes, l, q + 1) = q + 1
                /\ q + 1 <= Reached(N, lanes, l, End(p))
                /\ StartAt(begin[p])[l] <= q + 1
                /\ q + 1 <= Greatest(StartAt(begin[p])[l], SliceEnd(N, lanes, l, End(p)))
  <1> DEFINE q == pos[p][l]
             e == End(p)
             b == begin[p]
             s == SliceEnd(N, lanes, l, e)
  <1>1. /\ lanes \in Nat \ {0} /\ N \in Nat \ {0} /\ Lanes = 0..(lanes - 1)
        /\ b \in Nat /\ e \in Nat /\ b < e /\ e <= N /\ b <= N /\ q \in Nat
    BY Basics
  <1>2. StartAt(b)[l] = SliceBegin(N, lanes, l, b) /\ StartAt(b)[l] \in Nat
    BY <1>1, StartFacts
  <1>3. /\ SliceBegin(N, lanes, l, b) <= q
        /\ q <= Greatest(SliceBegin(N, lanes, l, b), s)
    BY <1>2 DEF Placed
  <1>4. s \in Nat
    BY <1>1, LaneBounds DEF SliceEnd, Least
  <1>5. LaneDone(p, l) <=> q >= s
    BY DEF LaneDone
  <1>6. /\ Reached(N, lanes, l, b) <= Reached(N, lanes, l, q)
        /\ Reached(N, lanes, l, q) <= Reached(N, lanes, l, e)
        /\ q >= s => Reached(N, lanes, l, q) = Reached(N, lanes, l, e)
        /\ q < s =>
             /\ b <= q /\ q < e /\ q + 1 <= N
             /\ RfLaneBegin(N, lanes, l) <= q /\ q < RfLaneEnd(N, lanes, l)
             /\ Reached(N, lanes, l, q) = q /\ Reached(N, lanes, l, q + 1) = q + 1
             /\ q + 1 <= Reached(N, lanes, l, e)
             /\ q + 1 <= Greatest(SliceBegin(N, lanes, l, b), s)
    <2> HIDE DEF q, e, b
    <2> QED BY <1>1, <1>3, SliceProgress
  <1> QED BY <1>1, <1>2, <1>3, <1>4, <1>5, <1>6 DEF InChunk

LEMMA CursorBounds ==
    ASSUME TypeOK, NEW p \in Procs, NEW l \in Lanes
    PROVE  /\ RfLaneBegin(N, lanes, l) \in Nat /\ RfLaneEnd(N, lanes, l) \in Nat
           /\ RfLaneBegin(N, lanes, l) <= RfLaneEnd(N, lanes, l)
           /\ RfLaneEnd(N, lanes, l) <= N
           /\ Taken(p, l) \in Nat /\ Given(p, l) \in Nat
           /\ \A i \in Nat : Reached(N, lanes, l, i) \in Nat
  <1>1. /\ lanes \in Nat \ {0} /\ N \in Nat \ {0} /\ l \in 0..(lanes - 1)
        /\ begin[p] \in Nat /\ End(p) \in Nat /\ pos[p][l] \in Nat
    BY Basics
  <1>2. /\ RfLaneBegin(N, lanes, l) \in Nat /\ RfLaneEnd(N, lanes, l) \in Nat
        /\ RfLaneBegin(N, lanes, l) <= RfLaneEnd(N, lanes, l)
        /\ RfLaneEnd(N, lanes, l) <= N
    BY <1>1, LaneBounds
  <1>3. \A i \in Nat : Reached(N, lanes, l, i) \in Nat
    BY <1>1, ReachedEnds
  <1>4. Taken(p, l) \in Nat /\ Given(p, l) \in Nat
    BY <1>1, <1>2, <1>3 DEF Taken, Given
  <1> QED BY <1>2, <1>3, <1>4

\* A transfer that has just been started is placed right.
LEMMA StartPlaced ==
    ASSUME TypeOK, NEW b \in Nat, b <= N, NEW e \in Nat, NEW l \in Lanes
    PROVE  /\ StartAt(b)[l] <= StartAt(b)[l]
           /\ StartAt(b)[l] <= Greatest(StartAt(b)[l], SliceEnd(N, lanes, l, e))
  <1>1. StartAt(b)[l] \in 0..N
    BY StartFacts
  <1>2. lanes \in Nat \ {0} /\ N \in Nat \ {0} /\ l \in 0..(lanes - 1)
    BY Basics
  <1>3. SliceEnd(N, lanes, l, e) \in Nat
    BY <1>2, LaneBounds DEF SliceEnd, Least
  <1> QED BY <1>1, <1>2, <1>3 DEF Greatest

\* Some lane has something to do in every chunk.
LEMMA ChunkNotEmpty ==
    ASSUME TypeOK, NEW b \in Nat, NEW e \in Nat, b < e, e <= N
    PROVE  \E l \in Lanes : Reached(N, lanes, l, b) < Reached(N, lanes, l, e)
  <1>1. lanes \in Nat \ {0} /\ N \in Nat \ {0} /\ Lanes = 0..(lanes - 1) /\ b \in 0..(N - 1)
    BY Basics
  <1>2. PICK l \in Lanes : RfLaneBegin(N, lanes, l) <= b /\ b < RfLaneEnd(N, lanes, l)
    BY <1>1, SomeLane
  <1> DEFINE f == RfLaneBegin(N, lanes, l)
             g == RfLaneEnd(N, lanes, l)
  <1>3. f \in Nat /\ g \in Nat /\ f <= b /\ b < g
    BY <1>1, <1>2, LaneBounds
  <1>4. Reached(N, lanes, l, b) = Least(g, Greatest(f, b)) /\ Reached(N, lanes, l, e) = Least(g, Greatest(f, e))
    BY DEF Reached
  <1> HIDE DEF f, g
  <1>5. Least(g, Greatest(f, b)) < Least(g, Greatest(f, e))
    BY <1>3 DEF Least, Greatest
  <1> QED BY <1>4, <1>5

\* Nobody takes what has not been given.
LEMMA TakenGiven ==
    ASSUME TypeOK, Flow, NEW p \in Procs, NEW l \in Lanes, pc[p] # "failed",
           pc[Peer(p)] # "failed"
    PROVE  /\ Taken(p, l) <= Given(Peer(p), l)
           /\ wire[Peer(p)][l] # <<>> <=> Taken(p, l) < Given(Peer(p), l)
  <1> DEFINE w == wire[Peer(p)][l]
  <1>1. w \in Seq(Ciphertexts)
    BY Peers DEF TypeOK
  <1>2. Given(Peer(p), l) = Taken(p, l) + Len(w)
    BY DEF Flow, Aligned
  <1>3. Taken(p, l) \in Nat
    BY CursorBounds
  <1> HIDE DEF w
  <1>4. Len(w) \in Nat /\ (w = <<>> <=> Len(w) = 0)
    BY <1>1
  <1>5. w # <<>> <=> Taken(p, l) < Given(Peer(p), l)
    BY <1>2, <1>3, <1>4
  <1>6. Taken(p, l) <= Given(Peer(p), l)
    BY <1>2, <1>3, <1>4
  <1> QED BY <1>5, <1>6 DEF w

\* Where everything below i is done.
At(l, i) == Reached(N, lanes, l, i)

\* The places of a transfer of p: what it does first in a round, and then.
First(p) == IF p = Receiver THEN "send" ELSE "recv"
Second(p) == IF p = Receiver THEN "recv" ELSE "send"

\* The cursors of p in each place: the lead moves through the chunk, then the
\* other one does.
LEMMA Table ==
    ASSUME TypeOK, NEW p \in Procs, NEW l \in Lanes, Placed(p)
    PROVE  LET b == At(l, begin[p])
               e == At(l, End(p))
               g == Given(p, l)
               t == Taken(p, l)
           IN  /\ b \in Nat /\ e \in Nat /\ g \in Nat /\ t \in Nat /\ At(l, N) \in Nat
               /\ b <= e /\ e <= At(l, N) /\ At(l, N) = RfLaneEnd(N, lanes, l)
               /\ pc[p] \in {"setup", "work"} => g = b /\ t = b
               /\ p = Receiver /\ pc[p] = "send" =>
                    t = b /\ b <= g /\ g <= e /\ (LaneDone(p, l) <=> g = e)
               /\ p = Receiver /\ pc[p] = "recv" =>
                    g = e /\ b <= t /\ t <= e /\ (LaneDone(p, l) <=> t = e)
               /\ p = Sender /\ pc[p] = "recv" =>
                    g = b /\ b <= t /\ t <= e /\ (LaneDone(p, l) <=> t = e)
               /\ p = Sender /\ pc[p] = "send" =>
                    t = e /\ b <= g /\ g <= e /\ (LaneDone(p, l) <=> g = e)
               /\ pc[p] \in {"ack", "done"} => g = At(l, N) /\ t = At(l, N)
  <1> DEFINE b == At(l, begin[p])
             e == At(l, End(p))
             g == Given(p, l)
             t == Taken(p, l)
             q == At(l, pos[p][l])
  <1>1. /\ lanes \in Nat \ {0} /\ N \in Nat \ {0} /\ l \in 0..(lanes - 1)
        /\ begin[p] \in Nat /\ End(p) \in Nat /\ begin[p] <= End(p) /\ End(p) <= N
        /\ pos[p][l] \in Nat
    BY Basics
  <1>2. /\ b \in Nat /\ e \in Nat /\ q \in Nat /\ At(l, N) \in Nat /\ b <= e /\ e <= At(l, N)
        /\ At(l, N) = RfLaneEnd(N, lanes, l)
    BY <1>1, ReachedEnds DEF At
  <1>3. g \in Nat /\ t \in Nat
    BY CursorBounds
  <1>4. pc[p] \in {"setup", "work"} => g = b /\ t = b
    BY DEF Given, Taken, At
  <1>5. pc[p] \in {"ack", "done"} => g = At(l, N) /\ t = At(l, N)
    BY <1>2 DEF Given, Taken
  <1>6. /\ pc[p] = "send" => g = q
        /\ pc[p] = "recv" => t = q
        /\ p = Receiver /\ pc[p] = "send" => t = b
        /\ p = Receiver /\ pc[p] = "recv" => g = e
        /\ p = Sender /\ pc[p] = "recv" => g = b
        /\ p = Sender /\ pc[p] = "send" => t = e
    BY Peers DEF Given, Taken, At
  <1>7. pc[p] \in {"send", "recv"} => b <= q /\ q <= e /\ (LaneDone(p, l) <=> q = e)
    <2>1. ASSUME pc[p] \in {"send", "recv"}
          PROVE  b <= q /\ q <= e /\ (LaneDone(p, l) => q = e)
      BY <2>1, LaneFacts DEF At
    <2>2. ASSUME pc[p] \in {"send", "recv"}, ~LaneDone(p, l)
          PROVE  q = pos[p][l] /\ pos[p][l] + 1 <= e
      BY <2>2, LaneFacts DEF At
    <2> HIDE DEF b, q, e
    <2> QED BY <1>1, <1>2, <2>1, <2>2
  <1> HIDE DEF b, e, g, t, q
  <1>8. /\ p = Receiver /\ pc[p] = "send" =>
             t = b /\ b <= g /\ g <= e /\ (LaneDone(p, l) <=> g = e)
        /\ p = Receiver /\ pc[p] = "recv" =>
             g = e /\ b <= t /\ t <= e /\ (LaneDone(p, l) <=> t = e)
        /\ p = Sender /\ pc[p] = "recv" =>
             g = b /\ b <= t /\ t <= e /\ (LaneDone(p, l) <=> t = e)
        /\ p = Sender /\ pc[p] = "send" =>
             t = e /\ b <= g /\ g <= e /\ (LaneDone(p, l) <=> g = e)
    BY <1>6, <1>7
  <1> QED BY <1>2, <1>3, <1>4, <1>5, <1>8 DEF b, e, g, t

-------------------------------------------------------------------------------
(***************************************************************************)
(* Frames.                                                                 *)
(***************************************************************************)
\* Only process p moves.
Moves(p) ==
    /\ whole' = whole /\ lanes' = lanes /\ chunk' = chunk /\ validate' = validate
    /\ \A q \in Procs : q # p => pc'[q] = pc[q] /\ begin'[q] = begin[q] /\ pos'[q] = pos[q]

\* What a step of p leaves as it is.
LEMMA OthersStay ==
    ASSUME NEW p \in Procs, Moves(p)
    PROVE  /\ Lanes' = Lanes
           /\ \A b : StartAt(b)' = StartAt(b)
           /\ \A q \in Procs : Size(q)' = Size(q)
           /\ \A q \in Procs : q # p =>
                /\ End(q)' = End(q) /\ \A i : InChunk(q, i)' <=> InChunk(q, i)
                /\ Placed(q) => Placed(q)'
                /\ ChunkDone(q)' <=> ChunkDone(q)
                /\ \A l : Given(q, l)' = Given(q, l) /\ Taken(q, l)' = Taken(q, l)
  <1>1. /\ Lanes' = Lanes /\ lanes' = lanes /\ chunk' = chunk /\ whole' = whole
    BY DEF Moves, Lanes
  <1>2. \A b : StartAt(b)' = StartAt(b)
    BY <1>1 DEF StartAt
  <1>3. ASSUME NEW q \in Procs, q # p
        PROVE  pc'[q] = pc[q] /\ begin'[q] = begin[q] /\ pos'[q] = pos[q]
    BY <1>3 DEF Moves
  <1>4. \A q \in Procs : Size(q)' = Size(q)
    BY <1>1 DEF Size
  <1>5. ASSUME NEW q \in Procs, q # p
        PROVE  End(q)' = End(q) /\ \A i : InChunk(q, i)' <=> InChunk(q, i)
    BY <1>3, <1>4, <1>5 DEF End, InChunk
  <1>6. ASSUME NEW q \in Procs, q # p, Placed(q)
        PROVE  Placed(q)'
    BY <1>1, <1>2, <1>3, <1>5, <1>6 DEF Placed
  <1>7. ASSUME NEW q \in Procs, q # p
        PROVE  ChunkDone(q)' <=> ChunkDone(q)
    BY <1>1, <1>3, <1>5, <1>7 DEF ChunkDone, LaneDone
  <1>8. ASSUME NEW q \in Procs, q # p, NEW l
        PROVE  Given(q, l)' = Given(q, l) /\ Taken(q, l)' = Taken(q, l)
    BY <1>1, <1>3, <1>5, <1>8 DEF Given, Taken
  <1> QED BY <1>1, <1>2, <1>4, <1>5, <1>6, <1>7, <1>8

\* The part of Flow that is about what is sent and received.
Streams == (\A q \in Procs : Placed(q) /\ Received(q) /\ Prepared(q)) /\ Aligned

\* A step of p can disturb the streams at p only.
LEMMA LocalStep ==
    ASSUME TypeOK, Flow, NEW p \in Procs, Moves(p), wire' = wire,
           \A q \in Procs : q # p => in_buf'[q] = in_buf[q] /\ out_buf'[q] = out_buf[q],
           pc[p] # "failed",
           pc'[p] = "failed" \/ \A l \in Lanes :
             Given(p, l)' = Given(p, l) /\ Taken(p, l)' = Taken(p, l),
           Placed(p)', Received(p)', Prepared(p)'
    PROVE  Streams'
  <1>1. /\ Lanes' = Lanes /\ lanes' = lanes
        /\ \A q \in Procs : q # p =>
             /\ pc'[q] = pc[q]
             /\ \A i : InChunk(q, i)' <=> InChunk(q, i)
             /\ Placed(q) => Placed(q)'
             /\ \A l : Given(q, l)' = Given(q, l) /\ Taken(q, l)' = Taken(q, l)
    BY OthersStay DEF Moves
  <1>2. (\A q \in Procs : Placed(q) /\ Received(q) /\ Prepared(q)) /\ Aligned
    BY DEF Flow
  <1>3. ASSUME NEW q \in Procs
        PROVE  Placed(q)'
    BY <1>1, <1>2
  <1>4. ASSUME NEW q \in Procs
        PROVE  Received(q)'
    <2>1. CASE q = p
      BY <2>1
    <2>2. CASE q # p
      BY <1>1, <1>2, <2>2 DEF Received
    <2> QED BY <2>1, <2>2
  <1>5. ASSUME NEW q \in Procs
        PROVE  Prepared(q)'
    <2>1. CASE q = p
      BY <2>1
    <2>2. CASE q # p
      BY <1>1, <1>2, <2>2 DEF Prepared
    <2> QED BY <2>1, <2>2
  <1>6. ASSUME NEW q \in Procs, NEW l \in Lanes, pc'[q] # "failed"
        PROVE  /\ pc[q] # "failed"
               /\ Given(q, l)' = Given(q, l) /\ Taken(q, l)' = Taken(q, l)
    BY <1>1, <1>6
  <1>7. Aligned'
    <2> SUFFICES ASSUME NEW q \in Procs, pc'[q] # "failed", NEW l \in Lanes
                 PROVE  LET w == wire[Peer(q)][l] IN
                        /\ Taken(q, l)' + Len(w) <= RfLaneEnd(N, lanes, l)
                        /\ pc'[Peer(q)] # "failed" =>
                             Given(Peer(q), l)' = Taken(q, l)' + Len(w)
                        /\ \A j \in 1..Len(w) :
                             Encrypts(w[j], Sk, Plain(Peer(q), Taken(q, l)' + j - 1))
      BY <1>1 DEF Aligned
    <2>1. Peer(q) \in Procs
      BY Peers
    <2> QED BY <1>2, <1>6, <2>1 DEF Aligned
  <1> QED BY <1>3, <1>4, <1>5, <1>7 DEF Streams

-------------------------------------------------------------------------------
(***************************************************************************)
(* Loops of equal steps stay in turn.                                      *)
(***************************************************************************)
\* The cursors of both processes, while neither has failed.
LEMMA Cursors ==
    ASSUME TypeOK, Flow, \A p \in Procs : pc[p] # "failed", NEW l \in Lanes
    PROVE  /\ Taken(Sender, l) <= Given(Receiver, l)
           /\ Taken(Receiver, l) <= Given(Sender, l)
           /\ wire[Receiver][l] # <<>> <=> Taken(Sender, l) < Given(Receiver, l)
           /\ wire[Sender][l] # <<>> <=> Taken(Receiver, l) < Given(Sender, l)
           /\ \A p \in Procs :
                /\ At(l, begin[p]) \in Nat /\ At(l, End(p)) \in Nat
                /\ Given(p, l) \in Nat /\ Taken(p, l) \in Nat
                /\ At(l, begin[p]) <= At(l, End(p))
                /\ pc[p] \in {"setup", "work"} =>
                     Given(p, l) = At(l, begin[p]) /\ Taken(p, l) = At(l, begin[p])
                /\ pc[p] \in {"ack", "done"} =>
                     Given(p, l) = At(l, N) /\ Taken(p, l) = At(l, N)
           /\ At(l, N) \in Nat
           /\ pc[Receiver] = "send" =>
                /\ Taken(Receiver, l) = At(l, begin[Receiver])
                /\ Given(Receiver, l) <= At(l, End(Receiver))
                /\ At(l, begin[Receiver]) <= Given(Receiver, l)
                /\ LaneDone(Receiver, l) <=> Given(Receiver, l) = At(l, End(Receiver))
           /\ pc[Receiver] = "recv" =>
                /\ Given(Receiver, l) = At(l, End(Receiver))
                /\ At(l, begin[Receiver]) <= Taken(Receiver, l)
                /\ Taken(Receiver, l) <= At(l, End(Receiver))
                /\ LaneDone(Receiver, l) <=> Taken(Receiver, l) = At(l, End(Receiver))
           /\ pc[Sender] = "recv" =>
                /\ Given(Sender, l) = At(l, begin[Sender])
                /\ At(l, begin[Sender]) <= Taken(Sender, l)
                /\ Taken(Sender, l) <= At(l, End(Sender))
                /\ LaneDone(Sender, l) <=> Taken(Sender, l) = At(l, End(Sender))
           /\ pc[Sender] = "send" =>
                /\ Taken(Sender, l) = At(l, End(Sender))
                /\ At(l, begin[Sender]) <= Given(Sender, l)
                /\ Given(Sender, l) <= At(l, End(Sender))
                /\ LaneDone(Sender, l) <=> Given(Sender, l) = At(l, End(Sender))
  <1>1. /\ Taken(Sender, l) <= Given(Receiver, l)
        /\ Taken(Receiver, l) <= Given(Sender, l)
        /\ wire[Receiver][l] # <<>> <=> Taken(Sender, l) < Given(Receiver, l)
        /\ wire[Sender][l] # <<>> <=> Taken(Receiver, l) < Given(Sender, l)
    BY TakenGiven, Peers
  <1>2. \A p \in Procs : Placed(p)
    BY DEF Flow
  <1> QED BY <1>1, <1>2, Table, Peers

\* Settings that agree make rounds of equal size.
LEMMA EqualEnds ==
    ASSUME TypeOK, Matched \/ whole, \A p \in Procs : Placed(p)
    PROVE  /\ Size(Receiver) = Size(Sender)
           /\ begin[Receiver] = begin[Sender] => End(Receiver) = End(Sender)
  BY DEF Matched, Size, End

\* Settings that agree, and a process that has left the setup: the loops are in
\* turn.
LEMMA TurnsHeld ==
    ASSUME Flow, Matched \/ validate \/ whole,
           NEW p \in Procs, pc[p] \notin {"setup", "failed"}
    PROVE  (Matched \/ whole) /\ InTurn
  BY DEF Flow, Sync

LEMMA NobodyFailed ==
    ASSUME InTurn
    PROVE  \A p \in Procs : pc[p] # "failed" /\ pc[p] # "setup"
  BY DEF InTurn, Sent, Procs

\* What the cursors rule out: a process that has taken a chunk its peer has not
\* given yet.
LEMMA NotAhead ==
    ASSUME TypeOK, NEW b \in Nat, NEW e \in Nat, b < e, e <= N,
           \A l \in Lanes : At(l, e) <= At(l, b)
    PROVE  FALSE
  <1>1. PICK l \in Lanes : At(l, b) < At(l, e)
    BY ChunkNotEmpty DEF At
  <1>2. At(l, b) \in Nat /\ At(l, e) \in Nat
    BY CursorBounds, Peers DEF At
  <1> QED BY <1>1, <1>2

\* Loops in turn: no ciphertexts in flight both ways, and no circular wait.
LEMMA InStep ==
    ASSUME TypeOK, Flow, Matched \/ whole, InTurn
    PROVE  ~Stuck /\ ~(InFlight(Receiver) /\ InFlight(Sender))
  <1>1. \A p \in Procs : pc[p] # "failed" /\ pc[p] # "setup" /\ Placed(p)
    BY NobodyFailed DEF Flow
  <1>2. /\ Size(Receiver) = Size(Sender)
        /\ begin[Receiver] = begin[Sender] => End(Receiver) = End(Sender)
    BY <1>1, EqualEnds
  <1>3. /\ Cap \in Nat \ {0} /\ Receiver \in Procs /\ Sender \in Procs /\ Receiver # Sender
        /\ Peer(Receiver) = Sender /\ Peer(Sender) = Receiver
    BY DirectConstants, Peers
  <1>4. \A l \in Lanes : \A p \in Procs : Len(wire[p][l]) = Cap => wire[p][l] # <<>>
    BY <1>3
  <1>5. /\ Stuck => Blocked(Receiver) /\ Blocked(Sender)
        /\ Blocked(Receiver) =>
             \/ /\ pc[Receiver] = "send"
                /\ \E l \in Lanes : ~LaneDone(Receiver, l) /\ wire[Receiver][l] # <<>>
             \/ /\ pc[Receiver] = "recv"
                /\ \E l \in Lanes : ~LaneDone(Receiver, l) /\ wire[Sender][l] = <<>>
                /\ \A l \in Lanes : LaneDone(Receiver, l) \/ wire[Sender][l] = <<>>
        /\ Blocked(Sender) =>
             \/ /\ pc[Sender] = "send"
                /\ \E l \in Lanes : ~LaneDone(Sender, l) /\ wire[Sender][l] # <<>>
             \/ /\ pc[Sender] = "recv"
                /\ \E l \in Lanes : ~LaneDone(Sender, l) /\ wire[Receiver][l] = <<>>
                /\ \A l \in Lanes : LaneDone(Sender, l) \/ wire[Receiver][l] = <<>>
             \/ pc[Sender] = "ack"
    BY <1>3, <1>4 DEF Stuck, Blocked, ChunkDone
  <1>6. CASE /\ pc[Sender] \in {"work", "recv"} /\ pc[Receiver] \in {"work", "send", "recv"}
             /\ begin[Receiver] = begin[Sender]
    <2>1. ~InFlight(Sender)
      BY <1>1, <1>3, <1>6, Cursors DEF InFlight
    <2>2. ~Stuck
      BY <1>1, <1>2, <1>3, <1>5, <1>6, Cursors
    <2> QED BY <2>1, <2>2
  <1>7. CASE pc[Sender] \in {"work", "recv"} /\ Sent /\ End(Receiver) = begin[Sender]
    <2>1. ~InFlight(Receiver)
      BY <1>1, <1>3, <1>7, Cursors DEF InFlight, Sent, ChunkDone
    <2>2. pc[Receiver] = "recv" => \A l \in Lanes : wire[Sender][l] = <<>> => LaneDone(Receiver, l)
      BY <1>1, <1>3, <1>7, Cursors
    <2>3. ~Blocked(Receiver)
      BY <1>5, <1>7, <2>2 DEF Sent, ChunkDone
    <2>4. ~Stuck
      BY <1>5, <2>3
    <2> QED BY <2>1, <2>4
  <1>8. CASE pc[Sender] = "send" /\ Sent /\ begin[Receiver] = begin[Sender]
    <2>1. ~InFlight(Receiver)
      BY <1>1, <1>2, <1>3, <1>8, Cursors DEF InFlight, Sent, ChunkDone
    <2>2. ~Stuck
      BY <1>1, <1>2, <1>3, <1>5, <1>8, Cursors DEF Sent, ChunkDone
    <2> QED BY <2>1, <2>2
  <1>9. CASE /\ pc[Sender] = "send" /\ ChunkDone(Sender)
             /\ \/ pc[Receiver] \in {"work", "send", "recv"} /\ begin[Receiver] = End(Sender)
                \/ pc[Receiver] \in {"ack", "done"} /\ End(Sender) = N
    <2>1. ~InFlight(Sender)
      BY <1>1, <1>3, <1>9, Cursors DEF InFlight, ChunkDone
    <2>2. ~Stuck
      BY <1>5, <1>9 DEF ChunkDone
    <2> QED BY <2>1, <2>2
  <1>10. CASE /\ pc[Sender] \in {"ack", "done"}
              /\ (Sent /\ End(Receiver) = N) \/ pc[Receiver] \in {"ack", "done"}
    <2>1. ~InFlight(Receiver)
      BY <1>1, <1>3, <1>10, Cursors DEF InFlight, Sent, ChunkDone
    <2>2. ~Stuck
      BY <1>1, <1>3, <1>5, <1>10, Cursors DEF Sent, ChunkDone
    <2> QED BY <2>1, <2>2
  <1> QED BY <1>6, <1>7, <1>8, <1>9, <1>10 DEF InTurn

LEMMA FlowInStep == TypeOK /\ Flow => LockStep
  <1> SUFFICES ASSUME TypeOK, Flow, Matched \/ validate \/ whole
               PROVE  ~Stuck /\ ~(InFlight(Receiver) /\ InFlight(Sender))
    BY DEF LockStep
  <1>1. Receiver \in Procs /\ Sender \in Procs
    BY Peers
  <1>2. CASE \A p \in Procs : pc[p] = "setup"
    <2>1. begin[Receiver] = 0 /\ begin[Sender] = 0
      BY <1>1, <1>2 DEF Flow, Placed
    <2>2. ~InFlight(Receiver)
      BY <1>1, <1>2, <2>1, Cursors DEF InFlight
    <2> QED BY <1>1, <1>2, <2>2 DEF Stuck, Blocked
  <1>3. CASE \A p \in Procs : pc[p] = "failed" /\ ~InFlight(p)
    BY <1>1, <1>3 DEF Stuck, Blocked
  <1>4. CASE (Matched \/ whole) /\ InTurn
    BY <1>4, InStep
  <1> QED BY <1>2, <1>3, <1>4 DEF Flow, Sync

-------------------------------------------------------------------------------
(***************************************************************************)
(* Turns: p goes on to the next transfer, of this chunk or of the next one.*)
(***************************************************************************)
Course(p, next, b) ==
    \/ pc[p] = "work" /\ next = First(p) /\ b = begin[p]
    \/ pc[p] = First(p) /\ ChunkDone(p) /\ next = Second(p) /\ b = begin[p]
    \/ /\ pc[p] = Second(p) /\ ChunkDone(p) /\ End(p) < N /\ b = End(p)
       /\ next = (IF p = Receiver THEN "work" ELSE "recv")
    \/ /\ pc[p] = Second(p) /\ ChunkDone(p) /\ End(p) = N /\ b = 0
       /\ next = (IF whole THEN "done" ELSE "ack")

\* A turn moves no cursor.
LEMMA TurnKeeps ==
    ASSUME TypeOK, Flow, NEW p \in Procs, NEW next, NEW b,
           Course(p, next, b), Turn(p, next, b), UNCHANGED Settings
    PROVE  /\ Moves(p) /\ pc[p] # "failed" /\ pc'[p] # "failed"
           /\ pc'[p] = next /\ begin'[p] = b
           /\ pc' \in [Procs -> Places] /\ begin' \in [Procs -> Index]
           /\ pos' \in [Procs -> [Lanes -> 0..N]]
           /\ \A l \in Lanes : Given(p, l)' = Given(p, l) /\ Taken(p, l)' = Taken(p, l)
           /\ Placed(p)' /\ Received(p)'
           /\ b = begin[p] => (End(p)' = End(p) /\ \A i : InChunk(p, i)' <=> InChunk(p, i))
  <1>1. /\ pc \in [Procs -> Places] /\ begin \in [Procs -> Index]
        /\ pos \in [Procs -> [Lanes -> 0..N]] /\ N \in Nat \ {0} /\ lanes \in Nat \ {0}
        /\ Placed(p) /\ begin[p] \in Nat /\ begin[p] < N /\ End(p) \in Nat /\ Lanes = 0..(lanes - 1)
        /\ begin[p] + Size(p) >= N => End(p) = N
    BY Basics DEF TypeOK, Flow
  <1>2. /\ whole' = whole /\ lanes' = lanes /\ chunk' = chunk /\ validate' = validate
        /\ pc' = [pc EXCEPT ![p] = next] /\ begin' = [begin EXCEPT ![p] = b]
        /\ pos' = [pos EXCEPT ![p] = StartAt(b)]
    BY DEF Settings, Turn
  <1>3. b \in Index /\ b \in Nat /\ b < N /\ b <= N /\ next \in {"work", "send", "recv", "ack", "done"}
    BY <1>1 DEF Course, Index, First, Second
  <1>4. StartAt(b) \in [Lanes -> 0..N]
    BY <1>3, StartFacts
  <1>5. /\ pc'[p] = next /\ begin'[p] = b /\ pos'[p] = StartAt(b)
        /\ \A q \in Procs : q # p => pc'[q] = pc[q] /\ begin'[q] = begin[q] /\ pos'[q] = pos[q]
    BY <1>1, <1>2
  <1>6. /\ pc' \in [Procs -> Places] /\ begin' \in [Procs -> Index]
        /\ pos' \in [Procs -> [Lanes -> 0..N]]
    BY <1>1, <1>2, <1>3, <1>4 DEF Places
  <1>7. Moves(p)
    BY <1>2, <1>5 DEF Moves
  <1>8. Lanes' = Lanes /\ StartAt(b)' = StartAt(b) /\ Size(p)' = Size(p)
    BY <1>7, OthersStay
  <1>9. End(p)' = Least(N, b + Size(p))
    BY <1>5, <1>8 DEF End
  <1>10. b = begin[p] => (End(p)' = End(p) /\ \A i : InChunk(p, i)' <=> InChunk(p, i))
    BY <1>5, <1>9 DEF End, InChunk
  <1>11. ASSUME NEW l \in Lanes
         PROVE  At(l, StartAt(b)[l]) = At(l, b) /\ At(l, N) = RfLaneEnd(N, lanes, l)
    BY <1>3, StartFacts DEF At
  <1>12. ASSUME NEW l \in Lanes
         PROVE  Given(p, l)' = Given(p, l) /\ Taken(p, l)' = Taken(p, l)
    <2>1. /\ Given(p, l)' =
               IF next \in {"ack", "done"} THEN At(l, N)
               ELSE IF next = "send" THEN At(l, b)
               ELSE IF next = "recv" /\ p = Receiver THEN At(l, End(p)') ELSE At(l, b)
          /\ Taken(p, l)' =
               IF next \in {"ack", "done"} THEN At(l, N)
               ELSE IF next = "recv" THEN At(l, b)
               ELSE IF next = "send" /\ p = Sender THEN At(l, End(p)') ELSE At(l, b)
      BY <1>2, <1>5, <1>11 DEF Given, Taken, At
    <2>2. CASE pc[p] = "work" /\ next = First(p) /\ b = begin[p]
      BY <1>1, <1>10, <2>1, <2>2, Table, Peers DEF First
    <2>a. pc[p] = First(p) /\ ChunkDone(p) =>
            /\ p = Receiver => Given(p, l) = At(l, End(p)) /\ Taken(p, l) = At(l, begin[p])
            /\ p = Sender => Taken(p, l) = At(l, End(p)) /\ Given(p, l) = At(l, begin[p])
      BY <1>1, Table, Peers DEF First, ChunkDone
    <2>b. pc[p] = Second(p) /\ ChunkDone(p) =>
            Given(p, l) = At(l, End(p)) /\ Taken(p, l) = At(l, End(p))
      BY <1>1, Table, Peers DEF Second, ChunkDone
    <2>3. CASE pc[p] = First(p) /\ ChunkDone(p) /\ next = Second(p) /\ b = begin[p]
      BY <1>10, <2>1, <2>3, <2>a, Peers DEF Second
    <2>4. CASE /\ pc[p] = Second(p) /\ ChunkDone(p) /\ End(p) < N /\ b = End(p)
               /\ next = (IF p = Receiver THEN "work" ELSE "recv")
      BY <2>1, <2>4, <2>b, Peers DEF Second
    <2>5. CASE /\ pc[p] = Second(p) /\ ChunkDone(p) /\ End(p) = N /\ b = 0
               /\ next = (IF whole THEN "done" ELSE "ack")
      BY <2>1, <2>5, <2>b, Peers DEF Second
    <2> QED BY <2>2, <2>3, <2>4, <2>5 DEF Course
  <1>13. Placed(p)'
    <2>1. whole => b = 0 /\ next # "ack"
      <3>1. whole => begin[p] = 0 /\ Size(p) = N
        BY <1>1 DEF Placed, Size
      <3> QED BY <1>1, <3>1 DEF Course, First, Second
    <2>2. next = "work" /\ p = Sender => whole
      BY Peers DEF Course, First, Second
    <2>3. End(p)' \in Nat
      BY <1>1, <1>3, <1>9, Basics DEF Least, Size
    <2>4. next \in {"send", "recv"} => \A l \in Lanes :
            /\ StartAt(b)[l] <= StartAt(b)[l]
            /\ StartAt(b)[l] <= Greatest(StartAt(b)[l], SliceEnd(N, lanes, l, End(p)'))
      BY <1>3, <2>3, StartPlaced
    <2> HIDE DEF StartAt
    <2>5. \A l \in Lanes : StartAt(begin[p])'[l] = StartAt(b)[l]
      BY <1>2, <1>5, <1>8 DEF StartAt
    <2> QED BY <1>2, <1>3, <1>5, <1>8, <2>1, <2>2, <2>4, <2>5 DEF Placed
  <1>14. Received(p)'
    <2> SUFFICES ASSUME next = "recv", NEW l \in Lanes, NEW i \in Index, b <= i,
                        RfLaneBegin(N, lanes, l) <= i, i < Taken(p, l)'
                 PROVE  FALSE
      BY <1>2, <1>5, <1>8 DEF Received, InChunk
    <2>1. Taken(p, l)' = Reached(N, lanes, l, b)
      BY <1>2, <1>5, <1>11 DEF Taken, At
    <2>2. /\ RfLaneBegin(N, lanes, l) \in Nat /\ RfLaneEnd(N, lanes, l) \in Nat /\ i \in Nat
      BY <1>1, CursorBounds DEF Index
    <2>3. Reached(N, lanes, l, b) <= i
      BY <1>3, <2>2 DEF Reached, Least, Greatest
    <2> QED BY <1>3, <2>1, <2>2, <2>3, CursorBounds
  <1>15. pc[p] # "failed" /\ pc'[p] # "failed"
    BY <1>3, <1>5 DEF Course, First, Second
  <1> QED BY <1>5, <1>6, <1>7, <1>10, <1>12, <1>13, <1>14, <1>15

\* What the settings say about the two loops does not change.
LEMMA SyncKept ==
    ASSUME Flow, UNCHANGED Settings, NEW p \in Procs, pc[p] \notin {"setup", "failed"},
           (Matched \/ whole) /\ InTurn => InTurn'
    PROVE  Sync'
  <1>1. (Matched <=> Matched') /\ (whole <=> whole') /\ (validate <=> validate')
    BY DEF Matched, Settings
  <1>2. Matched \/ validate \/ whole => (Matched \/ whole) /\ InTurn
    BY TurnsHeld
  <1> QED BY <1>1, <1>2 DEF Sync

\* A receiver that turns has been answered, or has no answer to wait for.
LEMMA ReceiverInTurn ==
    ASSUME TypeOK, Flow, NEW next, NEW b, Course(Receiver, next, b), Turn(Receiver, next, b),
           UNCHANGED Settings, Matched \/ whole, InTurn
    PROVE  InTurn'
  <1> DEFINE R == Receiver
             S == Sender
  <1>1. /\ R \in Procs /\ S \in Procs /\ R # S
        /\ \A p \in Procs : pc[p] # "failed" /\ pc[p] # "setup" /\ Placed(p)
    BY Peers, NobodyFailed DEF Flow
  <1>2. /\ pc'[R] = next /\ begin'[R] = b
        /\ b = begin[R] => End(R)' = End(R)
        /\ pc'[S] = pc[S] /\ begin'[S] = begin[S] /\ End(S)' = End(S)
        /\ ChunkDone(S)' <=> ChunkDone(S)
    BY <1>1, TurnKeeps, OthersStay DEF Moves
  <1>3. /\ \A p \in Procs : begin[p] \in Nat /\ begin[p] < N /\ End(p) \in Nat
                           /\ begin[p] < End(p) /\ End(p) <= N
        /\ begin[R] = begin[S] => End(R) = End(S)
        /\ N \in Nat
    BY <1>1, Basics, EqualEnds
  <1>4. /\ First(R) = "send" /\ Second(R) = "recv"
    BY DEF First, Second
  <1>5. CASE pc[R] = "work" /\ next = "send" /\ b = begin[R]
    BY <1>1, <1>2, <1>5 DEF InTurn, Sent
  <1>6. CASE pc[R] = "send" /\ ChunkDone(R) /\ next = "recv" /\ b = begin[R]
    BY <1>1, <1>2, <1>6 DEF InTurn, Sent
  <1>7. ASSUME pc[R] = "recv", ChunkDone(R)
        PROVE  /\ ~(pc[S] \in {"work", "recv"} /\ begin[R] = begin[S])
               /\ ~(pc[S] = "send" /\ ChunkDone(S) /\ begin[R] = End(S))
               /\ pc[S] = "send" /\ begin[R] = begin[S] => ChunkDone(S)
    <2>1. \A l \in Lanes : Taken(R, l) = At(l, End(R))
      BY <1>1, <1>7, Cursors DEF ChunkDone
    <2>2. ASSUME pc[S] \in {"work", "recv"}, begin[R] = begin[S]
          PROVE  \A l \in Lanes : At(l, End(R)) <= At(l, begin[R])
      BY <1>1, <2>1, <2>2, Cursors
    <2>3. ASSUME pc[S] = "send", ChunkDone(S), begin[R] = End(S)
          PROVE  \A l \in Lanes : At(l, End(R)) <= At(l, begin[R])
      BY <1>1, <2>1, <2>3, Cursors DEF ChunkDone
    <2>4. ASSUME pc[S] = "send", begin[R] = begin[S]
          PROVE  ChunkDone(S)
      BY <1>1, <1>3, <2>1, <2>4, Cursors DEF ChunkDone
    <2> QED BY <1>1, <1>3, <2>2, <2>3, <2>4, NotAhead
  <1>8. CASE pc[R] = "recv" /\ ChunkDone(R) /\ End(R) < N /\ b = End(R) /\ next = "work"
    BY <1>1, <1>2, <1>3, <1>7, <1>8 DEF InTurn, Sent
  <1>9. CASE /\ pc[R] = "recv" /\ ChunkDone(R) /\ End(R) = N /\ b = 0
             /\ next \in {"ack", "done"}
    BY <1>1, <1>2, <1>3, <1>7, <1>9 DEF InTurn, Sent
  <1> QED BY <1>4, <1>5, <1>6, <1>8, <1>9 DEF Course

\* A sender that turns has been sent the chunk it answers.
LEMMA SenderInTurn ==
    ASSUME TypeOK, Flow, NEW next, NEW b, Course(Sender, next, b), Turn(Sender, next, b),
           UNCHANGED Settings, Matched \/ whole, InTurn
    PROVE  InTurn'
  <1> DEFINE R == Receiver
             S == Sender
  <1>1. /\ R \in Procs /\ S \in Procs /\ R # S
        /\ \A p \in Procs : pc[p] # "failed" /\ pc[p] # "setup" /\ Placed(p)
    BY Peers, NobodyFailed DEF Flow
  <1>2. /\ pc'[S] = next /\ begin'[S] = b
        /\ b = begin[S] => End(S)' = End(S)
        /\ pc'[R] = pc[R] /\ begin'[R] = begin[R] /\ End(R)' = End(R)
        /\ ChunkDone(R)' <=> ChunkDone(R)
    BY <1>1, TurnKeeps, OthersStay DEF Moves
  <1>3. /\ \A p \in Procs : begin[p] \in Nat /\ begin[p] < N /\ End(p) \in Nat
                           /\ begin[p] < End(p) /\ End(p) <= N
        /\ begin[R] = begin[S] => End(R) = End(S)
        /\ N \in Nat
    BY <1>1, Basics, EqualEnds
  <1>4. First(S) = "recv" /\ Second(S) = "send"
    BY <1>1 DEF First, Second
  <1>5. CASE pc[S] = "work" /\ next = "recv" /\ b = begin[S]
    BY <1>1, <1>2, <1>5 DEF InTurn, Sent
  <1>6. CASE pc[S] = "recv" /\ ChunkDone(S) /\ next = "send" /\ b = begin[S]
    <2>1. \A l \in Lanes : Taken(S, l) = At(l, End(S))
      BY <1>1, <1>6, Cursors DEF ChunkDone
    <2>2. ASSUME pc[R] = "work", begin[R] = begin[S]
          PROVE  \A l \in Lanes : At(l, End(S)) <= At(l, begin[S])
      BY <1>1, <2>1, <2>2, Cursors
    <2>3. ASSUME Sent, End(R) = begin[S]
          PROVE  \A l \in Lanes : At(l, End(S)) <= At(l, begin[S])
      BY <1>1, <2>1, <2>3, Cursors DEF Sent, ChunkDone
    <2>4. ASSUME pc[R] = "send", begin[R] = begin[S]
          PROVE  ChunkDone(R)
      BY <1>1, <1>3, <2>1, <2>4, Cursors DEF ChunkDone
    <2>5. ~(pc[R] = "work" /\ begin[R] = begin[S]) /\ ~(Sent /\ End(R) = begin[S])
      BY <1>1, <1>3, <2>2, <2>3, NotAhead
    <2>6. begin[R] = begin[S] /\ Sent
      BY <1>6, <2>4, <2>5 DEF InTurn, Sent
    <2> QED BY <1>1, <1>2, <1>6, <2>6 DEF InTurn, Sent
  <1>7. CASE pc[S] = "send" /\ ChunkDone(S) /\ End(S) < N /\ b = End(S) /\ next = "recv"
    BY <1>1, <1>2, <1>3, <1>7 DEF InTurn, Sent
  <1>8. CASE /\ pc[S] = "send" /\ ChunkDone(S) /\ End(S) = N /\ b = 0
             /\ next \in {"ack", "done"}
    BY <1>1, <1>2, <1>3, <1>8 DEF InTurn, Sent
  <1> QED BY <1>1, <1>4, <1>5, <1>6, <1>7, <1>8 DEF Course

LEMMA TurnSync ==
    ASSUME TypeOK, Flow, NEW p \in Procs, NEW next, NEW b,
           Course(p, next, b), Turn(p, next, b), UNCHANGED Settings
    PROVE  Sync'
  <1>1. pc[p] \notin {"setup", "failed"}
    BY DEF Course, First, Second
  <1>2. (Matched \/ whole) /\ InTurn => InTurn'
    BY ReceiverInTurn, SenderInTurn, Peers
  <1> QED BY <1>1, <1>2, SyncKept

-------------------------------------------------------------------------------
(***************************************************************************)
(* What processes compute.                                                 *)
(***************************************************************************)
LEMMA Inputs ==
    ASSUME NEW i \in Index
    PROVE  /\ X[i] \in Residues /\ A[i] \in Residues /\ B[i] \in Residues /\ Sk \in Int
           /\ \A p \in Procs : Coin[p][i] \in Int
           /\ Result(i) \in Residues /\ Result(i) # Unknown
  <1>1. /\ X[i] \in Residues /\ A[i] \in Residues /\ B[i] \in Residues /\ Sk \in Int
        /\ \A p \in Procs : Coin[p][i] \in Int
    BY DirectInputs
  <1>2. Q \in Nat \ {0}
    BY QAssumption
  <1>3. \A n \in Int : n % Q \in Residues
    BY <1>2 DEF Residues
  <1>4. A[i] \in Int /\ X[i] \in Int /\ B[i] \in Int
    BY <1>1 DEF Residues
  <1>5. A[i] * X[i] \in Int
    BY <1>4
  <1>6. Result(i) \in Residues
    BY <1>3, <1>4, <1>5 DEF Result
  <1>7. Unknown \notin Residues
    BY <1>2 DEF Unknown, Residues
  <1> QED BY <1>1, <1>6, <1>7

\* A process that has received a chunk holds all of it.
LEMMA ChunkHeld ==
    ASSUME TypeOK, Flow, NEW p \in Procs, pc[p] = "recv", ChunkDone(p), NEW i \in Index,
           InChunk(p, i)
    PROVE  in_buf[p][i] \in Ciphertexts /\ Encrypts(in_buf[p][i], Sk, Plain(Peer(p), i))
  <1>1. /\ lanes \in Nat \ {0} /\ N \in Nat \ {0} /\ Lanes = 0..(lanes - 1)
        /\ i \in Nat /\ i \in 0..(N - 1) /\ End(p) \in Nat /\ i < End(p)
    BY Basics DEF Index, InChunk
  <1>2. PICK l \in Lanes : RfLaneBegin(N, lanes, l) <= i /\ i < RfLaneEnd(N, lanes, l)
    BY <1>1, SomeLane
  <1>3. Taken(p, l) = Reached(N, lanes, l, pos[p][l])
    BY DEF Taken
  <1>4. Reached(N, lanes, l, pos[p][l]) = Reached(N, lanes, l, End(p))
    BY LaneFacts DEF ChunkDone, Flow
  <1>5. i < Reached(N, lanes, l, End(p))
    BY <1>1, <1>2, CursorBounds DEF Reached, Least, Greatest
  <1>6. Received(p)
    BY DEF Flow
  <1>7. in_buf[p][i] \in Ciphertexts
    BY DEF TypeOK
  <1> QED BY <1>2, <1>3, <1>4, <1>5, <1>6, <1>7 DEF Received

\* A turn preserves the invariant if what it computes is right.
LEMMA TurnStep ==
    ASSUME TypeOK, Flow, NEW p \in Procs, NEW next, NEW b,
           Course(p, next, b), Turn(p, next, b), UNCHANGED <<Settings, wire, ack>>,
           \A q \in Procs : q # p => in_buf'[q] = in_buf[q] /\ out_buf'[q] = out_buf[q],
           in_buf' \in [Procs -> [Index -> Ciphertexts]],
           out_buf' \in [Procs -> [Index -> Ciphertexts]],
           y_vals' \in [Index -> Residues \cup {Unknown, Garbage}],
           Prepared(p)', Kept', OutputsCorrect'
    PROVE  TypeOK' /\ Flow'
  <1>1. UNCHANGED Settings /\ wire' = wire /\ ack' = ack
    OBVIOUS
  <1>2. /\ Moves(p) /\ pc[p] # "failed"
        /\ pc' \in [Procs -> Places] /\ begin' \in [Procs -> Index]
        /\ pos' \in [Procs -> [Lanes -> 0..N]]
        /\ \A l \in Lanes : Given(p, l)' = Given(p, l) /\ Taken(p, l)' = Taken(p, l)
        /\ Placed(p)' /\ Received(p)'
    BY <1>1, TurnKeeps
  <1>3. Streams'
    BY <1>1, <1>2, LocalStep
  <1>4. Sync'
    BY <1>1, TurnSync
  <1>5. /\ whole' \in Wholes /\ lanes' \in LaneCounts /\ chunk' \in [Procs -> ChunkSizes]
        /\ validate' \in Validate /\ ack' \in BOOLEAN
        /\ wire' \in [Procs -> [Lanes -> Seq(Ciphertexts)]] /\ Lanes' = Lanes
    BY <1>1 DEF Settings, TypeOK, Lanes
  <1>6. TypeOK'
    BY <1>2, <1>5 DEF TypeOK
  <1>7. Flow'
    BY <1>3, <1>4 DEF Flow, Streams
  <1> QED BY <1>6, <1>7

\* A turn that stores no outputs and sends no acknowledgement.
LEMMA QuietTurn ==
    ASSUME TypeOK, Flow, NEW p \in Procs, NEW next, NEW b,
           Course(p, next, b), Turn(p, next, b), UNCHANGED <<Settings, ack, y_vals>>,
           p = Receiver => next \in {"send", "recv"} /\ out_buf'[Sender] = out_buf[Sender],
           p = Sender /\ whole /\ next = "recv" =>
             out_buf'[Sender] = [i \in Index |-> Encrypt(Sk, B[i], Coin[Sender][i])]
    PROVE  Kept' /\ OutputsCorrect'
  <1>1. UNCHANGED Settings /\ ack' = ack /\ y_vals' = y_vals /\ whole' = whole
    BY DEF Settings
  <1>2. /\ pc'[p] = next /\ begin'[p] = b
        /\ \A q \in Procs : q # p => pc'[q] = pc[q] /\ begin'[q] = begin[q]
    BY <1>1, TurnKeeps DEF Moves
  <1>3. Kept /\ OutputsCorrect
    BY DEF Flow
  <1>4. CASE p = Receiver
    <2>1. pc[Receiver] \in {"work", "send"} /\ b = begin[Receiver]
      BY <1>4 DEF Course, First, Second
    <2>2. pc'[Sender] = pc[Sender] /\ pc'[Receiver] \in {"send", "recv"}
      BY <1>2, <1>4, Peers
    <2>3. begin'[Receiver] = begin[Receiver] /\ out_buf'[Sender] = out_buf[Sender]
      BY <1>2, <1>4, <2>1
    <2>4. Kept'
      BY <1>1, <1>3, <2>1, <2>2, <2>3 DEF Kept
    <2>5. OutputsCorrect'
      BY <1>1, <1>3, <2>2 DEF OutputsCorrect
    <2> QED BY <2>4, <2>5
  <1>5. CASE p = Sender
    <2>1. pc'[Receiver] = pc[Receiver] /\ begin'[Receiver] = begin[Receiver] /\ pc'[Sender] = next
      BY <1>2, <1>5, Peers
    <2>2. next = "done" => whole
      BY <1>5, Peers DEF Course, First, Second
    <2>3. whole /\ next = "recv" =>
            out_buf'[Sender] = [i \in Index |-> Encrypt(Sk, B[i], Coin[Sender][i])]
      BY <1>5
    <2>4. Kept'
      BY <1>1, <1>3, <2>1, <2>2, <2>3 DEF Kept
    <2>5. OutputsCorrect'
      BY <1>1, <1>3, <2>1 DEF OutputsCorrect
    <2> QED BY <2>4, <2>5
  <1> QED BY <1>4, <1>5, Peers

-------------------------------------------------------------------------------
(***************************************************************************)
(* One lemma per action.                                                   *)
(***************************************************************************)
\* A turn to sending what has been prepared in out_buf.
LEMMA PreparedTurn ==
    ASSUME TypeOK, Flow, NEW p \in Procs, NEW next, NEW b,
           Course(p, next, b), Turn(p, next, b), UNCHANGED Settings,
           next = "send" => /\ b = begin[p]
                            /\ \A i \in Index : InChunk(p, i) =>
                                 Encrypts(out_buf'[p][i], Sk, Plain(p, i))
    PROVE  Prepared(p)'
  <1>1. /\ pc'[p] = next
        /\ b = begin[p] => \A i : InChunk(p, i)' <=> InChunk(p, i)
    BY TurnKeeps
  <1> QED BY <1>1 DEF Prepared

LEMMA ReceiverEncryptStep == TypeOK /\ Flow /\ ReceiverEncrypt => TypeOK' /\ Flow'
  <1> SUFFICES ASSUME TypeOK, Flow, ReceiverEncrypt PROVE TypeOK' /\ Flow'
    OBVIOUS
  <1>1. /\ pc[Receiver] = "work" /\ Turn(Receiver, "send", begin[Receiver])
        /\ UNCHANGED Settings /\ wire' = wire /\ ack' = ack /\ in_buf' = in_buf
        /\ y_vals' = y_vals
        /\ out_buf' = [out_buf EXCEPT ![Receiver] = [i \in Index |->
             IF InChunk(Receiver, i) THEN Encrypt(Sk, X[i], Coin[Receiver][i])
             ELSE out_buf[Receiver][i]]]
    BY DEF ReceiverEncrypt
  <1>2. Receiver \in Procs /\ Sender \in Procs /\ Receiver # Sender
    BY Peers
  <1>3. /\ out_buf \in [Procs -> [Index -> Ciphertexts]] /\ in_buf \in [Procs -> [Index -> Ciphertexts]]
        /\ y_vals \in [Index -> Residues \cup {Unknown, Garbage}]
    BY DEF TypeOK
  <1>4. \A i \in Index : /\ Encrypt(Sk, X[i], Coin[Receiver][i]) \in Ciphertexts
                         /\ Encrypts(Encrypt(Sk, X[i], Coin[Receiver][i]), Sk, X[i])
    BY <1>2, Inputs, EncryptFacts
  <1>5. out_buf' \in [Procs -> [Index -> Ciphertexts]]
    BY <1>1, <1>2, <1>3, <1>4
  <1>6. Course(Receiver, "send", begin[Receiver])
    BY <1>1 DEF Course, First
  <1>7. \A i \in Index : InChunk(Receiver, i) =>
          out_buf'[Receiver][i] = Encrypt(Sk, X[i], Coin[Receiver][i])
    BY <1>1, <1>2, <1>3
  <1>8. Prepared(Receiver)'
    BY <1>1, <1>2, <1>4, <1>6, <1>7, PreparedTurn DEF Plain
  <1>9. \A q \in Procs : q # Receiver => in_buf'[q] = in_buf[q] /\ out_buf'[q] = out_buf[q]
    BY <1>1, <1>3
  <1>10. Kept' /\ OutputsCorrect'
    BY <1>1, <1>2, <1>6, <1>9, QuietTurn
  <1> QED BY <1>1, <1>2, <1>3, <1>5, <1>6, <1>8, <1>9, <1>10, TurnStep

LEMMA BatchEncryptXStep == TypeOK /\ Flow /\ BatchEncryptX => TypeOK' /\ Flow'
  <1> SUFFICES ASSUME TypeOK, Flow, BatchEncryptX PROVE TypeOK' /\ Flow'
    OBVIOUS
  <1>1. /\ whole /\ pc[Receiver] = "work" /\ Turn(Receiver, "send", 0)
        /\ UNCHANGED Settings /\ wire' = wire /\ ack' = ack /\ in_buf' = in_buf
        /\ y_vals' = y_vals
        /\ out_buf' = [out_buf EXCEPT ![Receiver] =
             [i \in Index |-> Encrypt(Sk, X[i], Coin[Receiver][i])]]
    BY DEF BatchEncryptX
  <1>2. Receiver \in Procs /\ Sender \in Procs /\ Receiver # Sender
    BY Peers
  <1>3. /\ out_buf \in [Procs -> [Index -> Ciphertexts]] /\ in_buf \in [Procs -> [Index -> Ciphertexts]]
        /\ y_vals \in [Index -> Residues \cup {Unknown, Garbage}]
    BY DEF TypeOK
  <1>4. \A i \in Index : /\ Encrypt(Sk, X[i], Coin[Receiver][i]) \in Ciphertexts
                         /\ Encrypts(Encrypt(Sk, X[i], Coin[Receiver][i]), Sk, X[i])
    BY <1>2, Inputs, EncryptFacts
  <1>5. out_buf' \in [Procs -> [Index -> Ciphertexts]]
    BY <1>1, <1>2, <1>3, <1>4
  <1>6. 0 = begin[Receiver] /\ Course(Receiver, "send", 0)
    BY <1>1, <1>2 DEF Course, First, Flow, Placed
  <1>7. \A i \in Index : out_buf'[Receiver][i] = Encrypt(Sk, X[i], Coin[Receiver][i])
    BY <1>1, <1>2, <1>3
  <1>8. Prepared(Receiver)'
    BY <1>1, <1>2, <1>4, <1>6, <1>7, PreparedTurn DEF Plain
  <1>9. \A q \in Procs : q # Receiver => in_buf'[q] = in_buf[q] /\ out_buf'[q] = out_buf[q]
    BY <1>1, <1>3
  <1>10. Kept' /\ OutputsCorrect'
    BY <1>1, <1>2, <1>6, <1>9, QuietTurn
  <1> QED BY <1>1, <1>2, <1>3, <1>5, <1>6, <1>8, <1>9, <1>10, TurnStep

LEMMA ReceiverChunkSentStep == TypeOK /\ Flow /\ ReceiverChunkSent => TypeOK' /\ Flow'
  <1> SUFFICES ASSUME TypeOK, Flow, ReceiverChunkSent PROVE TypeOK' /\ Flow'
    OBVIOUS
  <1>1. /\ pc[Receiver] = "send" /\ ChunkDone(Receiver)
        /\ Turn(Receiver, "recv", begin[Receiver])
        /\ UNCHANGED Settings /\ wire' = wire /\ ack' = ack /\ in_buf' = in_buf
        /\ out_buf' = out_buf /\ y_vals' = y_vals
    BY DEF ReceiverChunkSent
  <1>2. Receiver \in Procs /\ Receiver # Sender
    BY Peers
  <1>3. /\ out_buf' \in [Procs -> [Index -> Ciphertexts]]
        /\ in_buf' \in [Procs -> [Index -> Ciphertexts]]
        /\ y_vals' \in [Index -> Residues \cup {Unknown, Garbage}]
    BY <1>1 DEF TypeOK
  <1>4. Course(Receiver, "recv", begin[Receiver])
    BY <1>1 DEF Course, First, Second
  <1>5. Prepared(Receiver)'
    BY <1>1, <1>2, <1>4, PreparedTurn
  <1>6. Kept' /\ OutputsCorrect'
    BY <1>1, <1>2, <1>4, QuietTurn
  <1> QED BY <1>1, <1>2, <1>3, <1>4, <1>5, <1>6, TurnStep

\* The receiver decrypts the right outputs.
LEMMA RightOutputs ==
    ASSUME TypeOK, Flow, pc[Receiver] = "recv", ChunkDone(Receiver), NEW i \in Index,
           InChunk(Receiver, i)
    PROVE  Decrypt(Sk, in_buf[Receiver][i]) = Result(i)
  <1>1. /\ in_buf[Receiver][i] \in Ciphertexts
        /\ Encrypts(in_buf[Receiver][i], Sk, Plain(Sender, i))
    BY ChunkHeld, Peers
  <1>2. Plain(Sender, i) = Result(i)
    BY Peers DEF Plain
  <1> QED BY <1>1, <1>2, Inputs, DecryptFacts

LEMMA ReceiverDecryptStep == TypeOK /\ Flow /\ ReceiverDecrypt => TypeOK' /\ Flow'
  <1> SUFFICES ASSUME TypeOK, Flow, ReceiverDecrypt PROVE TypeOK' /\ Flow'
    OBVIOUS
  <1>1. /\ ~whole /\ pc[Receiver] = "recv" /\ ChunkDone(Receiver)
        /\ NextRound(Receiver, "work")
        /\ UNCHANGED Settings /\ wire' = wire /\ ack' = ack /\ in_buf' = in_buf
        /\ out_buf' = out_buf
        /\ y_vals' = [i \in Index |->
             IF InChunk(Receiver, i) THEN Decrypt(Sk, in_buf[Receiver][i]) ELSE y_vals[i]]
    BY DEF ReceiverDecrypt
  <1>2. Receiver \in Procs /\ Sender \in Procs /\ Receiver # Sender
    BY Peers
  <1>3. /\ N \in Nat \ {0} /\ begin[Receiver] \in Nat /\ End(Receiver) \in Nat
        /\ chunk[Receiver] \in Nat /\ Size(Receiver) = chunk[Receiver]
        /\ begin[Receiver] + Size(Receiver) < N => End(Receiver) = begin[Receiver] + Size(Receiver)
        /\ begin[Receiver] + Size(Receiver) >= N => End(Receiver) = N
    BY <1>1, <1>2, Basics DEF Size
  <1>4. PICK next, b : /\ Turn(Receiver, next, b)
                       /\ \/ End(Receiver) < N /\ b = End(Receiver) /\ next = "work"
                          \/ End(Receiver) = N /\ b = 0 /\ next = "ack"
    BY <1>1, <1>3 DEF NextRound
  <1>5. Course(Receiver, next, b)
    BY <1>1, <1>4 DEF Course, Second
  <1>6. /\ pc'[Receiver] = next /\ begin'[Receiver] = b /\ pc'[Sender] = pc[Sender]
    BY <1>1, <1>2, <1>5, <1>4, TurnKeeps DEF Moves
  <1>7. \A i \in Index : y_vals'[i] = IF InChunk(Receiver, i) THEN Result(i) ELSE y_vals[i]
    BY <1>1, RightOutputs
  <1>8. y_vals' \in [Index -> Residues \cup {Unknown, Garbage}]
    <2>1. y_vals' = [i \in Index |-> IF InChunk(Receiver, i) THEN Result(i) ELSE y_vals[i]]
      BY <1>1, RightOutputs
    <2>2. y_vals \in [Index -> Residues \cup {Unknown, Garbage}]
      BY DEF TypeOK
    <2> QED BY <2>1, <2>2, Inputs
  <1>9. \A i \in Index : i < End(Receiver) => y_vals'[i] = Result(i)
    <2>1. \A i \in Index : i < begin[Receiver] => y_vals[i] = Result(i)
      BY <1>1 DEF Flow, Kept
    <2>2. \A i \in Index : i \in Nat /\ i < N
      BY <1>3 DEF Index
    <2> QED BY <1>3, <1>7, <2>1, <2>2 DEF InChunk
  <1>10. Kept'
    <2>1. ~ack
      BY <1>1 DEF Flow, Kept
    <2>2. whole' = whole
      BY <1>1 DEF Settings
    <2>3. next = "ack" => \A i \in Index : y_vals'[i] = Result(i)
      BY <1>3, <1>4, <1>9 DEF Index
    <2>4. next = "work" => \A i \in Index : i < b => y_vals'[i] = Result(i)
      BY <1>4, <1>9
    <2>5. next \in {"work", "ack"}
      BY <1>4
    <2> QED BY <1>1, <1>6, <2>1, <2>2, <2>3, <2>4, <2>5 DEF Flow, Kept
  <1>11. OutputsCorrect'
    BY <1>4, <1>6, <1>7 DEF Flow, OutputsCorrect
  <1>12. Prepared(Receiver)'
    BY <1>1, <1>2, <1>4, <1>5, PreparedTurn
  <1>13. /\ out_buf' \in [Procs -> [Index -> Ciphertexts]]
         /\ in_buf' \in [Procs -> [Index -> Ciphertexts]]
    BY <1>1 DEF TypeOK
  <1> QED BY <1>1, <1>2, <1>4, <1>5, <1>8, <1>10, <1>11, <1>12, <1>13, TurnStep

LEMMA BatchDecryptStep == TypeOK /\ Flow /\ BatchDecrypt => TypeOK' /\ Flow'
  <1> SUFFICES ASSUME TypeOK, Flow, BatchDecrypt PROVE TypeOK' /\ Flow'
    OBVIOUS
  <1>1. /\ whole /\ pc[Receiver] = "recv" /\ ChunkDone(Receiver)
        /\ Turn(Receiver, "done", 0)
        /\ UNCHANGED Settings /\ wire' = wire /\ ack' = ack /\ in_buf' = in_buf
        /\ out_buf' = out_buf
        /\ y_vals' = [i \in Index |-> Decrypt(Sk, in_buf[Receiver][i])]
    BY DEF BatchDecrypt
  <1>2. Receiver \in Procs /\ Sender \in Procs /\ Receiver # Sender
    BY Peers
  <1>3. End(Receiver) = N /\ \A i \in Index : InChunk(Receiver, i)
    <2>1. N \in Nat \ {0} /\ begin[Receiver] = 0 /\ Size(Receiver) = N
      BY <1>1, <1>2, Basics DEF Flow, Placed, Size
    <2>2. End(Receiver) = N
      BY <1>2, <2>1, Basics
    <2> QED BY <2>1, <2>2 DEF Index, InChunk
  <1>4. Course(Receiver, "done", 0)
    BY <1>1, <1>3 DEF Course, Second
  <1>5. pc'[Receiver] = "done" /\ pc'[Sender] = pc[Sender] /\ whole' = whole
    BY <1>1, <1>2, <1>4, TurnKeeps DEF Moves
  <1>6. y_vals' = [i \in Index |-> Result(i)]
    BY <1>1, <1>3, RightOutputs
  <1>7. y_vals' \in [Index -> Residues \cup {Unknown, Garbage}]
    BY <1>6, Inputs
  <1>8. Kept'
    BY <1>1, <1>5 DEF Flow, Kept
  <1>9. OutputsCorrect'
    BY <1>6 DEF OutputsCorrect
  <1>10. Prepared(Receiver)'
    BY <1>1, <1>2, <1>4, PreparedTurn
  <1>11. /\ out_buf' \in [Procs -> [Index -> Ciphertexts]]
         /\ in_buf' \in [Procs -> [Index -> Ciphertexts]]
    BY <1>1 DEF TypeOK
  <1> QED BY <1>1, <1>2, <1>4, <1>7, <1>8, <1>9, <1>10, <1>11, TurnStep

LEMMA BatchEncryptBStep == TypeOK /\ Flow /\ BatchEncryptB => TypeOK' /\ Flow'
  <1> SUFFICES ASSUME TypeOK, Flow, BatchEncryptB PROVE TypeOK' /\ Flow'
    OBVIOUS
  <1>1. /\ whole /\ pc[Sender] = "work" /\ Turn(Sender, "recv", 0)
        /\ UNCHANGED Settings /\ wire' = wire /\ ack' = ack /\ in_buf' = in_buf
        /\ y_vals' = y_vals
        /\ out_buf' = [out_buf EXCEPT ![Sender] =
             [i \in Index |-> Encrypt(Sk, B[i], Coin[Sender][i])]]
    BY DEF BatchEncryptB
  <1>2. Receiver \in Procs /\ Sender \in Procs /\ Receiver # Sender
    BY Peers
  <1>3. /\ out_buf \in [Procs -> [Index -> Ciphertexts]] /\ in_buf \in [Procs -> [Index -> Ciphertexts]]
        /\ y_vals \in [Index -> Residues \cup {Unknown, Garbage}]
    BY DEF TypeOK
  <1>4. \A i \in Index : Encrypt(Sk, B[i], Coin[Sender][i]) \in Ciphertexts
    BY <1>2, Inputs, EncryptFacts
  <1>5. out_buf' \in [Procs -> [Index -> Ciphertexts]]
    BY <1>1, <1>2, <1>3, <1>4
  <1>6. 0 = begin[Sender] /\ Course(Sender, "recv", 0)
    BY <1>1, <1>2 DEF Course, First, Flow, Placed
  <1>7. out_buf'[Sender] = [i \in Index |-> Encrypt(Sk, B[i], Coin[Sender][i])]
    BY <1>1, <1>2, <1>3
  <1>8. Prepared(Sender)'
    BY <1>1, <1>2, <1>6, PreparedTurn
  <1>9. \A q \in Procs : q # Sender => in_buf'[q] = in_buf[q] /\ out_buf'[q] = out_buf[q]
    BY <1>1, <1>3
  <1>10. Kept' /\ OutputsCorrect'
    BY <1>1, <1>2, <1>6, <1>7, QuietTurn
  <1> QED BY <1>1, <1>2, <1>3, <1>5, <1>6, <1>8, <1>9, <1>10, TurnStep

\* The sender's answer to what it has received.
LEMMA Answers ==
    ASSUME TypeOK, Flow, pc[Sender] = "recv", ChunkDone(Sender), NEW i \in Index,
           InChunk(Sender, i)
    PROVE  LET c == Add(CMult(in_buf[Sender][i], A[i]), Encrypt(Sk, B[i], Coin[Sender][i])) IN
           c \in Ciphertexts /\ Encrypts(c, Sk, Plain(Sender, i))
  <1>1. /\ in_buf[Sender][i] \in Ciphertexts
        /\ Encrypts(in_buf[Sender][i], Sk, Plain(Receiver, i))
    BY ChunkHeld, Peers
  <1>2. Plain(Receiver, i) = X[i] /\ Plain(Sender, i) = (A[i] * X[i] + B[i]) % Q
    BY Peers DEF Plain, Result
  <1>3. /\ X[i] \in Residues /\ A[i] \in Residues /\ B[i] \in Residues /\ Sk \in Int
        /\ Coin[Sender][i] \in Int
    BY Inputs, Peers
  <1> QED BY <1>1, <1>2, <1>3, EvaluateFacts

LEMMA SenderEvaluateStep == TypeOK /\ Flow /\ SenderEvaluate => TypeOK' /\ Flow'
  <1> SUFFICES ASSUME TypeOK, Flow, SenderEvaluate PROVE TypeOK' /\ Flow'
    OBVIOUS
  <1> DEFINE c(i) == Add(CMult(in_buf[Sender][i], A[i]), Encrypt(Sk, B[i], Coin[Sender][i]))
  <1>1. /\ ~whole /\ pc[Sender] = "recv" /\ ChunkDone(Sender)
        /\ Turn(Sender, "send", begin[Sender])
        /\ UNCHANGED Settings /\ wire' = wire /\ ack' = ack /\ in_buf' = in_buf
        /\ y_vals' = y_vals
        /\ out_buf' = [out_buf EXCEPT ![Sender] =
             [i \in Index |-> IF InChunk(Sender, i) THEN c(i) ELSE out_buf[Sender][i]]]
    BY DEF SenderEvaluate
  <1>2. Receiver \in Procs /\ Sender \in Procs /\ Receiver # Sender
    BY Peers
  <1>3. /\ out_buf \in [Procs -> [Index -> Ciphertexts]] /\ in_buf \in [Procs -> [Index -> Ciphertexts]]
        /\ y_vals \in [Index -> Residues \cup {Unknown, Garbage}]
    BY DEF TypeOK
  <1>4. \A i \in Index : InChunk(Sender, i) =>
          c(i) \in Ciphertexts /\ Encrypts(c(i), Sk, Plain(Sender, i))
    BY <1>1, Answers
  <1> HIDE DEF c
  <1>5. out_buf' \in [Procs -> [Index -> Ciphertexts]]
    BY <1>1, <1>2, <1>3, <1>4
  <1>6. Course(Sender, "send", begin[Sender])
    BY <1>1, <1>2 DEF Course, First, Second
  <1>7. \A i \in Index : InChunk(Sender, i) => out_buf'[Sender][i] = c(i)
    BY <1>1, <1>2, <1>3
  <1>8. Prepared(Sender)'
    BY <1>1, <1>2, <1>4, <1>6, <1>7, PreparedTurn
  <1>9. \A q \in Procs : q # Sender => in_buf'[q] = in_buf[q] /\ out_buf'[q] = out_buf[q]
    BY <1>1, <1>3
  <1>10. Kept' /\ OutputsCorrect'
    BY <1>1, <1>2, <1>6, QuietTurn
  <1> QED BY <1>1, <1>2, <1>3, <1>5, <1>6, <1>8, <1>9, <1>10, TurnStep

LEMMA BatchEvaluateStep == TypeOK /\ Flow /\ BatchEvaluate => TypeOK' /\ Flow'
  <1> SUFFICES ASSUME TypeOK, Flow, BatchEvaluate PROVE TypeOK' /\ Flow'
    OBVIOUS
  <1> DEFINE c(i) == Add(CMult(in_buf[Sender][i], A[i]), Encrypt(Sk, B[i], Coin[Sender][i]))
  <1>1. /\ whole /\ pc[Sender] = "recv" /\ ChunkDone(Sender) /\ Turn(Sender, "send", 0)
        /\ UNCHANGED Settings /\ wire' = wire /\ ack' = ack /\ in_buf' = in_buf
        /\ y_vals' = y_vals
        /\ out_buf' = [out_buf EXCEPT ![Sender] =
             [i \in Index |-> Add(CMult(in_buf[Sender][i], A[i]), out_buf[Sender][i])]]
    BY DEF BatchEvaluate
  <1>2. Receiver \in Procs /\ Sender \in Procs /\ Receiver # Sender
    BY Peers
  <1>3. /\ out_buf \in [Procs -> [Index -> Ciphertexts]] /\ in_buf \in [Procs -> [Index -> Ciphertexts]]
        /\ y_vals \in [Index -> Residues \cup {Unknown, Garbage}]
    BY DEF TypeOK
  <1>4. 0 = begin[Sender] /\ \A i \in Index : InChunk(Sender, i)
    <2>1. N \in Nat \ {0} /\ begin[Sender] = 0 /\ Size(Sender) = N
      BY <1>1, <1>2, Basics DEF Flow, Placed, Size
    <2>2. End(Sender) = N
      BY <1>2, <2>1, Basics
    <2> QED BY <2>1, <2>2 DEF Index, InChunk
  <1>5. \A i \in Index : c(i) \in Ciphertexts /\ Encrypts(c(i), Sk, Plain(Sender, i))
    BY <1>1, <1>4, Answers
  <1>6. \A i \in Index : Add(CMult(in_buf[Sender][i], A[i]), out_buf[Sender][i]) = c(i)
    <2>1. out_buf[Sender] = [i \in Index |-> Encrypt(Sk, B[i], Coin[Sender][i])]
      BY <1>1 DEF Flow, Kept
    <2> QED BY <2>1
  <1>7. out_buf'[Sender] = [i \in Index |-> c(i)]
    <2>1. out_buf'[Sender] =
            [i \in Index |-> Add(CMult(in_buf[Sender][i], A[i]), out_buf[Sender][i])]
      BY <1>1, <1>2, <1>3
    <2> HIDE DEF c
    <2> QED BY <1>6, <2>1
  <1> HIDE DEF c
  <1>8. out_buf' \in [Procs -> [Index -> Ciphertexts]]
    <2>1. [i \in Index |-> c(i)] \in [Index -> Ciphertexts]
      BY <1>5
    <2>2. out_buf' = [out_buf EXCEPT ![Sender] = out_buf'[Sender]]
      BY <1>1, <1>2, <1>3
    <2> QED BY <1>2, <1>3, <1>7, <2>1, <2>2
  <1>9. Course(Sender, "send", 0)
    BY <1>1, <1>2, <1>4 DEF Course, First, Second
  <1>10. Prepared(Sender)'
    BY <1>1, <1>2, <1>4, <1>5, <1>7, <1>9, PreparedTurn
  <1>11. \A q \in Procs : q # Sender => in_buf'[q] = in_buf[q] /\ out_buf'[q] = out_buf[q]
    BY <1>1, <1>3
  <1>12. Kept' /\ OutputsCorrect'
    BY <1>1, <1>2, <1>9, QuietTurn
  <1> QED BY <1>1, <1>2, <1>3, <1>8, <1>9, <1>10, <1>11, <1>12, TurnStep

\* The end of a round of the sender.
LEMMA SenderRoundEnds ==
    ASSUME TypeOK, Flow, NEW next, NEW b, Course(Sender, next, b), Turn(Sender, next, b),
           pc[Sender] = "send", next # "send", whole => next = "done",
           UNCHANGED <<Settings, wire, ack, in_buf, out_buf, y_vals>>
    PROVE  TypeOK' /\ Flow'
  <1>1. /\ UNCHANGED Settings /\ wire' = wire /\ ack' = ack /\ in_buf' = in_buf
        /\ out_buf' = out_buf /\ y_vals' = y_vals
    OBVIOUS
  <1>2. Sender \in Procs /\ Sender # Receiver
    BY Peers
  <1>3. /\ out_buf' \in [Procs -> [Index -> Ciphertexts]]
        /\ in_buf' \in [Procs -> [Index -> Ciphertexts]]
        /\ y_vals' \in [Index -> Residues \cup {Unknown, Garbage}]
    BY <1>1 DEF TypeOK
  <1>4. Prepared(Sender)'
    BY <1>1, <1>2, PreparedTurn
  <1>5. Kept' /\ OutputsCorrect'
    BY <1>1, <1>2, QuietTurn
  <1> QED BY <1>1, <1>2, <1>3, <1>4, <1>5, TurnStep

LEMMA SenderChunkSentStep == TypeOK /\ Flow /\ SenderChunkSent => TypeOK' /\ Flow'
  <1> SUFFICES ASSUME TypeOK, Flow, SenderChunkSent PROVE TypeOK' /\ Flow'
    OBVIOUS
  <1>1. /\ ~whole /\ pc[Sender] = "send" /\ ChunkDone(Sender) /\ NextRound(Sender, "recv")
        /\ UNCHANGED <<Settings, wire, ack, in_buf, out_buf, y_vals>>
    BY DEF SenderChunkSent
  <1>2. Sender \in Procs /\ Sender # Receiver
    BY Peers
  <1>3. /\ N \in Nat \ {0} /\ begin[Sender] \in Nat /\ End(Sender) \in Nat
        /\ chunk[Sender] \in Nat /\ Size(Sender) = chunk[Sender]
        /\ begin[Sender] + Size(Sender) < N => End(Sender) = begin[Sender] + Size(Sender)
        /\ begin[Sender] + Size(Sender) >= N => End(Sender) = N
    BY <1>1, <1>2, Basics DEF Size
  <1>4. PICK next, b : /\ Turn(Sender, next, b)
                       /\ \/ End(Sender) < N /\ b = End(Sender) /\ next = "recv"
                          \/ End(Sender) = N /\ b = 0 /\ next = "ack"
    BY <1>1, <1>3 DEF NextRound
  <1>5. Course(Sender, next, b)
    BY <1>1, <1>2, <1>4 DEF Course, Second
  <1> QED BY <1>1, <1>4, <1>5, SenderRoundEnds

LEMMA BatchCloseStep == TypeOK /\ Flow /\ BatchClose => TypeOK' /\ Flow'
  <1> SUFFICES ASSUME TypeOK, Flow, BatchClose PROVE TypeOK' /\ Flow'
    OBVIOUS
  <1>1. /\ whole /\ pc[Sender] = "send" /\ ChunkDone(Sender) /\ Turn(Sender, "done", 0)
        /\ UNCHANGED <<Settings, wire, ack, in_buf, out_buf, y_vals>>
    BY DEF BatchClose
  <1>2. Sender \in Procs /\ Sender # Receiver
    BY Peers
  <1>3. End(Sender) = N
    <2>1. N \in Nat \ {0} /\ begin[Sender] = 0 /\ Size(Sender) = N
      BY <1>1, <1>2, Basics DEF Flow, Placed, Size
    <2> QED BY <1>2, <2>1, Basics
  <1>4. Course(Sender, "done", 0)
    BY <1>1, <1>2, <1>3 DEF Course, Second
  <1> QED BY <1>1, <1>4, SenderRoundEnds

\* A lane of p goes on by one.
LEMMA LaneMove ==
    ASSUME TypeOK, Flow, NEW p \in Procs, NEW l \in Lanes, pc[p] \in {"send", "recv"},
           ~LaneDone(p, l), UNCHANGED <<Settings, pc, begin, ack, out_buf, y_vals>>,
           pos' = [pos EXCEPT ![p][l] = @ + 1]
    PROVE  /\ Moves(p) /\ pos' \in [Procs -> [Lanes -> 0..N]] /\ Lanes' = Lanes
           /\ \A r \in Procs : Placed(r)' /\ Prepared(r)'
           /\ \A r \in Procs : \A i : InChunk(r, i)' <=> InChunk(r, i)
           /\ \A r \in Procs : \A m \in Lanes :
                /\ pc[p] = "send" => Taken(r, m)' = Taken(r, m)
                /\ pc[p] = "recv" => Given(r, m)' = Given(r, m)
                /\ r # p \/ m # l => Given(r, m)' = Given(r, m) /\ Taken(r, m)' = Taken(r, m)
           /\ pc[p] = "send" => Given(p, l) = pos[p][l] /\ Given(p, l)' = pos[p][l] + 1
           /\ pc[p] = "recv" => Taken(p, l) = pos[p][l] /\ Taken(p, l)' = pos[p][l] + 1
           /\ Kept' /\ Sync' /\ OutputsCorrect'
  <1> DEFINE q == pos[p][l]
  <1>1. /\ whole' = whole /\ lanes' = lanes /\ chunk' = chunk /\ validate' = validate
        /\ UNCHANGED Settings
        /\ pc' = pc /\ begin' = begin /\ ack' = ack /\ out_buf' = out_buf /\ y_vals' = y_vals
    BY DEF Settings
  <1>2. /\ q \in Nat /\ q + 1 <= N /\ InChunk(p, q) /\ N \in Nat
        /\ Reached(N, lanes, l, q) = q /\ Reached(N, lanes, l, q + 1) = q + 1
        /\ StartAt(begin[p])[l] <= q + 1
        /\ q + 1 <= Greatest(StartAt(begin[p])[l], SliceEnd(N, lanes, l, End(p)))
    BY LaneFacts, Basics DEF Flow
  <1>3. pos' = [pos EXCEPT ![p][l] = q + 1] /\ pos \in [Procs -> [Lanes -> 0..N]]
    BY DEF TypeOK
  <1> HIDE DEF q
  <1>4. /\ pos'[p][l] = q + 1 /\ \A m \in Lanes : m # l => pos'[p][m] = pos[p][m]
        /\ \A r \in Procs : r # p => pos'[r] = pos[r]
    BY <1>3
  <1>5. pos' \in [Procs -> [Lanes -> 0..N]]
    <2>1. q + 1 \in 0..N
      BY <1>2
    <2> QED BY <1>3, <2>1
  <1>6. Moves(p)
    BY <1>1, <1>4 DEF Moves
  <1>7. Lanes' = Lanes /\ \A b : StartAt(b)' = StartAt(b)
    BY <1>6, OthersStay
  <1>8. \A r \in Procs : End(r)' = End(r)
    BY <1>1 DEF End, Size
  <1>9. \A r \in Procs : \A i : InChunk(r, i)' <=> InChunk(r, i)
    BY <1>1, <1>8 DEF InChunk
  <1>10. Placed(p)'
    <2>1. Placed(p)
      BY DEF Flow
    <2>2. \A m \in Lanes :
             /\ StartAt(begin[p])[m] <= pos'[p][m]
             /\ pos'[p][m] <= Greatest(StartAt(begin[p])[m], SliceEnd(N, lanes, m, End(p)))
      BY <1>2, <1>4, <2>1 DEF Placed
    <2>3. \A m \in Lanes :
             /\ StartAt(begin[p])'[m] <= pos'[p][m]
             /\ pos'[p][m] <= Greatest(StartAt(begin[p])'[m], SliceEnd(N, lanes, m, End(p)'))
      <3>1. StartAt(begin[p])' = StartAt(begin[p])
        BY <1>1, <1>7 DEF StartAt
      <3> QED BY <1>8, <2>2, <3>1
    <2> QED BY <1>1, <1>7, <2>1, <2>3 DEF Placed
  <1>11. \A r \in Procs : Placed(r)'
    <2>1. \A r \in Procs : Placed(r)
      BY DEF Flow
    <2> QED BY <1>6, <1>10, <2>1, OthersStay
  <1>12. \A r \in Procs : Prepared(r)'
    <2>1. \A r \in Procs : Prepared(r)
      BY DEF Flow
    <2> QED BY <1>1, <1>9, <2>1 DEF Prepared
  <1>13. /\ pc[p] = "send" => Given(p, l) = q /\ Given(p, l)' = q + 1
         /\ pc[p] = "recv" => Taken(p, l) = q /\ Taken(p, l)' = q + 1
    BY <1>1, <1>2, <1>4 DEF Given, Taken, q
  <1>14. ASSUME NEW r \in Procs, NEW m \in Lanes
         PROVE  /\ pc[p] = "send" => Taken(r, m)' = Taken(r, m)
                /\ pc[p] = "recv" => Given(r, m)' = Given(r, m)
                /\ r # p \/ m # l => Given(r, m)' = Given(r, m) /\ Taken(r, m)' = Taken(r, m)
    <2>1. CASE r # p
      BY <1>6, <2>1, OthersStay
    <2>2. CASE r = p
      BY <1>1, <1>4, <1>8, <2>2 DEF Given, Taken
    <2> QED BY <2>1, <2>2
  <1>15. Kept' /\ OutputsCorrect'
    BY <1>1 DEF Flow, Kept, OutputsCorrect
  <1>16. Sync'
    <2>1. ASSUME NEW r \in Procs, pc[r] = "send", ChunkDone(r)
          PROVE  ChunkDone(r)'
      <3>1. r # p
        BY <2>1 DEF ChunkDone
      <3> QED BY <1>6, <2>1, <3>1, OthersStay
    <2>2. InTurn => InTurn'
      BY <1>1, <1>8, <2>1, Peers DEF InTurn, Sent
    <2> QED BY <1>1, <2>2, SyncKept
  <1> QED BY <1>5, <1>6, <1>7, <1>9, <1>11, <1>12, <1>13, <1>14, <1>15, <1>16 DEF q

LEMMA LaneSendStep ==
    ASSUME TypeOK, Flow, NEW p \in Procs, NEW l \in Lanes, LaneSend(p, l)
    PROVE  TypeOK' /\ Flow'
  <1> DEFINE q == pos[p][l]
             w == wire[p][l]
             c == out_buf[p][q]
  <1>1. /\ pc[p] = "send" /\ ~LaneDone(p, l)
        /\ UNCHANGED <<Settings, pc, begin, ack, out_buf, y_vals>> /\ in_buf' = in_buf
        /\ pos' = [pos EXCEPT ![p][l] = @ + 1]
        /\ wire' = [wire EXCEPT ![p][l] = Append(w, c)]
    BY DEF LaneSend
  <1>a. /\ Moves(p) /\ pos' \in [Procs -> [Lanes -> 0..N]] /\ Lanes' = Lanes
        /\ \A s \in Procs : Placed(s)' /\ Prepared(s)'
        /\ \A s \in Procs : \A i : InChunk(s, i)' <=> InChunk(s, i)
        /\ \A s \in Procs : \A m \in Lanes :
             /\ pc[p] = "send" => Taken(s, m)' = Taken(s, m)
             /\ pc[p] = "recv" => Given(s, m)' = Given(s, m)
             /\ s # p \/ m # l => Given(s, m)' = Given(s, m) /\ Taken(s, m)' = Taken(s, m)
        /\ pc[p] = "send" => Given(p, l) = pos[p][l] /\ Given(p, l)' = pos[p][l] + 1
        /\ pc[p] = "recv" => Taken(p, l) = pos[p][l] /\ Taken(p, l)' = pos[p][l] + 1
        /\ Kept' /\ Sync' /\ OutputsCorrect'
    <2>1. pc[p] \in {"send", "recv"} /\ ~LaneDone(p, l)
      BY <1>1
    <2>2. UNCHANGED <<Settings, pc, begin, ack, out_buf, y_vals>>
      BY <1>1
    <2>3. pos' = [pos EXCEPT ![p][l] = @ + 1]
      BY <1>1
    <2> QED BY <2>1, <2>2, <2>3, LaneMove
  <1>2. /\ Moves(p) /\ pos' \in [Procs -> [Lanes -> 0..N]] /\ Lanes' = Lanes
        /\ \A r \in Procs : Placed(r)' /\ Prepared(r)'
        /\ \A r \in Procs : \A i : InChunk(r, i)' <=> InChunk(r, i)
        /\ \A r \in Procs : \A m \in Lanes :
             /\ Taken(r, m)' = Taken(r, m)
             /\ r # p \/ m # l => Given(r, m)' = Given(r, m)
        /\ Given(p, l) = q /\ Given(p, l)' = q + 1
        /\ Kept' /\ Sync' /\ OutputsCorrect'
    BY <1>1, <1>a
  <1>3. /\ whole' = whole /\ lanes' = lanes /\ chunk' = chunk /\ validate' = validate
        /\ pc' = pc /\ begin' = begin /\ ack' = ack /\ out_buf' = out_buf /\ y_vals' = y_vals
    BY <1>1 DEF Settings
  <1>4. q \in Nat /\ q \in Index /\ InChunk(p, q) /\ q + 1 <= RfLaneEnd(N, lanes, l)
    <2>1. /\ q \in Nat /\ InChunk(p, q) /\ q + 1 <= N /\ N \in Nat
          /\ q < RfLaneEnd(N, lanes, l) /\ RfLaneEnd(N, lanes, l) \in Nat
      BY <1>1, LaneFacts, Basics, CursorBounds DEF Flow
    <2> QED BY <2>1 DEF Index
  <1>5. c \in Ciphertexts /\ Encrypts(c, Sk, Plain(p, q))
    <2>1. Prepared(p)
      BY DEF Flow
    <2> QED BY <1>1, <1>4, <2>1 DEF Prepared, TypeOK
  <1>6. w \in Seq(Ciphertexts)
    BY DEF TypeOK
  <1>7. PICK r \in Procs : r = Peer(p)
    BY Peers
  <1>8. r # p /\ Peer(r) = p /\ \A s \in Procs : s # r => s = p /\ Peer(s) = r
    BY <1>7, Peers
  <1> HIDE DEF q, w, c
  <1>9. /\ Append(w, c) \in Seq(Ciphertexts) /\ Len(w) \in Nat /\ Len(Append(w, c)) = Len(w) + 1
        /\ \A n \in 1..Len(w) : Append(w, c)[n] = w[n]
        /\ Append(w, c)[Len(w) + 1] = c
    BY <1>5, <1>6
  <1>10. /\ wire'[p][l] = Append(w, c) /\ \A m \in Lanes : m # l => wire'[p][m] = wire[p][m]
         /\ wire'[r] = wire[r]
         /\ wire' \in [Procs -> [Lanes -> Seq(Ciphertexts)]]
    BY <1>1, <1>8, <1>9 DEF TypeOK
  <1>11. TypeOK'
    BY <1>1, <1>2, <1>3, <1>10 DEF TypeOK
  <1>12. \A s \in Procs : Received(s)'
    <2>1. \A s \in Procs : Received(s)
      BY DEF Flow
    <2> QED BY <1>1, <1>2, <1>3, <2>1 DEF Received
  <1>13. Aligned'
    <2> SUFFICES ASSUME NEW s \in Procs, pc[s] # "failed", NEW m \in Lanes
                 PROVE  LET v == wire'[Peer(s)][m] IN
                        /\ Taken(s, m) + Len(v) <= RfLaneEnd(N, lanes, m)
                        /\ pc[Peer(s)] # "failed" => Given(Peer(s), m)' = Taken(s, m) + Len(v)
                        /\ \A j \in 1..Len(v) :
                             Encrypts(v[j], Sk, Plain(Peer(s), Taken(s, m) + j - 1))
      BY <1>2, <1>3 DEF Aligned
    <2>0. LET v == wire[Peer(s)][m] IN
          /\ Taken(s, m) + Len(v) <= RfLaneEnd(N, lanes, m)
          /\ pc[Peer(s)] # "failed" => Given(Peer(s), m) = Taken(s, m) + Len(v)
          /\ \A j \in 1..Len(v) : Encrypts(v[j], Sk, Plain(Peer(s), Taken(s, m) + j - 1))
      BY DEF Flow, Aligned
    <2>1. CASE s # r \/ m # l
      <3>1. wire'[Peer(s)][m] = wire[Peer(s)][m] /\ Given(Peer(s), m)' = Given(Peer(s), m)
        <4>1. CASE s = r
          BY <1>2, <1>8, <1>10, <2>1, <4>1
        <4>2. CASE s # r
          BY <1>2, <1>8, <1>10, <4>2
        <4> QED BY <4>1, <4>2
      <3> QED BY <2>0, <3>1
    <2>2. CASE s = r /\ m = l
      <3>1. /\ q = Taken(r, l) + Len(w)
            /\ \A n \in 1..Len(w) : Encrypts(w[n], Sk, Plain(p, Taken(r, l) + n - 1))
        BY <1>1, <1>2, <1>8, <2>0, <2>2 DEF w
      <3>2. Taken(r, l) \in Nat
        BY CursorBounds
      <3>3. Taken(r, l) + (Len(w) + 1) = q + 1
        BY <1>4, <1>9, <3>1, <3>2
      <3>4. ASSUME NEW n \in 1..(Len(w) + 1)
            PROVE  Encrypts(Append(w, c)[n], Sk, Plain(p, Taken(r, l) + n - 1))
        <4>1. CASE n \in 1..Len(w)
          BY <1>9, <3>1, <4>1
        <4>2. CASE n = Len(w) + 1
          <5>1. Taken(r, l) + n - 1 = q
            BY <1>9, <3>1, <3>2, <4>2
          <5> QED BY <1>5, <1>9, <4>2, <5>1
        <4> QED BY <1>9, <4>1, <4>2
      <3> QED BY <1>2, <1>4, <1>8, <1>9, <1>10, <2>2, <3>3, <3>4
    <2> QED BY <2>1, <2>2
  <1>14. Flow'
    BY <1>2, <1>12, <1>13 DEF Flow
  <1> QED BY <1>11, <1>14

LEMMA LaneRecvStep ==
    ASSUME TypeOK, Flow, NEW p \in Procs, NEW l \in Lanes, LaneRecv(p, l)
    PROVE  TypeOK' /\ Flow'
  <1>0. PICK r \in Procs : r = Peer(p)
    BY Peers
  <1> DEFINE q == pos[p][l]
             w == wire[r][l]
  <1>1. /\ pc[p] = "recv" /\ ~LaneDone(p, l) /\ w # <<>>
        /\ UNCHANGED <<Settings, pc, begin, ack, out_buf, y_vals>>
        /\ pos' = [pos EXCEPT ![p][l] = @ + 1]
        /\ in_buf' = [in_buf EXCEPT ![p][q] = Head(w)]
        /\ wire' = [wire EXCEPT ![r][l] = Tail(w)]
    BY <1>0 DEF LaneRecv
  <1>a. /\ Moves(p) /\ pos' \in [Procs -> [Lanes -> 0..N]] /\ Lanes' = Lanes
        /\ \A s \in Procs : Placed(s)' /\ Prepared(s)'
        /\ \A s \in Procs : \A i : InChunk(s, i)' <=> InChunk(s, i)
        /\ \A s \in Procs : \A m \in Lanes :
             /\ pc[p] = "send" => Taken(s, m)' = Taken(s, m)
             /\ pc[p] = "recv" => Given(s, m)' = Given(s, m)
             /\ s # p \/ m # l => Given(s, m)' = Given(s, m) /\ Taken(s, m)' = Taken(s, m)
        /\ pc[p] = "send" => Given(p, l) = pos[p][l] /\ Given(p, l)' = pos[p][l] + 1
        /\ pc[p] = "recv" => Taken(p, l) = pos[p][l] /\ Taken(p, l)' = pos[p][l] + 1
        /\ Kept' /\ Sync' /\ OutputsCorrect'
    <2>1. pc[p] \in {"send", "recv"} /\ ~LaneDone(p, l)
      BY <1>1
    <2>2. UNCHANGED <<Settings, pc, begin, ack, out_buf, y_vals>>
      BY <1>1
    <2>3. pos' = [pos EXCEPT ![p][l] = @ + 1]
      BY <1>1
    <2> QED BY <2>1, <2>2, <2>3, LaneMove
  <1>2. /\ Moves(p) /\ pos' \in [Procs -> [Lanes -> 0..N]] /\ Lanes' = Lanes
        /\ \A s \in Procs : Placed(s)' /\ Prepared(s)'
        /\ \A s \in Procs : \A i : InChunk(s, i)' <=> InChunk(s, i)
        /\ \A s \in Procs : \A m \in Lanes :
             /\ Given(s, m)' = Given(s, m)
             /\ s # p \/ m # l => Taken(s, m)' = Taken(s, m)
        /\ Taken(p, l) = q /\ Taken(p, l)' = q + 1
        /\ Kept' /\ Sync' /\ OutputsCorrect'
    BY <1>1, <1>a
  <1>3. /\ whole' = whole /\ lanes' = lanes /\ chunk' = chunk /\ validate' = validate
        /\ pc' = pc /\ begin' = begin /\ ack' = ack /\ out_buf' = out_buf /\ y_vals' = y_vals
    BY <1>1 DEF Settings
  <1>4. q \in Nat /\ q \in Index
    <2>1. q \in Nat /\ q + 1 <= N /\ N \in Nat
      BY <1>1, LaneFacts, Basics DEF Flow
    <2> QED BY <2>1 DEF Index
  <1>5. w \in Seq(Ciphertexts)
    BY DEF TypeOK
  <1>6. r # p /\ Peer(r) = p /\ \A s \in Procs : s # p => s = r /\ Peer(s) = p
    BY <1>0, Peers
  <1> HIDE DEF q, w
  <1>7. /\ Len(w) \in Nat /\ Len(w) >= 1 /\ Head(w) = w[1] /\ Head(w) \in Ciphertexts
        /\ Tail(w) \in Seq(Ciphertexts) /\ Len(Tail(w)) = Len(w) - 1
        /\ \A j \in 1..Len(Tail(w)) : Tail(w)[j] = w[j + 1]
    BY <1>1, <1>5
  <1>8. /\ wire'[r][l] = Tail(w) /\ \A m \in Lanes : m # l => wire'[r][m] = wire[r][m]
        /\ wire'[p] = wire[p]
        /\ wire' \in [Procs -> [Lanes -> Seq(Ciphertexts)]]
    BY <1>1, <1>6, <1>7 DEF TypeOK
  <1>9. /\ in_buf'[p][q] = Head(w) /\ \A i \in Index : i # q => in_buf'[p][i] = in_buf[p][i]
        /\ in_buf'[r] = in_buf[r]
        /\ in_buf' \in [Procs -> [Index -> Ciphertexts]]
    BY <1>1, <1>4, <1>6, <1>7 DEF TypeOK
  <1>10. TypeOK'
    BY <1>1, <1>2, <1>3, <1>8, <1>9 DEF TypeOK
  <1>11. /\ q + Len(w) <= RfLaneEnd(N, lanes, l)
         /\ pc[r] # "failed" => Given(r, l) = q + Len(w)
         /\ \A j \in 1..Len(w) : Encrypts(w[j], Sk, Plain(r, q + j - 1))
    BY <1>0, <1>1, <1>2 DEF Flow, Aligned, w
  <1>12. Encrypts(Head(w), Sk, Plain(r, q))
    <2>1. 1 \in 1..Len(w) /\ q + 1 - 1 = q
      BY <1>4, <1>7
    <2> QED BY <1>7, <1>11, <2>1
  <1>13. \A s \in Procs : Received(s)'
    <2>1. Received(p) /\ Received(r)
      BY DEF Flow
    <2>2. Received(r)'
      BY <1>2, <1>3, <1>6, <1>9, <2>1 DEF Received
    <2>3. Received(p)'
      <3> SUFFICES ASSUME NEW m \in Lanes, NEW i \in Index, InChunk(p, i),
                          RfLaneBegin(N, lanes, m) <= i, i < Taken(p, m)'
                   PROVE  Encrypts(in_buf'[p][i], Sk, Plain(r, i))
        BY <1>0, <1>2, <1>3 DEF Received
      <3>1. CASE i = q
        BY <1>9, <1>12, <3>1
      <3>2. CASE i # q
        <4>1. i \in Nat
          BY DirectConstants DEF Index
        <4>2. i < Taken(p, m)
          BY <1>2, <1>4, <3>2, <4>1
        <4> QED BY <1>0, <1>1, <1>9, <2>1, <3>2, <4>2 DEF Received
      <3> QED BY <3>1, <3>2
    <2> QED BY <1>6, <2>2, <2>3
  <1>14. Aligned'
    <2> SUFFICES ASSUME NEW s \in Procs, pc[s] # "failed", NEW m \in Lanes
                 PROVE  LET v == wire'[Peer(s)][m] IN
                        /\ Taken(s, m)' + Len(v) <= RfLaneEnd(N, lanes, m)
                        /\ pc[Peer(s)] # "failed" => Given(Peer(s), m) = Taken(s, m)' + Len(v)
                        /\ \A j \in 1..Len(v) :
                             Encrypts(v[j], Sk, Plain(Peer(s), Taken(s, m)' + j - 1))
      <3>1. \A s \in Procs : Peer(s) \in Procs
        BY Peers
      <3> QED BY <1>2, <1>3, <3>1 DEF Aligned
    <2>1. CASE s # p \/ m # l
      <3>0. LET v == wire[Peer(s)][m] IN
            /\ Taken(s, m) + Len(v) <= RfLaneEnd(N, lanes, m)
            /\ pc[Peer(s)] # "failed" => Given(Peer(s), m) = Taken(s, m) + Len(v)
            /\ \A j \in 1..Len(v) : Encrypts(v[j], Sk, Plain(Peer(s), Taken(s, m) + j - 1))
        BY DEF Flow, Aligned
      <3>1. wire'[Peer(s)][m] = wire[Peer(s)][m] /\ Taken(s, m)' = Taken(s, m)
        BY <1>0, <1>2, <1>6, <1>8, <2>1
      <3> QED BY <3>0, <3>1
    <2>2. CASE s = p /\ m = l
      <3>1. (q + 1) + Len(Tail(w)) = q + Len(w)
        BY <1>4, <1>7
      <3>2. ASSUME NEW n \in 1..Len(Tail(w))
            PROVE  Encrypts(Tail(w)[n], Sk, Plain(r, q + 1 + n - 1))
        <4>1. n + 1 \in 1..Len(w) /\ q + (n + 1) - 1 = q + 1 + n - 1
          BY <1>4, <1>7
        <4> QED BY <1>7, <1>11, <4>1
      <3> QED BY <1>0, <1>2, <1>8, <1>11, <2>2, <3>1, <3>2
    <2> QED BY <2>1, <2>2
  <1>15. Flow'
    BY <1>2, <1>13, <1>14 DEF Flow
  <1> QED BY <1>10, <1>15

\* A step to the end: the last word, or a failure.
LEMMA EndStep ==
    ASSUME TypeOK, Flow, NEW p \in Procs, NEW next,
           \/ pc[p] = "ack" /\ next = "done"
           \/ pc[p] # "failed" /\ next = "failed",
           pc' = [pc EXCEPT ![p] = next], ack' \in BOOLEAN,
           UNCHANGED <<Settings, begin, pos, wire, in_buf, out_buf, y_vals>>,
           Kept', Sync', OutputsCorrect'
    PROVE  TypeOK' /\ Flow'
  <1>1. /\ whole' = whole /\ lanes' = lanes /\ chunk' = chunk /\ validate' = validate
        /\ begin' = begin /\ pos' = pos /\ wire' = wire /\ in_buf' = in_buf
        /\ out_buf' = out_buf /\ y_vals' = y_vals
    BY DEF Settings
  <1>2. /\ pc'[p] = next /\ \A q \in Procs : q # p => pc'[q] = pc[q]
        /\ pc' \in [Procs -> Places]
    BY DEF TypeOK, Places
  <1>3. Moves(p)
    BY <1>1, <1>2 DEF Moves
  <1>4. Lanes' = Lanes
    BY <1>3, OthersStay
  <1>5. TypeOK'
    BY <1>1, <1>2, <1>4 DEF TypeOK
  <1>6. next = "failed" \/ \A l \in Lanes :
          Given(p, l)' = Given(p, l) /\ Taken(p, l)' = Taken(p, l)
    BY <1>1, <1>2 DEF Given, Taken
  <1>7. Placed(p)' /\ Received(p)' /\ Prepared(p)'
    <2>1. Placed(p)
      BY DEF Flow
    <2> QED BY <1>1, <1>2, <2>1 DEF Placed, Received, Prepared
  <1>8. Streams'
    BY <1>1, <1>2, <1>3, <1>6, <1>7, LocalStep
  <1> QED BY <1>5, <1>8 DEF Flow, Streams

LEMMA ReceiverAckStep == TypeOK /\ Flow /\ ReceiverAck => TypeOK' /\ Flow'
  <1> SUFFICES ASSUME TypeOK, Flow, ReceiverAck PROVE TypeOK' /\ Flow'
    OBVIOUS
  <1>1. /\ pc[Receiver] = "ack" /\ ack' = TRUE /\ pc' = [pc EXCEPT ![Receiver] = "done"]
        /\ UNCHANGED <<Settings, begin, pos, wire, in_buf, out_buf, y_vals>>
    BY DEF ReceiverAck
  <1>2. Receiver \in Procs /\ Sender \in Procs /\ Receiver # Sender
    BY Peers
  <1>3. /\ pc'[Receiver] = "done" /\ pc'[Sender] = pc[Sender] /\ y_vals' = y_vals
        /\ whole' = whole /\ out_buf' = out_buf /\ UNCHANGED Settings
    BY <1>1, <1>2 DEF TypeOK, Settings
  <1>4. \A i \in Index : y_vals[i] = Result(i)
    BY <1>1 DEF Flow, Kept
  <1>5. Kept' /\ OutputsCorrect'
    BY <1>1, <1>3, <1>4 DEF Flow, Kept, OutputsCorrect
  <1>6. InTurn => InTurn'
    <2>1. ChunkDone(Sender)' <=> ChunkDone(Sender)
      BY <1>1 DEF ChunkDone, LaneDone, End, Size, Lanes, Settings
    <2>2. End(Sender)' = End(Sender)
      BY <1>1 DEF End, Size, Settings
    <2> QED BY <1>1, <1>3, <2>1, <2>2 DEF InTurn, Sent
  <1>7. Sync'
    BY <1>1, <1>2, <1>3, <1>6, SyncKept
  <1> QED BY <1>1, <1>2, <1>5, <1>7, EndStep

LEMMA SenderAckStep == TypeOK /\ Flow /\ SenderAck => TypeOK' /\ Flow'
  <1> SUFFICES ASSUME TypeOK, Flow, SenderAck PROVE TypeOK' /\ Flow'
    OBVIOUS
  <1>1. /\ pc[Sender] = "ack" /\ ack /\ pc' = [pc EXCEPT ![Sender] = "done"]
        /\ UNCHANGED <<Settings, begin, pos, wire, ack, in_buf, out_buf, y_vals>>
    BY DEF SenderAck
  <1>2. Receiver \in Procs /\ Sender \in Procs /\ Receiver # Sender
    BY Peers
  <1>3. /\ pc'[Sender] = "done" /\ pc'[Receiver] = pc[Receiver] /\ y_vals' = y_vals
        /\ whole' = whole /\ out_buf' = out_buf /\ UNCHANGED Settings /\ ack' = ack
        /\ begin' = begin /\ pos' = pos
    BY <1>1, <1>2 DEF TypeOK, Settings
  <1>4. Kept' /\ OutputsCorrect'
    BY <1>1, <1>3 DEF Flow, Kept, OutputsCorrect
  <1>5. InTurn => InTurn'
    <2>1. /\ ChunkDone(Receiver)' <=> ChunkDone(Receiver)
          /\ End(Receiver)' = End(Receiver)
      BY <1>3 DEF ChunkDone, LaneDone, End, Size, Lanes, Settings
    <2> QED BY <1>1, <1>3, <2>1 DEF InTurn, Sent
  <1>6. Sync'
    BY <1>1, <1>2, <1>3, <1>5, SyncKept
  <1>7. ack' \in BOOLEAN
    BY <1>3 DEF TypeOK
  <1> QED BY <1>1, <1>2, <1>4, <1>6, <1>7, EndStep

\* Settings that agree rule out that anyone gives up.
LEMMA GiveUpStep ==
    ASSUME TypeOK, Flow, NEW p \in Procs, GiveUp(p)
    PROVE  TypeOK' /\ Flow'
  <1>1. /\ Stuck \/ (Blocked(p) /\ pc[Peer(p)] = "failed")
        /\ pc' = [pc EXCEPT ![p] = "failed"]
        /\ UNCHANGED <<Settings, begin, pos, wire, ack, in_buf, out_buf, y_vals>>
    BY DEF GiveUp
  <1>2. Blocked(p)
    BY <1>1 DEF Stuck
  <1>3. /\ pc[p] \in {"send", "recv", "ack"} /\ (pc[p] = "ack" => p = Sender)
    BY <1>2 DEF Blocked
  <1>4. ~(Matched \/ validate \/ whole)
    <2> SUFFICES ASSUME Matched \/ validate \/ whole PROVE FALSE
      OBVIOUS
    <2>1. ~Stuck
      BY FlowInStep DEF LockStep
    <2>2. InTurn
      BY <1>3, TurnsHeld
    <2> QED BY <1>1, <2>1, <2>2, NobodyFailed, Peers
  <1>5. Sync'
    BY <1>1, <1>4 DEF Sync, Matched, Settings
  <1>6. /\ pc'[p] = "failed" /\ \A q \in Procs : q # p => pc'[q] = pc[q]
        /\ y_vals' = y_vals /\ whole' = whole /\ out_buf' = out_buf /\ ack' = ack /\ begin' = begin
    BY <1>1 DEF TypeOK, Settings
  <1>7. Kept' /\ OutputsCorrect'
    <2>1. CASE p = Receiver
      <3>1. pc'[Receiver] = "failed" /\ pc'[Sender] = pc[Sender] /\ ~ack
        BY <1>3, <1>6, <2>1, Peers DEF Flow, Kept
      <3> QED BY <1>6, <3>1 DEF Flow, Kept, OutputsCorrect
    <2>2. CASE p = Sender
      <3>1. pc'[Sender] = "failed" /\ pc'[Receiver] = pc[Receiver]
        BY <1>6, <2>2, Peers
      <3> QED BY <1>6, <3>1 DEF Flow, Kept, OutputsCorrect
    <2> QED BY <2>1, <2>2, Peers
  <1>8. ack' \in BOOLEAN /\ pc[p] # "failed"
    BY <1>3, <1>6 DEF TypeOK
  <1> QED BY <1>1, <1>5, <1>7, <1>8, EndStep

\* Nothing has been sent yet; settings that the lanes' metadata shows to differ
\* stop both processes.
LEMMA SetupStep == TypeOK /\ Flow /\ Setup => TypeOK' /\ Flow'
  <1> SUFFICES ASSUME TypeOK, Flow, Setup PROVE TypeOK' /\ Flow'
    OBVIOUS
  <1> DEFINE mismatch == validate /\ chunk[Receiver] # chunk[Sender]
  <1>1. /\ pc = [p \in Procs |-> "setup"]
        /\ pc' = [p \in Procs |-> IF mismatch THEN "failed"
                                  ELSE IF p = Receiver \/ whole THEN "work" ELSE "recv"]
        /\ whole' = whole /\ lanes' = lanes /\ chunk' = chunk /\ validate' = validate
        /\ begin' = begin /\ pos' = pos /\ wire' = wire /\ ack' = ack /\ in_buf' = in_buf
        /\ out_buf' = out_buf /\ y_vals' = y_vals /\ Lanes' = Lanes
    BY DEF Setup, Settings, Lanes
  <1>2. Receiver \in Procs /\ Sender \in Procs /\ Receiver # Sender /\ \A p \in Procs : Peer(p) \in Procs
    BY Peers
  <1>3. \A p \in Procs : Placed(p) /\ pc[p] = "setup"
    BY <1>1 DEF Flow
  <1>4. \A p \in Procs : begin[p] = 0 /\ pos[p] = StartAt(0)
    BY <1>3 DEF Placed
  <1>5. \A p \in Procs : \A l \in Lanes : wire[p][l] = <<>>
    <2>1. \A l \in Lanes : Given(Receiver, l) = Taken(Sender, l) /\ Given(Sender, l) = Taken(Receiver, l)
      BY <1>2, <1>3, <1>4 DEF Given, Taken
    <2>2. \A l \in Lanes : wire[Receiver][l] = <<>> /\ wire[Sender][l] = <<>>
      BY <1>2, <1>3, <2>1, Cursors
    <2> QED BY <2>2, Peers
  <1>6. TypeOK'
    <2>1. pc' \in [Procs -> Places]
      BY <1>1 DEF Places
    <2> QED BY <1>1, <2>1 DEF TypeOK
  <1>7. ~ack /\ Kept' /\ OutputsCorrect'
    <2>1. /\ ~ack /\ OutputsCorrect /\ begin[Receiver] = 0
      BY <1>2, <1>3, <1>4 DEF Flow, Kept
    <2>2. /\ pc'[Receiver] \in {"failed", "work"} /\ pc'[Sender] \in {"failed", "work", "recv"}
          /\ pc'[Sender] = "recv" => ~whole
      BY <1>1, <1>2
    <2>3. \A i \in Index : ~(i < 0)
      BY DirectConstants DEF Index
    <2>4. Kept'
      BY <1>1, <2>1, <2>2, <2>3 DEF Kept
    <2> QED BY <1>1, <2>1, <2>2, <2>4 DEF OutputsCorrect
  <1>8. CASE mismatch
    <2>1. \A p \in Procs : pc'[p] = "failed"
      BY <1>1, <1>8
    <2>2. \A p \in Procs : Placed(p)' /\ Received(p)' /\ Prepared(p)'
      BY <1>1, <1>3, <2>1 DEF Placed, Received, Prepared
    <2>3. Aligned'
      BY <2>1 DEF Aligned
    <2>4. Sync'
      BY <1>1, <1>5, <2>1 DEF Sync, InFlight
    <2> QED BY <1>6, <1>7, <2>2, <2>3, <2>4 DEF Flow
  <1>9. CASE ~mismatch
    <2>1. \A p \in Procs : pc'[p] = IF p = Receiver \/ whole THEN "work" ELSE "recv"
      BY <1>1, <1>9
    <2>2. ASSUME NEW l \in Lanes
          PROVE  /\ StartAt(0)[l] \in Nat
                 /\ At(l, StartAt(0)[l]) = At(l, 0) /\ At(l, 0) = RfLaneBegin(N, lanes, l)
                 /\ At(l, 0) \in Nat /\ At(l, 0) <= RfLaneEnd(N, lanes, l)
      <3>1. 0 \in Nat /\ 0 <= N
        BY DirectConstants
      <3> QED BY <1>2, <3>1, StartFacts, CursorBounds DEF At
    <2>3. ASSUME NEW p \in Procs, NEW l \in Lanes
          PROVE  Given(p, l)' = At(l, 0) /\ Taken(p, l)' = At(l, 0)
      BY <1>1, <1>4, <2>1, <2>2 DEF Given, Taken, At
    <2>4. ASSUME NEW p \in Procs
          PROVE  Placed(p)'
      <3>1. ASSUME NEW l \in Lanes, NEW e \in Nat
            PROVE  /\ StartAt(0)[l] <= StartAt(0)[l]
                   /\ StartAt(0)[l] <= Greatest(StartAt(0)[l], SliceEnd(N, lanes, l, e))
        <4>1. 0 \in Nat /\ 0 <= N
          BY DirectConstants
        <4> QED BY <4>1, StartPlaced
      <3>2. End(p)' = End(p) /\ End(p) \in Nat /\ StartAt(begin[p])' = StartAt(0)
        BY <1>1, <1>4, Basics DEF End, Size, StartAt
      <3>3. /\ pc'[p] \in {"work", "recv"} /\ begin'[p] = 0 /\ pos'[p] = StartAt(0)
            /\ pc'[p] = "work" /\ p = Sender => whole
        BY <1>1, <1>2, <1>4, <2>1
      <3> QED BY <1>1, <3>1, <3>2, <3>3 DEF Placed
    <2>5. ASSUME NEW p \in Procs
          PROVE  Received(p)' /\ Prepared(p)'
      <3>1. Prepared(p)'
        BY <2>1 DEF Prepared
      <3>2. ASSUME NEW l \in Lanes, NEW i \in Index, RfLaneBegin(N, lanes, l) <= i,
                   i < Taken(p, l)'
            PROVE  FALSE
        <4>1. i \in Nat
          BY DirectConstants DEF Index
        <4> QED BY <2>2, <2>3, <3>2, <4>1
      <3> QED BY <1>1, <3>1, <3>2 DEF Received
    <2>6. Aligned'
      <3> SUFFICES ASSUME NEW p \in Procs, NEW l \in Lanes
                   PROVE  LET w == wire[Peer(p)][l] IN
                          /\ Taken(p, l)' + Len(w) <= RfLaneEnd(N, lanes, l)
                          /\ Given(Peer(p), l)' = Taken(p, l)' + Len(w)
                          /\ \A j \in 1..Len(w) :
                               Encrypts(w[j], Sk, Plain(Peer(p), Taken(p, l)' + j - 1))
        BY <1>1 DEF Aligned
      <3>1. wire[Peer(p)][l] = <<>>
        BY <1>2, <1>5
      <3> QED BY <1>2, <2>2, <2>3, <3>1
    <2>7. Sync'
      <3>1. /\ pc'[Receiver] = "work" /\ pc'[Sender] \in {"work", "recv"}
            /\ begin'[Receiver] = begin'[Sender]
        BY <1>1, <1>2, <1>4, <2>1
      <3>2. InTurn'
        BY <3>1 DEF InTurn
      <3>3. validate => Matched
        BY <1>9 DEF Matched
      <3> QED BY <1>1, <3>2, <3>3 DEF Sync, Matched
    <2> QED BY <1>6, <1>7, <2>4, <2>5, <2>6, <2>7 DEF Flow
  <1> QED BY <1>8, <1>9

-------------------------------------------------------------------------------
(***************************************************************************)
(* The invariant.                                                          *)
(***************************************************************************)
LEMMA FlowInit == Init => TypeOK /\ Flow
  <1> SUFFICES ASSUME Init PROVE TypeOK /\ Flow
    OBVIOUS
  <1>1. /\ whole \in Wholes /\ lanes \in LaneCounts /\ chunk \in [Procs -> ChunkSizes]
        /\ validate \in Validate /\ pc = [p \in Procs |-> "setup"] /\ begin = [p \in Procs |-> 0]
        /\ pos = [p \in Procs |-> StartAt(0)]
        /\ wire = [p \in Procs |-> [l \in Lanes |-> <<>>]] /\ ack = FALSE
        /\ in_buf = [p \in Procs |-> [i \in Index |-> Blank]]
        /\ out_buf = [p \in Procs |-> [i \in Index |-> Blank]]
        /\ y_vals = [i \in Index |-> Unknown]
    BY DEF Init
  <1>2. lanes \in Nat \ {0} /\ N \in Nat \ {0} /\ Lanes = 0..(lanes - 1) /\ 0 \in 0..N
    BY <1>1, DirectConstants DEF MaxLanes, Lanes
  <1>3. ASSUME NEW l \in Lanes
        PROVE  /\ SliceBegin(N, lanes, l, 0) \in 0..N
               /\ Reached(N, lanes, l, 0) \in Nat
               /\ Reached(N, lanes, l, 0) <= RfLaneEnd(N, lanes, l)
    BY <1>2, SliceStart, ReachedEnds
  <1>4. StartAt(0) \in [Lanes -> 0..N]
    BY <1>3 DEF StartAt
  <1>5. TypeOK
    <2>1. Blank \in Ciphertexts
      BY QAssumption DEF Blank, Ciphertexts, Residues
    <2>2. 0 \in Index
      BY <1>2 DEF Index
    <2>3. wire \in [Procs -> [Lanes -> Seq(Ciphertexts)]]
      BY <1>1
    <2> QED BY <1>1, <1>4, <2>1, <2>2, <2>3 DEF TypeOK, Places
  <1>6. \A p \in Procs : pc[p] = "setup" /\ begin[p] = 0 /\ pos[p] = StartAt(0) /\ Peer(p) \in Procs
    BY <1>1, Peers
  <1>7. \A p \in Procs : Placed(p) /\ Received(p) /\ Prepared(p)
    BY <1>6 DEF Placed, Received, Prepared
  <1>8. Aligned
    <2> SUFFICES ASSUME NEW p \in Procs, NEW l \in Lanes
                 PROVE  LET w == wire[Peer(p)][l] IN
                        /\ Taken(p, l) + Len(w) <= RfLaneEnd(N, lanes, l)
                        /\ Given(Peer(p), l) = Taken(p, l) + Len(w)
                        /\ \A j \in 1..Len(w) :
                             Encrypts(w[j], Sk, Plain(Peer(p), Taken(p, l) + j - 1))
      BY DEF Aligned
    <2>1. wire[Peer(p)][l] = <<>>
      BY <1>1, <1>6
    <2>2. Taken(p, l) = Reached(N, lanes, l, 0) /\ Given(Peer(p), l) = Reached(N, lanes, l, 0)
      BY <1>6 DEF Taken, Given
    <2> QED BY <1>3, <2>1, <2>2
  <1>9. Kept /\ Sync /\ OutputsCorrect
    BY <1>1, <1>6, Peers DEF Kept, Sync, OutputsCorrect
  <1> QED BY <1>5, <1>7, <1>8, <1>9 DEF Flow

LEMMA FlowNext == TypeOK /\ Flow /\ [Next]_vars => TypeOK' /\ Flow'
  <1> SUFFICES ASSUME TypeOK, Flow, [Next]_vars PROVE TypeOK' /\ Flow'
    OBVIOUS
  <1>1. CASE Setup
    BY <1>1, SetupStep
  <1>2. CASE ReceiverNext
    BY <1>2, ReceiverEncryptStep, ReceiverChunkSentStep, ReceiverDecryptStep, ReceiverAckStep,
       BatchEncryptXStep, BatchDecryptStep DEF ReceiverNext
  <1>3. CASE SenderNext
    BY <1>3, SenderEvaluateStep, SenderChunkSentStep, SenderAckStep, BatchEncryptBStep,
       BatchEvaluateStep, BatchCloseStep DEF SenderNext
  <1>4. ASSUME NEW p \in Procs, GiveUp(p)
        PROVE  TypeOK' /\ Flow'
    BY <1>4, GiveUpStep
  <1>5. ASSUME NEW p \in Procs, NEW l \in Lanes, LaneNext(p, l)
        PROVE  TypeOK' /\ Flow'
    BY <1>5, LaneSendStep, LaneRecvStep DEF LaneNext
  <1>6. CASE UNCHANGED vars
    <2>1. TypeOK'
      BY <1>6 DEF TypeOK, vars, Lanes
    <2>2. Aligned'
      BY <1>6 DEF Flow, Aligned, Given, Taken, End, Size, Lanes, vars
    <2>3. ASSUME NEW p \in Procs
          PROVE  Placed(p)' /\ Received(p)' /\ Prepared(p)'
      <3>1. Placed(p) /\ Received(p) /\ Prepared(p)
        BY DEF Flow
      <3>2. Placed(p)'
        BY <1>6, <3>1 DEF Placed, End, Size, StartAt, Lanes, vars
      <3>3. Received(p)'
        BY <1>6, <3>1 DEF Received, InChunk, Taken, End, Size, Lanes, vars
      <3>4. Prepared(p)'
        BY <1>6, <3>1 DEF Prepared, InChunk, End, Size, vars
      <3> QED BY <3>2, <3>3, <3>4
    <2>4. Kept' /\ OutputsCorrect'
      BY <1>6 DEF Flow, Kept, OutputsCorrect, vars
    <2>5. Sync'
      BY <1>6 DEF Flow, Sync, InTurn, Sent, ChunkDone, LaneDone, InFlight, Matched, End, Size,
                  Lanes, vars
    <2> QED BY <2>1, <2>2, <2>3, <2>4, <2>5 DEF Flow
  <1> QED BY <1>1, <1>2, <1>3, <1>4, <1>5, <1>6 DEF Next, Progress, Finished

\* The inductive invariant holds in every reachable state: lanes are in step with
\* their chunks, the streams are aligned, and settings that agree keep the loops in
\* turn.
THEOREM DirectFlow == Spec => [](TypeOK /\ Flow)
  BY FlowInit, FlowNext, PTL DEF Spec

\* Every variable keeps its type: no lane leaves its range and no output is anything
\* but a residue, unknown, or the mark of a failed decryption.
THEOREM DirectTypes == Spec => []TypeOK
  BY DirectFlow, PTL

\* With chunk sizes that agree, with validation, or in the whole-batch programs,
\* ciphertexts never fly both ways at once and the two ends never block each other,
\* whatever the size of the buffers.
THEOREM LockStepHolds == Spec => []LockStep
  BY DirectFlow, FlowInStep, PTL

\* A lock-step sender that returns has been read completely, and the receiver has
\* all outputs: the acknowledgement keeps its promise, whatever the chunk sizes are.
THEOREM ClosesLast == Spec => []SenderClosesLast
  <1>1. TypeOK /\ Flow => SenderClosesLast
    <2> SUFFICES ASSUME TypeOK, Flow, ~whole, pc[Sender] = "done"
                 PROVE  ~InFlight(Sender) /\ \A i \in Index : y_vals[i] # Unknown
      BY DEF SenderClosesLast
    <2>1. pc[Receiver] = "done"
      BY DEF Flow, Kept
    <2>2. \A i \in Index : y_vals[i] # Unknown
      BY <2>1, Inputs DEF Flow, OutputsCorrect
    <2>3. \A p \in Procs : pc[p] = "done"
      BY <2>1, Peers
    <2>4. ~InFlight(Sender)
      BY <2>3, Peers, Cursors DEF InFlight
    <2> QED BY <2>2, <2>4
  <1> QED BY <1>1, DirectFlow, PTL

\* The receiver only ever stores a_i x_i + b_i in place i, and has all of them when
\* it returns, for all chunk sizes, equal or not.
THEOREM DirectOutputs == Spec => []OutputsCorrect
  <1>1. Flow => OutputsCorrect
    BY DEF Flow
  <1> QED BY <1>1, DirectFlow, PTL
==============================================================================
