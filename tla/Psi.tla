-------------------------------- MODULE Psi --------------------------------
(***************************************************************************)
(* Private set intersection: cg_psi_sender and cg_psi_receiver, the two-way*)
(* cg_psi2_sender and cg_psi2_receiver, which add a reveal step, and, with *)
(* firewalls, cg_rf_psi_sender and cg_rf_psi_receiver.  A is the sender, B *)
(* the receiver.                                                           *)
(*                                                                         *)
(* Each program is told the size of the other's set on its command line    *)
(* and reads its settings from its own environment; nothing but lane       *)
(* validation (CG_VALIDATE_LANES=1) compares them; the firewalls are told  *)
(* the number of OLEs by CG_RF_EXPECTED_N.  The batch of OLEs is one step  *)
(* here: DirectOle and RfOle have its steps, LaneLink its setup.  Without  *)
(* validation the batch runs over one lane.                                *)
(***************************************************************************)
EXTENDS Polynomial, FiniteSets

CONSTANTS
    Inputs,      \* what the two programs may be started with
    MaskValues,  \* coefficients that random_poly may draw
    MaxItems     \* CG_MAX_ITEMS

Parties == {"A", "B"}
Other(p) == CHOOSE o \in Parties : o # p

ASSUME PsiInputs ==
    \A in \in Inputs :
        /\ in.env \in [Parties -> Settings]
        /\ in.env["A"].q = in.env["B"].q
        /\ in.validate \in BOOLEAN /\ in.twoWay \in BOOLEAN /\ in.firewalls \in BOOLEAN
        /\ in.firewalls => ~in.twoWay
        /\ \A p \in Parties : in.set[p] \in Seq(Nat) /\ in.claim[p] \in 1..MaxItems
                                 /\ in.expected[p] \in Nat
ASSUME PsiConstants == MaxItems \in Nat \ {0} /\ MaskValues \subseteq Nat

VARIABLES
    input,   \* arguments and environments; input.claim[p]: the size p was told,
             \* input.expected[p]: the count the firewall of p was told
    pc,      \* pc[p]: where the program of p is
    evals,   \* values at the public points: of p_B for B, of r_A and q_A for A
    mask,    \* r'_A
    y,       \* y_vals of B
    wire,    \* values on the reveal connection
    slot,    \* slot[p]: reveal slots p has sent or received
    out      \* out[p]: the vector `intersection` of p

vars == <<input, pc, evals, mask, y, wire, slot, out>>

Set(p) == input.set[p]
Env(p) == input.env[p]
Ended(p) == pc[p] \in {"done", "failed"}

Init ==
    /\ input \in Inputs
    /\ pc = [p \in Parties |-> "start"]
    /\ evals = [p \in Parties |-> <<>>]
    /\ mask = <<>> /\ y = <<>> /\ wire = <<>>
    /\ slot = [p \in Parties |-> 0]
    /\ out = [p \in Parties |-> <<>>]

------------------------------------------------------------------------------
\* validate_psi_set
ValidSet(s, q) == Len(s) \in 1..MaxItems /\ Range(s) \subseteq 0..(q - 1) /\ IsInjective(s)

Degree(p) == Len(Set(p)) + input.claim[p]

\* One point less than there are coefficients.
PointCount_OneLess(p) == PsiOpaPointCount(Degree(p), Env(p))

\* n_pts
PointCount(p) == PsiOpaPointCount(Degree(p) + 1, Env(p))

\* validate_psi_set, psi_opa_point_count (cg_validate_count before and after the
\* count is rounded to a power of two), require_public_eval_points_distinct
Accepted(p) ==
    /\ ValidSet(Set(p), Env(p).q)
    /\ Degree(p) + 1 <= MaxItems /\ PointCount(p) <= MaxItems
    /\ PublicPointsDistinct(PointCount(p), Env(p))

\* A program throws before it meets its peer.
Reject(p) ==
    /\ pc[p] = "start" /\ ~Accepted(p)
    /\ pc' = [pc EXCEPT ![p] = "failed"]
    /\ UNCHANGED <<input, evals, mask, y, wire, slot, out>>

\* The singleton of an expression: `\E x \in Be(expr)` reads `let x be expr`.
\* TLC then evaluates expr once.
Be(expr) == {expr}

\* p holds its values, or has thrown while it computed them.
Evaluated(p, vals) ==
    /\ pc' = [pc EXCEPT ![p] = IF Thrown \in vals THEN "failed" ELSE "exchange"]
    /\ UNCHANGED <<input, y, wire, slot, out>>

\* p_B and its values, opa_receive_with_q
ReceiverPrepare ==
    /\ pc["B"] = "start" /\ Accepted("B")
    /\ \E env \in Be(Env("B")), s \in Be(Set("B")), n \in Be(PointCount("B")) :
       \E pB \in Be(PolyFromRoots(s, env)), alpha \in Be(PublicEvalPoints(n, env)) :
       \E x \in Be(PolyEvalBatchAuto(pB, alpha, env)) :
         /\ evals' = [evals EXCEPT !["B"] = x]
         /\ Evaluated("B", {x})
    /\ UNCHANGED mask

\* random_poly
RandomPoly(degree) == [1..(degree + 1) -> MaskValues]

\* r_A, r'_A, q_A = p_A r'_A and their values, opa_send_with_q
SenderPrepare ==
    /\ pc["A"] = "start" /\ Accepted("A")
    /\ \E rA \in RandomPoly(Len(Set("A"))), rA_prime \in RandomPoly(input.claim["A"]) :
       \E env \in Be(Env("A")), s \in Be(Set("A")), n \in Be(PointCount("A")) :
       \E pA \in Be(PolyFromRoots(s, env)), alpha \in Be(PublicEvalPoints(n, env)) :
       \E qA \in Be(PolyMulMod(pA, rA_prime, env)) :
       \E b \in Be(PolyEvalBatchAuto(qA, alpha, env)), a \in Be(PolyEvalBatchAuto(rA, alpha, env)) :
         /\ evals' = [evals EXCEPT !["A"] = [a |-> a, b |-> b]]
         /\ mask' = rA_prime
         /\ Evaluated("A", {a, b})

------------------------------------------------------------------------------
\* The batch of OLEs.
Meet == \A p \in Parties : pc[p] = "exchange"
N(p) == IF p = "A" THEN Len(evals["A"].a) ELSE Len(evals["B"])
Answers(n) ==
    [i \in 1..n |-> (evals["A"].a[i] * evals["B"][i] + evals["A"].b[i]) % Env("A").q]
AfterExchange(p) == IF p = "B" THEN "output" ELSE IF input.twoWay THEN "listen" ELSE "done"

\* The numbers of OLEs all processes of the batch have in mind.
Counts == {N(p) : p \in Parties} \cup (IF input.firewalls THEN Range(input.expected) ELSE {})
SameCounts == Cardinality(Counts) = 1

\* check_rf_metadata, on every link: the counts, and in the digest the kind of
\* the points (a firewall has the settings of the party it serves).
SameMetadata == SameCounts /\ Env("A").ntt = Env("B").ntt

ExchangeRefused ==
    /\ Meet /\ input.validate /\ ~SameMetadata
    /\ pc' = [p \in Parties |-> "failed"]
    /\ UNCHANGED <<input, evals, mask, y, wire, slot, out>>

Exchange ==
    /\ Meet /\ SameCounts /\ (input.validate => SameMetadata)
    /\ y' = Answers(N("B"))
    /\ pc' = [p \in Parties |-> AfterExchange(p)]
    /\ UNCHANGED <<input, evals, mask, wire, slot, out>>

\* The receiver asks for fewer: when its last chunk ends where the sender's
\* chunk does it gets them all.  The sender runs out of ciphertexts.
ExchangeShort ==
    /\ Meet /\ ~input.validate /\ ~input.firewalls /\ N("B") < N("A")
    /\ \E aligned \in BOOLEAN :
         /\ pc' = [A |-> "failed", B |-> IF aligned THEN "output" ELSE "failed"]
         /\ y' = IF aligned THEN Answers(N("B")) ELSE <<>>
    /\ UNCHANGED <<input, evals, mask, wire, slot, out>>

\* The receiver asks for more than it is given.  The sender may take a
\* ciphertext for the acknowledgement.
ExchangeLong ==
    /\ Meet /\ ~input.validate /\ ~input.firewalls /\ N("B") > N("A")
    /\ \E next \in {"failed", AfterExchange("A")} : pc' = [A |-> next, B |-> "failed"]
    /\ UNCHANGED <<input, evals, mask, y, wire, slot, out>>

\* Through the firewalls: each process reads as many ciphertexts as it sends on,
\* in both directions, so that the receiver gets all its answers only if all
\* four counts agree.  A sender with the smallest may have been served.
ChainBroken ==
    /\ Meet /\ ~input.validate /\ input.firewalls /\ ~SameCounts
    /\ \E next \in {"failed"} \cup (IF N("A") = Min(Counts) THEN {"done"} ELSE {}) :
         pc' = [A |-> next, B |-> "failed"]
    /\ UNCHANGED <<input, evals, mask, y, wire, slot, out>>

------------------------------------------------------------------------------
\* The membership test on S_B.
Output ==
    /\ pc["B"] = "output"
    /\ \E env \in Be(Env("B")), s \in Be(Set("B")), y_vals \in Be(y) :
       \E v \in Be(LagrangeEvalBatchAuto(y_vals, s, env)) :
         LET keep(kept, i) == IF v[i] = 0 THEN Append(kept, s[i]) ELSE kept IN
         IF v = Thrown
         THEN pc' = [pc EXCEPT !["B"] = "failed"] /\ UNCHANGED out
         ELSE /\ pc' = [pc EXCEPT !["B"] = IF input.twoWay THEN "connect" ELSE "done"]
              /\ out' = [out EXCEPT !["B"] = FoldLeft(keep, <<>>, [i \in DOMAIN s |-> i])]
    /\ UNCHANGED <<input, evals, mask, y, wire, slot>>

\* reveal_bound, as each side computes it
RevealBound(p) == Smaller(Len(Set(p)), input.claim[p])

\* The receiver throws after it has connected if it has too much to reveal.
Connect ==
    /\ pc["B"] = "connect" /\ pc["A"] = "listen"
    /\ pc' = [A |-> "reveal", B |-> IF Len(out["B"]) > RevealBound("B") THEN "failed" ELSE "send"]
    /\ UNCHANGED <<input, evals, mask, y, wire, slot, out>>

\* The next slot: a value of the intersection, then zeros.
RevealSend ==
    LET i == slot["B"] + 1 IN
    /\ pc["B"] = "send" /\ i <= RevealBound("B")
    /\ wire' = Append(wire, IF i <= Len(out["B"]) THEN out["B"][i] ELSE 0)
    /\ slot' = [slot EXCEPT !["B"] = i]
    /\ UNCHANGED <<input, pc, evals, mask, y, out>>

\* Values are taken without a look at S_A.
Kept_Unfiltered(value, sofar) == value \notin Range(sofar)

Kept(value, sofar) == value \in Range(Set("A")) /\ value \notin Range(sofar)

RevealRecv ==
    /\ pc["A"] = "reveal" /\ slot["A"] < RevealBound("A") /\ wire # <<>>
    /\ wire' = Tail(wire)
    /\ slot' = [slot EXCEPT !["A"] = @ + 1]
    /\ out' = [out EXCEPT !["A"] = IF Kept(Head(wire), @) THEN Append(@, Head(wire)) ELSE @]
    /\ UNCHANGED <<input, pc, evals, mask, y>>

RevealEnd(p) ==
    /\ pc[p] = (IF p = "A" THEN "reveal" ELSE "send")
    /\ slot[p] = RevealBound(p)
    /\ pc' = [pc EXCEPT ![p] = "done"]
    /\ UNCHANGED <<input, evals, mask, y, wire, slot, out>>

------------------------------------------------------------------------------
\* The listening socket has no timeout.
Stranded_NoListen(p) ==
    \/ pc[p] = "exchange" /\ Ended(Other(p))
    \/ pc[p] \in {"connect", "send"} /\ Ended("A")
    \/ pc[p] = "reveal" /\ slot[p] < RevealBound(p) /\ wire = <<>> /\ Ended("B")

\* p waits for a peer that has ended, or, listening, for a peer that is slow.
Stranded(p) ==
    \/ pc[p] = "exchange" /\ Ended(Other(p))
    \/ pc[p] = "listen"
    \/ pc[p] \in {"connect", "send"} /\ Ended("A")
    \/ pc[p] = "reveal" /\ slot[p] < RevealBound(p) /\ wire = <<>> /\ Ended("B")

\* A timeout, the end of the retries, or an error of a closed connection.
GiveUp(p) ==
    /\ Stranded(p)
    /\ pc' = [pc EXCEPT ![p] = "failed"]
    /\ UNCHANGED <<input, evals, mask, y, wire, slot, out>>

\* What the programs do by themselves, without and with firewalls.
PsiSender == ~input.firewalls /\ (SenderPrepare \/ Reject("A"))
PsiReceiver == ~input.firewalls /\ (ReceiverPrepare \/ Output \/ Reject("B"))
RfPsiSender == input.firewalls /\ (SenderPrepare \/ Reject("A"))
RfPsiReceiver == input.firewalls /\ (ReceiverPrepare \/ Output \/ Reject("B"))

Compute == PsiSender \/ PsiReceiver \/ RfPsiSender \/ RfPsiReceiver
Together ==
    ExchangeRefused \/ Exchange \/ ExchangeShort \/ ExchangeLong \/ ChainBroken \/ Connect
SenderNext == RevealRecv \/ RevealEnd("A") \/ GiveUp("A")
ReceiverNext == RevealSend \/ RevealEnd("B") \/ GiveUp("B")
Finished == (\A p \in Parties : Ended(p)) /\ UNCHANGED vars

Next == Compute \/ SenderNext \/ ReceiverNext \/ Together \/ Finished

\* A computation needs nobody else and comes to an end: weak fairness of
\* Compute for each party, without the cost of its ENABLED.
ComputationsEnd == \A p \in Parties : []<>(pc[p] \notin {"start", "output"})

Spec ==
    /\ Init /\ [][Next]_vars
    /\ ComputationsEnd
    /\ WF_vars(SenderNext) /\ WF_vars(ReceiverNext) /\ WF_vars(Together)

------------------------------------------------------------------------------
ClaimRight(p) == input.claim[p] = Len(Set(Other(p)))

\* The receiver outputs "exactly the receiver elements that are also in S_A",
\* and those at which r'_A vanishes.  Under lane validation it is enough that
\* one of the programs was told the right size: the other then fails or has
\* the same points.  Without it both sizes and the kind of the points must be
\* right.
IntersectionExact ==
    LET trusted == IF input.validate THEN \E p \in Parties : ClaimRight(p)
                   ELSE Env("A").ntt = Env("B").ntt /\ \A p \in Parties : ClaimRight(p)
        common(b) == b \in Range(Set("A")) \/ PolyEval(mask, b, Env("A").q) = 0
    IN  trusted /\ pc["B"] \in {"connect", "send", "done"} =>
            out["B"] = SelectSeq(Set("B"), common)

\* Each program counts the reveal slots from the sizes it was told.  A sender
\* that ends well has counted no more than the receiver; it ends with those of
\* the receiver's values in the slots it has counted that are in its own set,
\* each once, and with a zero of its own set if one of these slots was padded.
\* False members of the receiver's output never pass, and values are cut off
\* only if the sender has counted fewer slots than the receiver has values.
RevealExact ==
    LET slots == RevealBound("A")
        values == {out["B"][i] : i \in 1..Smaller(slots, Len(out["B"]))}
        padding == IF Len(out["B"]) < slots THEN {0} ELSE {}
    IN  input.twoWay /\ pc["A"] = "done" =>
            /\ slots <= RevealBound("B") /\ IsInjective(out["A"])
            /\ Range(out["A"]) = Range(Set("A")) \cap (values \cup padding)

\* Both programs end, whatever either was started with.
EveryoneEnds == <>(\A p \in Parties : Ended(p))
=============================================================================
