------------------------------- MODULE MCPsi -------------------------------
(***************************************************************************)
(* Small instances of Psi modulo 17.  Sets with and without common         *)
(* elements, with 0 (the padding value), with 16 (a root of 1 + x, so that *)
(* masks with coefficients 0 and 1 vanish there), and two with duplicates.*)
(***************************************************************************)
EXTENDS Psi

MCSettings(ntt, method) ==
    [q |-> 17, ntt |-> ntt, method |-> method, nttMin |-> 99, cutoff |-> 9,
     hornerMax |-> 99, toCoeff |-> 99]

\* Equal settings, different kinds of points, and a method that may throw.
MCEnvs ==
    {[A |-> MCSettings(n[1], n[3]), B |-> MCSettings(n[2], n[3])] :
        n \in {<<TRUE, TRUE, "auto">>, <<FALSE, FALSE, "auto">>,
               <<TRUE, FALSE, "auto">>, <<FALSE, FALSE, "ntt">>}}

MCSets(p) ==
    IF p = "A" THEN {<<5>>, <<0, 3>>, <<3, 3>>} ELSE {<<5>>, <<16, 0>>, <<3, 5>>, <<2, 2>>}

MCDirect ==
    {[env |-> e, validate |-> v, twoWay |-> w, firewalls |-> FALSE,
      set |-> [A |-> a, B |-> b], claim |-> [A |-> m, B |-> n],
      expected |-> [A |-> 0, B |-> 0]] :
        e \in MCEnvs, v \in BOOLEAN, w \in BOOLEAN,
        a \in MCSets("A"), b \in MCSets("B"), m \in 1..3, n \in {1, 2, 3, 7}}

\* Firewalls told the same count, right for some of the sets, or two counts.
MCFirewalled ==
    {[env |-> e, validate |-> v, twoWay |-> FALSE, firewalls |-> TRUE,
      set |-> [A |-> a, B |-> b], claim |-> [A |-> m, B |-> n],
      expected |-> [A |-> x[1], B |-> x[2]]] :
        e \in MCEnvs, v \in BOOLEAN,
        a \in MCSets("A"), b \in MCSets("B") \ {<<3, 5>>}, m \in 1..2, n \in 1..2,
        x \in {<<4, 4>>, <<4, 5>>}}

MCInputs == MCDirect \cup MCFirewalled
=============================================================================
