--------------------------- MODULE MCStandaloneOle ---------------------------
(***************************************************************************)
(* Small instances of StandaloneOle.                                       *)
(***************************************************************************)
EXTENDS StandaloneOle

MCX == [j \in Index |-> (3 * j + 2) % Q]
MCA == [j \in Index |-> (2 * j + 1) % Q]
MCB == [j \in Index |-> (5 * j + 4) % Q]
MCMaul == [p \in Firewalls |-> IF p = RRF THEN 11 ELSE 101]
MCCoin ==
    [p \in Procs |-> [r \in {1, 2} |-> [j \in Index |-> 1000 * p + 100 * r + j + 7]]]
==============================================================================
