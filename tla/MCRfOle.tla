------------------------------- MODULE MCRfOle -------------------------------
(***************************************************************************)
(* Small instances of RfOle: the inputs differ from index to index, so that*)
(* a misplaced or mis-keyed ciphertext shows in the outputs.               *)
(***************************************************************************)
EXTENDS RfOle

MCX == [i \in Index |-> (3 * i + 2) % Q]
MCA == [i \in Index |-> (2 * i + 1) % Q]
MCB == [i \in Index |-> (5 * i + 4) % Q]
MCMaul == [p \in Firewalls |-> IF p = RRF THEN 11 ELSE 101]
MCCoin ==
    [p \in Procs |-> [round \in {1, 2} |-> [i \in Index |-> 1000 * p + 100 * round + i + 7]]]
==============================================================================
