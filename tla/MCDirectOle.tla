----------------------------- MODULE MCDirectOle -----------------------------
(***************************************************************************)
(* Small instances of DirectOle.                                           *)
(***************************************************************************)
EXTENDS DirectOle

MCX == [i \in Index |-> (3 * i + 2) % Q]
MCA == [i \in Index |-> (2 * i + 1) % Q]
MCB == [i \in Index |-> (5 * i + 4) % Q]
MCCoin == [p \in Procs |-> [i \in Index |-> 100 * p + i + 7]]
==============================================================================
