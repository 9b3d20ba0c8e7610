----------------------------- MODULE MCRelayChain -----------------------------
(***************************************************************************)
(* Small instances of RelayChain: inputs, blinds and coins differ from     *)
(* index to index and from program to program.                             *)
(***************************************************************************)
EXTENDS RelayChain

MCA == [i \in Index |-> (2 * i + 1) % Q]
MCB == [i \in Index |-> (5 * i + 4) % Q]
MCX == [i \in Index |-> (3 * i + 2) % Q]
MCR == [i \in Index |-> (4 * i + 9) % Q]
MCABlind == [p \in Firewalls |-> [i \in Index |-> (p + 3 * i) % Q]]
MCBBlind == [p \in Firewalls |-> [i \in Index |-> (7 * p + 2 * i) % Q]]
MCMaul == [p \in Firewalls |-> IF p = RRF THEN 11 ELSE 101]
MCNumber == [m \in Messages |-> CASE m = "pk" -> 0 [] m = "a" -> 1 [] m = "b" -> 2
                                  [] m = "y" -> 3 [] m = "z" -> 4]
MCCoin ==
    [p \in Procs |-> [m \in Messages |-> [i \in Index |-> 100 * p + 10 * MCNumber[m] + i + 7]]]

\* Nothing, a zero, a value of A's and one that is not, and one value too many.
MCIntersections == {<<>>, <<5>>, <<0, 6>>, <<9, 5>>, <<5, 6, 0>>, <<6, 5, 9, 0>>}
===============================================================================
