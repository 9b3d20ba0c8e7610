-------------------------------- MODULE AHE --------------------------------
(***************************************************************************)
(* The class-group encryption scheme of cg_ahe.hpp and the key-mauling     *)
(* operations of cg_rf_common.hpp, in the exponent.                        *)
(*                                                                         *)
(* Every group element the program builds is a product of powers of the    *)
(* generators h and f, so it is represented by its exponents: a public key *)
(* h^k by k, and a ciphertext (c1, c2) = (h^r, f^m h^e) by [r, m, e].  f   *)
(* has order q, hence m is a residue; the order of h is unknown to the     *)
(* program, so r and e are integers and an equality shown here holds in    *)
(* every such group.                                                       *)
(***************************************************************************)
EXTENDS Integers

CONSTANT Q                     \* cleartext_bound(): the order of f

ASSUME QAssumption == Q \in Nat \ {0}

Residues == 0..(Q - 1)
Ciphertexts == [r : Int, m : Residues, e : Int]

\* c encrypts m under the key h^k.
Encrypts(c, k, m) == c.m = m /\ c.e = k * c.r

\* A default-constructed CipherText: not an encryption under any key.
Blank == [r |-> 0, m |-> 0, e |-> 1]

\* encrypt(pk, m; r): (h^r, f^m pk^r)
Encrypt(k, m, r) == [r |-> r, m |-> m % Q, e |-> k * r]

\* add: both components are composed, without rerandomisation.
Add(c, d) == [r |-> c.r + d.r, m |-> (c.m + d.m) % Q, e |-> c.e + d.e]

\* cmult: both components are raised to the power alpha.
CMult(c, alpha) ==
    [r |-> alpha * c.r, m |-> (alpha * c.m) % Q, e |-> alpha * c.e]

\* decrypt takes the logarithm of c2 / c1^sk in <f>; it is meaningless when
\* that quotient is not a power of f.
Garbage == -1
Decrypt(k, c) == IF c.e = k * c.r THEN c.m ELSE Garbage

\* maul_pk: pk' = pk h^r
MaulPk(k, rho) == k + rho

\* A precomputed randomiser (h^s, pk^s), the struct EncZero.
EncZero(k, s) == [R |-> s, E |-> k * s]

\* maul_fwd_rerand: (c1 R, c2 c1^rho E)
MaulFwdRerand(c, rho, pre) ==
    [r |-> c.r + pre.R, m |-> c.m, e |-> c.e + c.r * rho + pre.E]

\* The shift is applied a second time and not taken back.
MaulInvRerand_Forward(c, rho, pre) ==
    [r |-> c.r + pre.R, m |-> c.m, e |-> c.e + c.r * rho + pre.E]

\* maul_inv_rerand: (c1 R, c2 c1^-rho E)
MaulInvRerand(c, rho, pre) ==
    [r |-> c.r + pre.R, m |-> c.m, e |-> c.e - c.r * rho + pre.E]
=============================================================================
