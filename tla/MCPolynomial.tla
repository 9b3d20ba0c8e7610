---------------------------- MODULE MCPolynomial ----------------------------
(***************************************************************************)
(* Small instances of PolynomialJobs: modulo 17, which stands for the prime*)
(* of the transform (3 generates its group), and modulo 13.                *)
(***************************************************************************)
EXTENDS PolynomialJobs

\* Thresholds so small that the fast algorithms are used, and so large that
\* they are not.
MCEnvs ==
    {[q |-> m[1], ntt |-> m[2], method |-> how, nttMin |-> t[1], cutoff |-> t[2],
      hornerMax |-> t[3], toCoeff |-> t[4]] :
        m \in {<<17, TRUE>>, <<17, FALSE>>, <<13, TRUE>>},
        how \in {"auto", "ntt", "horner", "multipoint"},
        t \in {<<1, 2, 0, 0>>, <<99, 3, 99, 99>>}}

\* Coefficients up to 19, that is, also some that are not reduced.
MCPolys ==
    {[i \in 1..n |-> (s * i * i + 3 * i + s) % 20] : n \in {1, 2, 3, 5}, s \in {2, 7}}
        \cup {<<0>>, <<0, 0, 1>>, <<16, 1>>, <<1, 1, 0, 4, 0, 0, 1>>}

MCPoints == {<<5>>, <<2, 0, 11>>, <<1, 2, 3, 4>>}
=============================================================================
