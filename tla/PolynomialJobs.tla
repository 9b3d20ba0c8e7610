--------------------------- MODULE PolynomialJobs ---------------------------
(***************************************************************************)
(* The algorithms of Polynomial, each run on chosen inputs under chosen    *)
(* settings and compared with the definition of what it computes.          *)
(***************************************************************************)
EXTENDS Polynomial

CONSTANTS
    Envs,      \* settings
    Polys,     \* polynomials
    Points,    \* lists of points
    Domains,   \* numbers of public points
    Masks      \* values of the masks rho

ASSUME JobsAssumption == Envs \subseteq Settings

VARIABLES env, job
vars == <<env, job>>

Init == env \in Envs /\ job = [kind |-> "none"]

Multiply ==
    /\ job.kind = "none"
    /\ \E a, b \in Polys :
         job' = [kind |-> "mul", a |-> a, b |-> b, out |-> PolyMulMod(a, b, env)]
    /\ UNCHANGED env

\* At the public points, as OPA does, or at any others.
Evaluate ==
    /\ job.kind = "none"
    /\ \E p \in Polys, xs \in Points \cup {PublicEvalPoints(n, env) : n \in Domains} :
         job' = [kind |-> "eval", p |-> p, xs |-> xs, out |-> PolyEvalBatchAuto(p, xs, env)]
    /\ UNCHANGED env

\* Values of p at the public points are turned into its values elsewhere, as
\* PSI does.
Reconstruct ==
    /\ job.kind = "none"
    /\ \E p \in Polys, n \in Domains, xs \in Points :
         /\ Len(p) <= n
         /\ job' = [kind |-> "rec", p |-> p, n |-> n, xs |-> xs,
                    out |-> LagrangeEvalBatchAuto(
                              PolyEvalBatchHorner(p, PublicEvalPoints(n, env), env.q), xs, env)]
    /\ UNCHANGED env

\* cg_check_ope and cg_check_opa recompute the outputs from the dumped inputs.
CheckOpe(p, alpha, output) == PolyEval(p, alpha, env.q) = output
CheckOpa(pA, rA, pB, alpha, y) ==
    \A i \in DOMAIN alpha :
        LET at(p) == PolyEval(p, alpha[i], env.q) IN y[i] = (at(rA) * at(pB) + at(pA)) % env.q

\* Both sides of OPE around a batch of OLEs.
Ope ==
    /\ job.kind = "none"
    /\ \E p \in {s \in Polys : Len(s) >= 2} : \E alpha \in 0..(env.q - 1), rho \in [1..(Len(p) - 1) -> Masks] :
         LET A == OpeA(p, rho)
             B == OpeB(p, rho, env.q)
             y == [i \in DOMAIN A |-> (A[i] * alpha + B[i]) % env.q]
             output == FinishOpeReceiver(y, alpha, env.q)
         IN  job' = [kind |-> "ope", p |-> p, alpha |-> alpha, rho |-> rho,
                     out |-> output, checked |-> CheckOpe(p, alpha, output)]
    /\ UNCHANGED env

\* The values the OPA receiver, and the OPA sender, brings into the batch.
OpaReceive(pB, alpha) == PolyEvalBatchAuto(pB, alpha, env)
OpaSend(pA, rA, alpha) ==
    [a |-> PolyEvalBatchAuto(rA, alpha, env), b |-> PolyEvalBatchAuto(pA, alpha, env)]

\* "need exactly d+1 coefficients", "need exactly 2d+1 additive coefficients"
OpaReceiverPolys(d) == {p \in Polys : Len(p) = d + 1}
OpaSenderPolys(d) == {p \in Polys : Len(p) = 2 * d + 1}

\* Both sides of OPA around a batch of OLEs: p_A + r_A p_B at the public points.
\* (`\E v \in {e}` stands for `let v be e`, evaluated once.)
Opa ==
    /\ job.kind = "none"
    /\ \E d \in 0..2, n \in Domains :
       \E pB \in OpaReceiverPolys(d), pA \in OpaSenderPolys(d), rA \in OpaReceiverPolys(d) :
       \E alpha \in {PublicEvalPoints(n, env)} :
       \E x \in {OpaReceive(pB, alpha)}, sent \in {OpaSend(pA, rA, alpha)} :
         LET y == [i \in 1..n |-> (sent.a[i] * x[i] + sent.b[i]) % env.q]
             thrown == Thrown \in {x, sent.a, sent.b}
         IN  job' = [kind |-> "opa", pA |-> pA, rA |-> rA, pB |-> pB, alpha |-> alpha,
                     out |-> IF thrown THEN Thrown ELSE y,
                     checked |-> thrown \/ CheckOpa(pA, rA, pB, alpha, y)]
    /\ UNCHANGED env

Finished == job.kind # "none" /\ UNCHANGED vars

Next == Multiply \/ Evaluate \/ Reconstruct \/ Ope \/ Opa \/ Finished
Spec == Init /\ [][Next]_vars

------------------------------------------------------------------------------
\* The definitions: a coefficient of a product, and a value.
ProductCoeff(a, b, k) ==
    MapThenSumSet(LAMBDA i : Coeff(a, i) * Coeff(b, k - i),
                  {i \in 0..k : i < Len(a) /\ k - i < Len(b)})
ValueAt(p, x) == MapThenSumSet(LAMBDA i : Coeff(p, i) * PowMod(x, i, env.q), 0..(Len(p) - 1)) % env.q

\* poly_mul_mod returns the product modulo q without trailing zeros, whichever
\* of the transform, Karatsuba and the naive loop it selects.
ProductsExact ==
    job.kind = "mul" =>
        job.out = PolyTrim([k \in 1..(Len(job.a) + Len(job.b) - 1) |->
                              ProductCoeff(job.a, job.b, k - 1) % env.q])

\* poly_eval_batch_auto returns the values at the points, in their order, by
\* whichever method.  Only a forced transform may throw.
EvaluationsExact ==
    job.kind = "eval" =>
        \/ job.out = [i \in DOMAIN job.xs |-> ValueAt(job.p, job.xs[i])]
        \/ job.out = Thrown /\ env.method = "ntt"

\* lagrange_eval_batch_auto recovers a polynomial of degree below n from its n
\* public values, whichever points the process uses and whether it interpolates
\* by the inverse transform, by the product tree or not at all.
ReconstructionExact ==
    job.kind = "rec" =>
        \/ job.out = [i \in DOMAIN job.xs |-> ValueAt(job.p, job.xs[i])]
        \/ job.out = Thrown /\ env.method = "ntt"

\* "the receiver only learns final p(alpha)": the masks of consecutive OLEs
\* cancel and leave p(alpha), for all masks.  OPA yields p_A + r_A p_B at the
\* public points, by whatever method either side evaluates, for fewer points
\* than coefficients too.  The offline checkers accept these outputs.
SharesExact ==
    /\ job.kind = "ope" => job.out = ValueAt(job.p, job.alpha) /\ job.checked
    /\ job.kind = "opa" =>
         LET sum(x) == (ValueAt(job.pA, x) + ValueAt(job.rA, x) * ValueAt(job.pB, x)) % env.q IN
         \/ job.out = Thrown /\ env.method = "ntt"
         \/ job.out = [i \in DOMAIN job.alpha |-> sum(job.alpha[i])] /\ job.checked
==============================================================================
