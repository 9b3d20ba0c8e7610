----------------------------- MODULE Polynomial -----------------------------
(***************************************************************************)
(* Polynomial arithmetic modulo q of cg_rf_common.hpp: transforms, fast    *)
(* multiplication, evaluation at many points, interpolation, and the rules *)
(* that select an algorithm.                                               *)
(*                                                                         *)
(* A polynomial is the sequence of its coefficients, the constant one      *)
(* first.  `env` holds what the code reads from its environment: the       *)
(* modulus and the settings that select algorithms.  The build without NTL *)
(* is modelled; NTL is a library.  parallel_for is a function over its     *)
(* range, and the caches keyed by (n, q) are transparent, because the      *)
(* settings of a process do not change.                                    *)
(***************************************************************************)
EXTENDS Integers, Sequences, SequencesExt

CONSTANTS
    NttPrime,   \* CG_NTT128_PRIME_DEC
    Generator   \* 3, a generator of its multiplicative group

\* The domains of the transform are the powers of two that divide NttPrime - 1.
ASSUME NttPrimeAssumption == NttPrime \in Nat /\ NttPrime > 2 /\ Generator \in 1..(NttPrime - 1)

Settings ==
    [q : Nat,          \* cleartext_bound()
     ntt : BOOLEAN,    \* CG_USE_NTT_POLY
     method : {"auto", "ntt", "horner", "multipoint"},  \* CG_POLY_EVAL_METHOD
     nttMin : Nat,     \* CG_NTT_POLY_THRESHOLD
     cutoff : Nat,     \* KARATSUBA_CUTOFF, 32 in the code
     hornerMax : Nat,  \* CG_POLY_HORNER_MAX_POINTS
     toCoeff : Nat]    \* CG_PSI_INTERP_TO_COEFF_THRESHOLD

Thrown == <<-1>>       \* the call throws

\* s itself; TLC evaluates its elements once and not at every use.
Tuple(s) == SubSeq(s, 1, Len(s))

Zeros(n) == [i \in 1..n |-> 0]
Larger(m, n) == IF m >= n THEN m ELSE n
Smaller(m, n) == IF m <= n THEN m ELSE n
Coeff(p, i) == IF i < Len(p) THEN p[i + 1] ELSE 0
Reduce(p, q) == [i \in DOMAIN p |-> p[i] % q]

\* poly_trim: no trailing zeros, but at least one coefficient.
PolyTrim(p) ==
    IF p = <<>> THEN p
    ELSE SubSeq(p, 1, Max({1} \cup {i \in DOMAIN p : p[i] # 0}))

PolySlice(p, begin, end) ==
    LET b == Smaller(begin, Len(p))
        e == Smaller(end, Len(p))
    IN  IF e <= b THEN <<0>> ELSE SubSeq(p, b + 1, e)

PolyAddMod(a, b, q) ==
    PolyTrim([i \in 1..Larger(Len(a), Len(b)) |-> (Coeff(a, i - 1) + Coeff(b, i - 1)) % q])

PolySubMod(a, b, q) ==
    PolyTrim([i \in 1..Larger(Len(a), Len(b)) |-> (Coeff(a, i - 1) - Coeff(b, i - 1)) % q])

PowMod(b, e, q) == FoldLeft(LAMBDA acc, x : (acc * x) % q, 1 % q, [i \in 1..e |-> b])
ModInverse(x, q) == CHOOSE y \in 0..(q - 1) : (x * y) % q = 1 % q

(***************************************************************************)
(* The number-theoretic transform.                                         *)
(***************************************************************************)
IsPowerOfTwo(n) == \E k \in 0..n : n = 2 ^ k
NextPowerOfTwo(n) == 2 ^ (CHOOSE k \in 0..n : 2 ^ k >= n /\ \A j \in 0..(k - 1) : 2 ^ j < n)

NttDomainSupported(n, env) == env.ntt /\ env.q = NttPrime /\ IsPowerOfTwo(n)

NttPrimitiveRoot(n, q) == IF n = 1 THEN 1 ELSE PowMod(Generator, (q - 1) \div n, q)

\* ntt_domain_points
NttDomainPoints(n, q) == Tuple([i \in 1..n |-> PowMod(NttPrimitiveRoot(n, q), i - 1, q)])

\* j is increased by one from its highest bit downwards.
RECURSIVE CarryDown(_, _)
CarryDown(j, bit) == IF (j \div bit) % 2 = 1 THEN CarryDown(j - bit, bit \div 2) ELSE j + bit

\* The swaps of the first loop: each index with its mirror image.
BitReversed(a) ==
    LET n == Len(a)
        mirror[i \in 0..(n - 1)] == IF i = 0 THEN 0 ELSE CarryDown(mirror[i - 1], n \div 2)
    IN  Tuple([i \in 1..n |-> a[mirror[i - 1] + 1]])

\* One pass over all blocks of length len; w is the root of that order.
Butterflies(a, len, w, q) ==
    LET half == len \div 2 IN
    Tuple([i \in 1..Len(a) |->
        LET j == (i - 1) % len IN
        IF j < half THEN (a[i] + a[i + half] * PowMod(w, j, q)) % q
        ELSE (a[i - half] - a[i] * PowMod(w, j - half, q)) % q])

\* ntt_inplace
Ntt(a, q, inverse) ==
    LET n == Len(a)
        passes == CHOOSE k \in 0..n : 2 ^ k = n
        root(len) == LET w == NttPrimitiveRoot(len, q)
                     IN  IF inverse THEN ModInverse(w, q) ELSE w
        pass(b, k) == Butterflies(b, 2 ^ k, root(2 ^ k), q)
        b == FoldLeft(pass, BitReversed(a), [k \in 1..passes |-> k])
    IN  IF inverse THEN [i \in 1..n |-> (b[i] * ModInverse(n, q)) % q] ELSE b

Padded(p, n, q) == Tuple([i \in 1..n |-> Coeff(p, i - 1) % q])

\* The cyclic product wraps around: the domain is as long as the longer factor.
PolyMulNttMod_Wraps(a, b, env) ==
    LET n == NextPowerOfTwo(Larger(Len(a), Len(b)))
        fa == Ntt(Padded(a, n, env.q), env.q, FALSE)
        fb == Ntt(Padded(b, n, env.q), env.q, FALSE)
    IN  PolyTrim(Ntt([i \in 1..n |-> (fa[i] * fb[i]) % env.q], env.q, TRUE))

PolyMulNttMod(a, b, env) ==
    LET need == Len(a) + Len(b) - 1
        n == NextPowerOfTwo(need)
        fa == Ntt(Padded(a, n, env.q), env.q, FALSE)
        fb == Ntt(Padded(b, n, env.q), env.q, FALSE)
        c == Ntt([i \in 1..n |-> (fa[i] * fb[i]) % env.q], env.q, TRUE)
    IN  PolyTrim(SubSeq(c, 1, need))

(***************************************************************************)
(* Multiplication.                                                         *)
(***************************************************************************)
PolyMulNaiveMod(a, b, q) ==
    LET term(i, j) == IF j < 0 THEN 0 ELSE Coeff(a, i) * Coeff(b, j)
    IN  PolyTrim([k \in 1..(Len(a) + Len(b) - 1) |->
            FoldLeft(LAMBDA s, i : s + term(i - 1, k - i), 0, [i \in 1..Len(a) |-> i]) % q])

\* poly_mul_mod: transform, Karatsuba or naive.  Slices may be {0}, and parts
\* that would lie beyond the product's last coefficient are cut off.
RECURSIVE PolyMulMod(_, _, _)
PolyMulMod(a, b, env) ==
    LET q == env.q
        half == (Larger(Len(a), Len(b)) + 1) \div 2
        a0 == PolySlice(a, 0, half)
        a1 == PolySlice(a, half, Len(a))
        b0 == PolySlice(b, 0, half)
        b1 == PolySlice(b, half, Len(b))
        z0 == PolyMulMod(a0, b0, env)
        z2 == PolyMulMod(a1, b1, env)
        z01 == PolyMulMod(PolyAddMod(a0, a1, q), PolyAddMod(b0, b1, q), env)
        z1 == PolySubMod(PolySubMod(z01, z0, q), z2, q)
        at(z, i) == IF i < 0 THEN 0 ELSE Coeff(z, i)
    IN
    IF a = <<>> \/ b = <<>> THEN <<0>>
    ELSE IF /\ Larger(Len(a), Len(b)) >= env.nttMin
            /\ NttDomainSupported(NextPowerOfTwo(Len(a) + Len(b) - 1), env)
    THEN PolyMulNttMod(a, b, env)
    ELSE IF Len(a) < env.cutoff \/ Len(b) < env.cutoff
    THEN PolyMulNaiveMod(a, b, q)
    ELSE PolyTrim([k \in 1..(Len(a) + Len(b) - 1) |->
            (at(z0, k - 1) + at(z1, k - 1 - half) + at(z2, k - 1 - 2 * half)) % q])

(***************************************************************************)
(* Product trees.                                                          *)
(***************************************************************************)
PolyLinearFromRoot(x, q) == <<(-x) % q, 1>>

\* A level of the tree from the one below; an odd last element moves up alone.
PairUp(level, op(_, _)) ==
    Tuple([i \in 1..((Len(level) + 1) \div 2) |->
        IF 2 * i <= Len(level) THEN op(2 * i - 1, 2 * i) ELSE level[2 * i - 1]])

RECURSIVE TreeLevels(_, _)
TreeLevels(level, env) ==
    IF Len(level) <= 1 THEN <<level>>
    ELSE <<level>> \o TreeLevels(PairUp(level, LAMBDA l, r : PolyMulMod(level[l], level[r], env)), env)

\* poly_build_product_tree, for at least one point
BuildProductTree(points, env) ==
    TreeLevels(Tuple([i \in DOMAIN points |-> PolyLinearFromRoot(points[i], env.q)]), env)

Root(tree) == tree[Len(tree)][1]

PolyFromRoots(roots, env) == IF roots = <<>> THEN <<1>> ELSE Root(BuildProductTree(roots, env))

(***************************************************************************)
(* Evaluation.                                                             *)
(***************************************************************************)
\* poly_eval and eval_poly_horner
PolyEval(p, x, q) == FoldRight(LAMBDA c, acc : (acc * x + c) % q, p, 0)

\* The reduction of coefficient k by the monic divisor of degree d.
Eliminate(rem, divisor, d, k, q) ==
    Tuple([i \in DOMAIN rem |->
        LET j == i - 1 - (k - d) IN
        IF j \in 0..(d - 1) THEN (rem[i] - rem[k + 1] * divisor[j + 1]) % q ELSE rem[i]])

PolyModMonic(dividend, divisor, q) ==
    LET rem == PolyTrim(Reduce(dividend, q))
        d == Len(divisor) - 1
        down == [i \in 1..(Len(rem) - d) |-> Len(rem) - i]
    IN  IF dividend = <<>> THEN <<0>>
        ELSE IF Len(rem) < Len(divisor) THEN rem
        ELSE IF d = 0 THEN <<0>>
        ELSE PolyTrim(SubSeq(FoldLeft(LAMBDA r, k : Eliminate(r, divisor, d, k, q), rem, down), 1, d))

\* The remainders of a level by the polynomials of the level below.
Descend(rems, level, q) ==
    Tuple([i \in DOMAIN level |-> PolyModMonic(rems[(i + 1) \div 2], level[i], q)])

EvalWithTree(p, tree, q) ==
    LET top == <<PolyModMonic(p, Root(tree), q)>>
        rems == FoldRight(LAMBDA level, r : Descend(r, level, q), SubSeq(tree, 1, Len(tree) - 1), top)
    IN  IF p = <<>> THEN Zeros(Len(tree[1]))
        ELSE Tuple([i \in DOMAIN rems |-> rems[i][1] % q])

\* public_eval_points_cached and rf_opa_eval_points
PublicEvalPoints(n, env) ==
    IF NttDomainSupported(n, env) THEN NttDomainPoints(n, env.q) ELSE [i \in 1..n |-> i]

IsPublicEvalPoints(points, env) == points = PublicEvalPoints(Len(points), env)

PolyEvalBatchNtt(p, n, env) ==
    IF ~NttDomainSupported(n, env) \/ Len(p) > n THEN Thrown
    ELSE Ntt(Padded(p, n, env.q), env.q, FALSE)

PolyEvalBatchHorner(p, points, q) == Tuple([i \in DOMAIN points |-> PolyEval(p, points[i], q)])

\* A cached or a new tree is the same tree.
PolyEvalBatchProductTree(p, points, env) ==
    IF points = <<>> THEN <<>> ELSE EvalWithTree(p, BuildProductTree(points, env), env.q)

\* A polynomial longer than the domain is transformed all the same.
PolyEvalBatchAuto_AnyDegree(p, points, env) ==
    IF NttDomainSupported(Len(points), env) /\ IsPublicEvalPoints(points, env)
    THEN Ntt(Padded(p, Len(points), env.q), env.q, FALSE)
    ELSE PolyEvalBatchHorner(p, points, env.q)

\* poly_eval_batch_auto
PolyEvalBatchAuto(p, points, env) ==
    CASE env.method = "ntt" ->
           IF IsPublicEvalPoints(points, env) THEN PolyEvalBatchNtt(p, Len(points), env) ELSE Thrown
      [] env.method = "horner" -> PolyEvalBatchHorner(p, points, env.q)
      [] env.method = "multipoint" -> PolyEvalBatchProductTree(p, points, env)
      [] OTHER ->
           IF /\ NttDomainSupported(Len(points), env) /\ Len(p) <= Len(points)
              /\ IsPublicEvalPoints(points, env)
           THEN PolyEvalBatchNtt(p, Len(points), env)
           ELSE IF Len(points) <= env.hornerMax THEN PolyEvalBatchHorner(p, points, env.q)
           ELSE PolyEvalBatchProductTree(p, points, env)

(***************************************************************************)
(* Interpolation at the public points.                                     *)
(***************************************************************************)
PolyDerivativeMod(p, q) ==
    IF Len(p) <= 1 THEN <<0>> ELSE PolyTrim([i \in 1..(Len(p) - 1) |-> (p[i + 1] * i) % q])

LagrangeInterpolateNtt(y, env) == PolyTrim(Ntt(Reduce(y, env.q), env.q, TRUE))

\* Two neighbours are combined, each multiplied by the other's polynomial.
CombineLevel(acc, polys, env) ==
    PairUp(acc, LAMBDA l, r : PolyAddMod(PolyMulMod(acc[l], polys[r], env),
                                         PolyMulMod(acc[r], polys[l], env), env.q))

LagrangeInterpolateFromTree(y, tree, env) ==
    LET q == env.q
        denom == PolyEvalBatchProductTree(PolyDerivativeMod(Root(tree), q),
                                          PublicEvalPoints(Len(y), env), env)
        leaves == Tuple([i \in DOMAIN y |-> <<(y[i] * ModInverse(denom[i], q)) % q>>])
    IN  FoldLeft(LAMBDA acc, level : CombineLevel(acc, level, env),
                 leaves, SubSeq(tree, 1, Len(tree) - 1))[1]

\* lagrange_interpolate_public_points, for at least one value
LagrangeInterpolatePublicPoints(y, env) ==
    IF NttDomainSupported(Len(y), env) THEN LagrangeInterpolateNtt(y, env)
    ELSE LagrangeInterpolateFromTree(y, BuildProductTree(PublicEvalPoints(Len(y), env), env), env)

\* require_public_eval_points_distinct
PublicPointsDistinct(n, env) == n <= env.q

Product(s, q) == FoldLeft(LAMBDA acc, x : (acc * x) % q, 1 % q, s)
Factorial(n, q) == Product([i \in 1..n |-> i], q)

\* lagrange_denominator_inverses: i-th point i, hence (i-1)! (n-i)! and a sign.
LagrangeDenominatorInverse(n, i, q) ==
    LET d == (Factorial(i - 1, q) * Factorial(n - i, q)) % q
    IN  ModInverse(IF (n - i) % 2 # 0 THEN q - d ELSE d, q)

\* lagrange_eval_batch: the value at x of the polynomial with value y[i] at i.
LagrangeEval(y, x, q) ==
    LET n == Len(y)
        L(i) == Product([j \in 1..(i - 1) |-> (x - j) % q], q)
        R(i) == Product([j \in 1..(n - i) |-> (x - (i + j)) % q], q)
        W(i) == (y[i] * LagrangeDenominatorInverse(n, i, q)) % q
    IN  FoldLeft(LAMBDA s, i : (s + W(i) * L(i) * R(i)) % q, 0, [i \in 1..n |-> i])

LagrangeEvalBatch(y, targets, env) ==
    IF ~PublicPointsDistinct(Len(y), env) THEN Thrown
    ELSE [t \in DOMAIN targets |-> LagrangeEval(y, targets[t], env.q)]

\* The points of the domain are taken to be 1, 2, ... also when they are roots.
LagrangeEvalBatchAuto_IgnoresDomain(y, targets, env) == LagrangeEvalBatch(y, targets, env)

\* lagrange_eval_batch_auto
LagrangeEvalBatchAuto(y, targets, env) ==
    IF y = <<>> \/ targets = <<>> THEN Zeros(Len(targets))
    ELSE IF NttDomainSupported(Len(y), env)
    THEN PolyEvalBatchAuto(LagrangeInterpolateNtt(y, env), targets, env)
    ELSE IF Larger(Len(y), Len(targets)) < env.toCoeff THEN LagrangeEvalBatch(y, targets, env)
    ELSE PolyEvalBatchAuto(LagrangeInterpolatePublicPoints(y, env), targets, env)

\* psi_opa_point_count
PsiOpaPointCount(n, env) == IF env.ntt /\ env.q = NttPrime THEN NextPowerOfTwo(n) ELSE n

(***************************************************************************)
(* The reduction of polynomial evaluation to OLEs, cg_ope_common.hpp.      *)
(***************************************************************************)
\* build_ope_sender_ole_inputs: one masked step of Horner's rule per OLE.
OpeA(p, rho) == LET d == Len(p) - 1 IN [i \in 1..d |-> IF i = 1 THEN p[d + 1] ELSE rho[i - 1]]

\* The mask of a step is not taken out of its constant.
OpeB_NoMask(p, rho, q) == LET d == Len(p) - 1 IN [i \in 1..d |-> p[d - i + 1] % q]

OpeB(p, rho, q) ==
    LET d == Len(p) - 1
    IN  [i \in 1..d |-> IF i = d THEN p[1] ELSE (p[d - i + 1] - rho[i]) % q]

\* finish_ope_receiver
FinishOpeReceiver(y, alpha, q) == FoldLeft(LAMBDA s, v : (v + alpha * s) % q, 0, y)
=============================================================================
