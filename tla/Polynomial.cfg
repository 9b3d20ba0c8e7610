\* Every algorithm under every method, modulo two primes.
SPECIFICATION Spec
CONSTANTS
    NttPrime = 17
    Generator = 3
    Envs <- MCEnvs
    Polys <- MCPolys
    Points <- MCPoints
    Domains = {1, 2, 3, 4, 5, 8}
    Masks = {0, 9}
INVARIANTS
    ProductsExact
    EvaluationsExact
    ReconstructionExact
    SharesExact
