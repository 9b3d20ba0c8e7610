\* A batch larger than the buffers.
SPECIFICATION Spec
CONSTANTS
    Q = 17
    Counts = {4}
    Cap = 1
    X <- MCX
    A <- MCA
    B <- MCB
    Sk = 5
    Maul <- MCMaul
    Coin <- MCCoin
INVARIANTS
    NeverStuck
