\* Batches that fit into the buffers and one that does not, equal and unequal counts.
SPECIFICATION FairSpec
CONSTANTS
    Q = 17
    Counts = {1, 3, 4}
    Cap = 1
    X <- MCX
    A <- MCA
    B <- MCB
    Sk = 5
    Maul <- MCMaul
    Coin <- MCCoin
INVARIANTS
    TypeOK
    VerdictSound
    FitsNeverStuck
PROPERTIES
    EveryoneEnds
