\* One process may die; two lanes, chunk sizes chosen by each process.
SPECIFICATION FairSpec
CONSTANTS
    N = 3
    Q = 17
    LaneCounts = {2}
    ChunkSizes = {1, 2}
    Cap = 1
    X <- MCX
    A <- MCA
    B <- MCB
    Sk = 5
    Maul <- MCMaul
    Coin <- MCCoin
    MaxFailures = 1
    None = None
INVARIANTS
    TypeOK
    StreamsAligned
    PhaseSeparation
    OutputsCorrect
PROPERTIES
    EveryoneEnds
