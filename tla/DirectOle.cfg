\* Chunked and whole-batch programs, equal and unequal chunk sizes, with and without metadata validation.
SPECIFICATION FairSpec
CONSTANTS
    N = 5
    Q = 17
    LaneCounts = {1, 2, 3}
    ChunkSizes = {1, 2, 3, 5}
    Wholes = {TRUE, FALSE}
    Validate = {TRUE, FALSE}
    Cap = 1
    X <- MCX
    A <- MCA
    B <- MCB
    Sk = 5
    Coin <- MCCoin
INVARIANTS
    TypeOK
    LockStep
    SenderClosesLast
    OutputsCorrect
PROPERTIES
    Completes
