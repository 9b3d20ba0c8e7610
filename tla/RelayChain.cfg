\* All three protocols, bounded buffers, one process may die.
SPECIFICATION Spec
CONSTANTS
    N = 3
    Q = 17
    Protocols = {"ole3", "rf_ole3", "reveal"}
    LaneCounts = {2}
    ChunkSizes = {1, 2}
    Cap = 1
    A <- MCA
    B <- MCB
    X <- MCX
    R <- MCR
    ABlind <- MCABlind
    BBlind <- MCBBlind
    Sk = 5
    Maul <- MCMaul
    Coin <- MCCoin
    OwnValues = {0, 5, 6}
    Intersections <- MCIntersections
    MaxFailures = 1
    None = None
INVARIANTS
    TypeOK
    InTurn
    Ole3Exact
    RevealExact
PROPERTIES
    EveryoneEnds
