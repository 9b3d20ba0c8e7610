\* Two callers on pools of 0, 1 and 2 workers: refinement and liveness.
SPECIFICATION FairSpec
CONSTANTS
    Callers = {main, enc_b}
    NoCall = NoCall
    PoolSizes = {0, 1, 2}
    MaxCalls = 1
    Ranges <- MCRanges
INVARIANTS
    TypeOK
PROPERTIES
    AbsSpec
    CallTerminates
    ShutdownCompletes
