\* prewarm_pool on two workers.
SPECIFICATION Spec
CONSTANTS
    Callers = {main}
    NoCall = NoCall
    PoolSizes = {2}
    MaxCalls = 1
    Ranges <- MCPrewarmRanges
INVARIANTS
    PrewarmReachesAllWorkers
