\* Two callers share two workers, with two tasks each: safety.
SPECIFICATION Spec
CONSTANTS
    Callers = {main, enc_b}
    NoCall = NoCall
    PoolSizes = {2}
    MaxCalls = 1
    Ranges <- MCSharedRanges
INVARIANTS
    NoDanglingFrame
    Accounting
