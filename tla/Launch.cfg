\* Ticks of 90 s: 180 s, 3600 * 0.2 s, 900 s and 3600 s.
SPECIFICATION Spec
CONSTANTS
    IoTimeout = 2
    Retries = 8
    ReadyTimeout = 10
    ChildTimeout = 40
    MaxDelay = 12
    MaxLag = 1
    MaxCrashes = 1
INVARIANTS
    InTime
    Verdicts
PROPERTIES
    BothEnd
