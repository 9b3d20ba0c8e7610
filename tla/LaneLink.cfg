\* Settings that differ in any way; up to two of: lanes that break on either
\* side, a connection from another run.
SPECIFICATION FairSpec
CONSTANTS
    LaneCounts = {1, 3}
    Counts = {2, 4}
    Params = {1}
    Validations = {TRUE, FALSE}
    Cap = 1
    MaxTroubles = 2
INVARIANTS
    TypeOK
    InPlace
    NeverStuck
PROPERTIES
    EveryoneEnds
    Completes
