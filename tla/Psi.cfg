\* One-way and two-way PSI, right and wrong sizes, equal and unequal settings.
SPECIFICATION Spec
CONSTANTS
    NttPrime = 17
    Generator = 3
    Inputs <- MCInputs
    MaskValues = {0, 1}
    MaxItems = 9
INVARIANTS
    IntersectionExact
    RevealExact
PROPERTIES
    EveryoneEnds
