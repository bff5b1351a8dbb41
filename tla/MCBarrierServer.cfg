SPECIFICATION Spec
CONSTANTS
    Connections = {k1, k2, k3, k4}
    Expected = {a}
    Other = other
    Malformed = malformed
    Nobody = nobody
    MaxLoad = 4
SYMMETRY Symmetry
INVARIANTS
    OneReleasePerParty
    VerdictIsTruthful
    NoSocketForgotten
CHECK_DEADLOCK FALSE
