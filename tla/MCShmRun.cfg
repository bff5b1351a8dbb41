SPECIFICATION Spec
CONSTANT MaxFaults = 2
INVARIANTS
    ResultIsEarned
    NothingLeftRunning
PROPERTY PassesUnlessDisturbed
