SPECIFICATION Spec
CONSTANTS
    Setups <- AllSetups
    HasWaitEvent = TRUE
    MaxFaults = 1
INVARIANTS EvidenceIsRecorded SuccessIsReal
PROPERTY CohortGetsThrough
