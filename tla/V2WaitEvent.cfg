SPECIFICATION Spec
CONSTANTS
    Setups <- OneClient
    HasWaitEvent = FALSE
    MaxFaults = 0
PROPERTY RecordedWaitReturns
