SPECIFICATION Spec
CONSTANTS
    Lab <- RunnerTable
    MaxFaults <- FaultsPerRun
INVARIANTS
    LinesMeetTheirReader
    PassedRunIsClean
    CaseLockstep
PROPERTIES
    EveryRunEnds
    PassesUnlessDisturbed
