SPECIFICATION Spec
INVARIANTS
    ArenasFoldExactly
    GatesAreSound
    PrintedTimesAreReal
CHECK_DEADLOCK FALSE
