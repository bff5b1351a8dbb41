\* three ping-pong rounds, the whole eight-word payload line, four stream words
CONSTANTS
    Iterations = 3
    PayloadWords = 8
    StreamWords = 4
SPECIFICATION Spec
INVARIANTS
    NoErrors
    NoRacingLoad
PROPERTIES
    SummariesUnlessTimeout
    ImplementsPingPong
CHECK_DEADLOCK FALSE
