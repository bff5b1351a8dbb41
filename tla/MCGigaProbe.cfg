\* two handshake rounds, payloads of one word, two mixed passes, and a seqlock
\* phase of two updates of a two-word snapshot; Clients are the code's lane numbers
CONSTANTS
    Iterations = 2
    PayloadWords = 1
    Passes = 2
    Clients = {0, 1}
    Words = {w0, w1}
    Updates = 2
SPECIFICATION Spec
INVARIANTS
    NoTornSnapshot
    LastReadIsFinal
    NoDataRace
    PassIsEarned
PROPERTIES
    PassUnlessTimeout
CHECK_DEADLOCK FALSE
