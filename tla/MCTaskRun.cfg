CONSTANTS
    Waiters = {w1, w2}
    MaxLines = 2
SPECIFICATION FairSpec
INVARIANTS
    LogIsWhole
    ExitIsTrue
PROPERTIES
    PromiseKept
    EndsForAll
