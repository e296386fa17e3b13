CONSTANTS
    Waiters = {w1}
    MaxLines = 2
SPECIFICATION Spec
INVARIANTS
    EverythingStreamed
