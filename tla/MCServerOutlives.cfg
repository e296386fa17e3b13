CONSTANTS
    Keys = {k1}
    Starts = {t1, t2}
    Stops = {x1}
    None = None
SPECIFICATION Spec
INVARIANTS
    NoneOutlivesTheApp
