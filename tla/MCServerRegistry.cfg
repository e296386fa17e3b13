CONSTANTS
    Keys = {k1, k2}
    Starts = {t1, t2}
    Stops = {x1, x2}
    None = None
SPECIFICATION FairSpec
INVARIANTS
    OneOwner
    NoneAbandoned
    OnlyUnderwayLeft
PROPERTIES
    CommandsEnd
