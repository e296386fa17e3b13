CONSTANTS
    Callers = {c1, c2}
    Closers = {s1, s2}
    Reader = reader
    NoThread = NoThread
    Protocol = "lsp"
    MaxRequests = 2
    MaxNotes = 1
    MaxUnasked = 0
    PipeCap = 1
SPECIFICATION Spec
SYMMETRY Symmetry
CONSTRAINT Workload
INVARIANTS
    TypeOK
    OwnReply
    NoLeftovers
    NoneStranded
    ShutdownLeavesNoServer
PROPERTIES
    BrokerSpec
