CONSTANTS
    Callers = {c1}
    Closers = {s1}
    Reader = reader
    NoThread = NoThread
    Protocol = "lsp"
    MaxRequests = 1
    MaxNotes = 1
    MaxUnasked = 1
    PipeCap = 1
SPECIFICATION FairSpec
PROPERTIES
    ShutdownEndsServer
