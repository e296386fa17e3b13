CONSTANTS
    Callers = {c1}
    Closers = {s1}
    Reader = reader
    NoThread = NoThread
    Protocol = "dap"
    MaxRequests = 1
    MaxNotes = 0
    MaxUnasked = 1
    PipeCap = 1
SPECIFICATION ReadingSpec
PROPERTIES
    BrokerSpec
    CallersReturn
    ShutdownsEnd
