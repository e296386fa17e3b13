CONSTANTS
    FirstSize = 3
    SecondSize = 2
    Depth = 1
    MaxTries = 3
    Absent = Absent
SPECIFICATION LifecyclesSpec
INVARIANTS
    DownloadIsWhole
PROPERTIES
    WorkflowIsTrue
    ThreadsEnd
    WindowCatchesUp
