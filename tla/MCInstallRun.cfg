CONSTANTS
    Components = {1, 2}
    Programs = {3}
    MaxVersion = 2
    MaxRuns = 3
SPECIFICATION Spec
CONSTRAINT Workload
INVARIANTS
    StillThere
    SelectionIsInstalled
PROPERTIES
    RecordIsTrue
