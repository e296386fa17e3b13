CONSTANTS
    Components = {1, 2}
    Programs = {3}
    MaxVersion = 2
    MaxRuns = 2
SPECIFICATION Spec
INVARIANTS
    SelectionMadeInstalled
