CONSTANTS
    Views = {v}
    MaxEdits = 2
    NoStep = NoStep
    Bindings <- Commands
    Keymaps <- Remaps
    Typed <- Layouts
    Latin = {"s", "k", "v"}
    Fields = {"f", "g"}
    NoField = "-"
    MaxPresses = 3
    NoText = NoText
    MaxChanges = 4
    MaxSteps = 2
    MaxGroup = 2
SPECIFICATION Spec
INVARIANTS
    EditorFollowsTheText
    ServerSeesTheText
    HistoryComesBack
    
    
    
CHECK_DEADLOCK FALSE
