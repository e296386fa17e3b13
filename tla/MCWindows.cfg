CONSTANTS
    NoLayout = NoLayout
    Lines = {l}
    Frames = {top, f}
    Top = top
    MaxStarts = 1
    MaxPauses = 2
    MaxOutput = 1
    Projects = {p, q}
    NoProject = none
    MaxSets = 2
    MaxSwitches = 3
    MaxFaults = 1
    Roots = {p, q}
    NoRoot = none
    MaxVersion = 1
    MaxLate = 1
    MaxOperations = 1
    Files = {"f"}
    MaxSearches = 2
    MaxListSteps = 2
    Paths = {"f", "g"}
    Patterns = {"x"}
    MaxRequests = 1
    MaxTyped = 2
    Order <- PaintOrder
    Parent <- Holder
    NoItem = "none"
    Containers = {"form", "panel"}
    Placed <- PlacedAs
    FirstPlaces <- Areas
    Size = 7
    Grid = 4
    Threshold = 1
    MaxDrags = 1
    Accents <- AccentPresets
    BuiltIn <- ProfileIds
    SchemeOf <- ColorsOf
    Keys = {"bg"}
    Colors = {0}
    Names = {"n"}
    Letters = {"j", " "}
    Sizes = {"4", "8"}
    Fitting = {"8"}
    DefaultSize = "13"
    Sections <- SectionList
    FoundBy <- MatchedBy
    CustomIds <- MadeIds
    Limit = 2
    MaxChanges = 3
    MaxRestarts = 1
    Windows = {"a", "b"}
    Locales = {"ru", "de"}
    LanguageOf <- FallsBackTo
    System = "ru-RU"
    PluralsOf <- PluralForms
    Counts = {1, 2}
    MaxChoices = 3
    MaxCatalogs = 2
SPECIFICATION Spec
INVARIANTS
    
    SettingsComeBack
    
    
    
    ResultsAreTheNewest
    

    
    
    
CHECK_DEADLOCK FALSE
