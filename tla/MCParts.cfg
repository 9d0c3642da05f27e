CONSTANTS
    Commands <- ThreeCommands
    LastLine = 2
    MaxTokens = 8
    MaxLaunches = 2
    MaxNotes = 1
    Added = {"memory", "source"}
    Config <- OneTabEach
    MaxChanges = 2
    Sizes = {100, 70000, 300000, 4000000}
    Requests = {1, 2}
    Sends = {1, 2}
    MaxSyncs = 1
    PanelRows = 1
    MaxExchanges = 1
    MaxTemplates = 2
    MaxText = 1
    Refs = {"p", "q"}
    Sought = {"text"}
    EditedRows = {0}
    MaxStops = 1
    MaxEvents = 1
    MemoryPanels <- TwoPanels
    MaxMatches = 2
    MaxTouches = 4
    MixedPanels <- WithListings
    MixedMatches = 1
    MixedTouches = 1
    Letters = {"a"}
    Marks = {}
    Replies <- TwoReplies
    MaxTyped = 1
    MaxQuestions = 2
    SourceLines <- MockLines
    DemoLine = 17
    Programs = {"plain", "demo"}
    JumpLines = {3, 17, 20}
    Values = {"v"}
    MaxMockLaunches = 3
SPECIFICATION PartsSpec
\* Sessions end, and users and programs stop at their bounds.
CHECK_DEADLOCK FALSE
INVARIANTS
    PartsTypeOK
    Steady
    CapturedOnce
    ShownIsCurrent
    KeyboardIsSeen
PROPERTIES
    CallersAreTold
    ResultShown
    EditIsLocal
    FocusFollows
