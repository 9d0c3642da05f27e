CONSTANTS
    main = main
    util = util
    raised = raised
    Sites <- ThreeSites
    Namesakes = {main, util}
    Items = {raised}
    Defaults = {raised}
    MaxStops = 2
    MaxEdits = 2
    MaxCommands = 1
    MaxEvents = 1
SPECIFICATION Spec
\* A session ends, and user and program stop at their bounds.
CHECK_DEADLOCK FALSE
INVARIANTS
    AdapterHas
    CountIsReal
