CONSTANTS
    Paths = {"args"}
    MaxStops = 2
    MaxCommands = 1
    MaxTouches = 1
    MaxEvents = 2
SPECIFICATION Spec
\* A session ends, and user and program stop at their bounds.
CHECK_DEADLOCK FALSE
PROPERTIES
    RefreshedBySnapshot
