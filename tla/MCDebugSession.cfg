CONSTANTS
    Threads = {t1, t2}
    NoThread = NoThread
    Paths = {"a.py"}
    Adapters = {"Lldb"}
    Capabilities = {"exceptionInfo"}
    MaxStops = 2
    MaxChatter = 1
    Chatter = {"capabilities"}
    MaxLaunches = 2
    MaxEvents = 1
SPECIFICATION Spec
\* Launches are bounded, and a failed one leaves nothing to call.
CHECK_DEADLOCK FALSE
INVARIANTS
    TypeOK
    RunningHasNews
    StoppedIsTrue
PROPERTIES
    SnapshotIsCurrent
    Implements
