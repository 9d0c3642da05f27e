CONSTANTS
    Threads = {t1, t2}
    NoThread = NoThread
    Paths = {}
    Adapters = {"Debugpy"}
    Capabilities = {}
    Chatter = {}
    MaxStops = 1
    MaxChatter = 0
    MaxLaunches = 1
    MaxEvents = 1
SPECIFICATION Spec
\* Launches are bounded, and a failed one leaves nothing to call.
CHECK_DEADLOCK FALSE
INVARIANTS
    ExitedMeansGone
