CONSTANTS
    Jobs = {"sourceBps"}
    Subjects = {"a.py", "b.py"}
    MaxPosts = 2
SPECIFICATION Spec
\* The worker ends once the UI closes it.
CHECK_DEADLOCK FALSE
INVARIANTS
    BreakpointsReachBackend
