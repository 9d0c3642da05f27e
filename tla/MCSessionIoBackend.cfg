CONSTANTS
    Jobs = {"evaluate"}
    Subjects = {"a.py"}
    MaxPosts = 1
SPECIFICATION Spec
\* The worker ends once the UI closes it.
CHECK_DEADLOCK FALSE
INVARIANTS
    BackendExclusive
