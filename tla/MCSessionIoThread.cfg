CONSTANTS
    Jobs <- CoreJobs
    Subjects = {"a.py"}
    MaxPosts = 2
SPECIFICATION FairSpec
\* The worker ends once the UI closes it.
CHECK_DEADLOCK FALSE
INVARIANTS
    TypeOK
    RequestsAccounted
    EditsPrecedeCommand
    NoCallWhenDisconnected
PROPERTIES
    AnswersAreFresh
    RequestsSettle
    WorkerEnds
