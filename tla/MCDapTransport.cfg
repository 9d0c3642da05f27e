CONSTANTS
    MaxRequests = 2
    MaxMessages = 2
    WaitBudgets = {2}
SPECIFICATION FairSpec
CHECK_DEADLOCK FALSE
INVARIANTS
    TypeOK
    NoMessageLost
    DeliveredInOrder
    BacklogAtMostOne
    ResponseAccounting
    OutputReachesConsole
PROPERTIES
    WaitReturns
    ShutdownCompletes
