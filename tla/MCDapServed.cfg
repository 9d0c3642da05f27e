CONSTANTS
    MaxRequests = 1
    MaxMessages = 2
    WaitBudgets = {6}
SPECIFICATION Spec
CHECK_DEADLOCK FALSE
PROPERTIES
    AdapterRequestsServed
