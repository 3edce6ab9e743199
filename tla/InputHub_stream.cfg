\* One subscription after the other: subscription 1 requests and polls by hand,
\* subscription 2 calls next().
SPECIFICATION Spec
CONSTANTS
    NoClass = NoClass
    NoError = NoError
    Unregistered = Unregistered
    BackendLost = BackendLost
    Closed = Closed
    Ids = {1, 2}
    NextCallers = {2}
    Classes = {1}
    Capacities = {1, 2}
    Amounts = {0, 1}
    MaxSubscribers = 1
    MaxEmits = 3
    MaxRequested = 3
INVARIANTS NoLostWakeup NextNeverMissesALoss LossIsAccounted Backpressure
PROPERTIES EndsAfterDrop
CHECK_DEADLOCK FALSE
