\* Two subscriptions over two device classes: registration and rollback.
SPECIFICATION Spec
CONSTANTS
    NoClass = NoClass
    NoError = NoError
    Unregistered = Unregistered
    BackendLost = BackendLost
    Closed = Closed
    Ids = {1, 2}
    NextCallers = {1, 2}
    Classes = {1, 2}
    Capacities = {1}
    Amounts = {1}
    MaxSubscribers = 2
    MaxEmits = 1
    MaxRequested = 1
INVARIANTS RegistrationAgrees
PROPERTIES FailedOpenRestores
CHECK_DEADLOCK FALSE
