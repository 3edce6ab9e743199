\* A queue of two and enough lost events to be charged for twice.
SPECIFICATION Spec
CONSTANTS
    NoClass = NoClass
    NoError = NoError
    Gone = Gone
    EventKinds = {"other"}
    Capacity = 2
    MaxEmits = 6
    MaxFrames = 0
INVARIANTS QueueStaysFed
CHECK_DEADLOCK FALSE
