\* A queue of four drained in batches of two while the backend emits five events.
SPECIFICATION Spec
CONSTANTS
    NoClass = NoClass
    NoError = NoError
    Gone = Gone
    EventKinds = {"press", "release", "motion", "button"}
    Capacity = 4
    MaxEmits = 5
    MaxFrames = 2
INVARIANTS FrameIsFaithful KeyStateFollows DemandConserved FedUnlessLagging LossIsCounted PumpNeverSleepsOnEvents
PROPERTIES EverythingIsDrained
CHECK_DEADLOCK FALSE
