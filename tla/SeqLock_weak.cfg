\* Field loads may be performed after the second load of the counter.
SPECIFICATION Spec
CONSTANTS
    Fields = {"a", "b"}
    Readers = {"r1"}
    Gaps = {"loads"}
    MaxTransitions = 2
    MaxStores = 2
INVARIANTS SnapshotIsOneTransition
CHECK_DEADLOCK FALSE
