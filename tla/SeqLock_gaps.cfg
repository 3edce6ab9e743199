\* Two readers and a writer of two fields; loads and stores may pass the counter.
SPECIFICATION Spec
CONSTANTS
    Fields = {"a", "b"}
    Readers = {"r1", "r2"}
    Gaps = {"loads", "stores"}
    MaxTransitions = 2
    MaxStores = 2
INVARIANTS OnlyLooseFieldsMix
CHECK_DEADLOCK FALSE
