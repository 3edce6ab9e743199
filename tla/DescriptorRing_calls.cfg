\* Two hosts on a ring of one slot with indices that wrap: both next to a remote engine, one
\* where the ring is served cooperatively; wfe sleeps.
SPECIFICATION Spec
CONSTANTS
    Hosts = {h1, h2}
    CooperativeHosts = {h1}
    Engine = Engine
    NoHost = NoHost
    Modes = {"remote", "cooperative"}
    Sleeping = {"remote", "cooperative"}
    Slots = 1
    IndexMod = 2
    MaxAttempts = 1
    MaxLaunches = 2
INVARIANTS PayloadImmutable NoSlotLeaks NoLostDoorbell
PROPERTIES WaitsEndOrOversleep SubmitsEndOrOversleep KeepsContract
CHECK_DEADLOCK FALSE
