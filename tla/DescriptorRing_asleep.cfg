\* One host and one launch on a remote engine; wfe sleeps until an event.
SPECIFICATION Spec
CONSTANTS
    Hosts = {h1}
    CooperativeHosts = {}
    Engine = Engine
    NoHost = NoHost
    Modes = {"remote"}
    Sleeping = {"remote"}
    Slots = 1
    IndexMod = 2
    MaxAttempts = 1
    MaxLaunches = 1
PROPERTIES WaitsEnd
CHECK_DEADLOCK FALSE
