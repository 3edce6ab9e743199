\* Two hosts and two workers, two launches of two work-groups.
SPECIFICATION Spec
CONSTANTS
    Hosts = {h1, h2}
    Workers = {w1, w2}
    NoHost = NoHost
    WaitsForWorkers = TRUE
    EpochMod = 16
    GroupCounts = {2}
    MaxLaunches = 2
INVARIANTS DescriptorStable OneLaunchPerCounter EachGroupOnce
PROPERTIES KeepsContract LaunchesRetire
CHECK_DEADLOCK FALSE
