\* Three tasks under the three policies, a foreign event and one call of run.
SPECIFICATION HistorySpec
CONSTANTS
    N = 3
    Policies = {"round-robin", "priority", "shortest-job-first"}
    PollCost = 1
    SwitchCost = 1
    Profiles <- MCProfiles
    Durations = {2}
    MaxPolls = 2
    MaxFires = 1
    MaxRuns = 1
INVARIANTS QueuesAgree NoWakeLost SleeperIsCovered CyclesAddUp
PROPERTIES PickIsBest WokenIsPolled NobodyPassesTwice
CHECK_DEADLOCK FALSE
