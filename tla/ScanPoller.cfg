SPECIFICATION FairSpec
CONSTANTS
    Nothing = Nothing
    Uploads = {u1, u2}
    Engines = 1
    MaxEvents = 1
    Quiet = 1
    Absent = 2
    Settle = 1
    Hard = 2
    Faults = {"api", "unlisted", "slow"}
INVARIANTS
    TimerWhileActive
    SettledIsFinal
    FrozenInPassing
PROPERTIES
    PollingEnds
    DropzoneSettles
CHECK_DEADLOCK FALSE
