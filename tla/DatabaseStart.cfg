SPECIFICATION FairSpec
CONSTANTS
    Scans = {s1, s2, s3}
    Follows = {s3}
    Faults = {"list", "ping", "call", "memory"}
INVARIANTS
    OneCreator
    SomeoneGetsIn
PROPERTIES
    SetupEnds
CHECK_DEADLOCK FALSE
