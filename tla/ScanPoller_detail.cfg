SPECIFICATION FairSpec
CONSTANTS
    Nothing = Nothing
    Uploads = {u1}
    Engines = 2
    MaxEvents = 2
    Quiet = 2
    Absent = 2
    Settle = 3
    Hard = 5
    Faults = {}
PROPERTIES
    DetailSettles
CHECK_DEADLOCK FALSE
