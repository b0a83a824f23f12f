SPECIFICATION Spec
CONSTANTS
    Scans = {s1, s2, s3}
    Follows = {}
    Faults = {}
PROPERTIES
    RunningMeansRunning
SYMMETRY Symmetry
CHECK_DEADLOCK FALSE
