SPECIFICATION Spec
CONSTANTS
    nsrl = nsrl
    clamav = clamav
    pescan = pescan
    Intel <- MCIntel
    MimeSets <- MCMimeSets
    Faults = {"pull"}
    Hung = {}
INVARIANTS
    ServerSurvives
CHECK_DEADLOCK FALSE
