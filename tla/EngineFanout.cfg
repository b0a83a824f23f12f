SPECIFICATION FairSpec
CONSTANTS
    nsrl = nsrl
    clamav = clamav
    pescan = pescan
    Intel <- MCIntel
    MimeSets <- MCMimeSets
    Faults = {"ping", "pull", "name", "create", "start", "logs", "stream", "inspect", "remove", "engine"}
    Hung = {}
INVARIANTS
    WaitGroupExact
    ReturnedClean
    EveryResultIsIn
PROPERTIES
    ImplementsTwoPhaseRun
    ScanReturns
CHECK_DEADLOCK FALSE
