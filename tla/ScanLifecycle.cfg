SPECIFICATION FairSpec
CONSTANTS
    s1 = s1
    s2 = s2
    h1 = h1
    h2 = h2
    Scans = {s1, s2}
    Samples = {h1, h2}
    Mimes <- MCMimes
    MimeOf <- MCMimeOf
    Intel <- MCIntel
    Wildcard <- MCWildcard
    Listed <- MCListed
    Finds <- MCFinds
    Blank <- MCBlank
    Uploaded <- MCUploaded
    Faults = {"setup", "helper", "stat", "copy", "mime", "store", "engine"}
    MaxFaults = 2
INVARIANTS
    OneDocument
    SeesWholeSample
    ProgressCompletes
    NoBogusClean
    PageAgrees
PROPERTIES
    ImplementsTwoPhaseRun
    ScanEnds
CHECK_DEADLOCK FALSE
