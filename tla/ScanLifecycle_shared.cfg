SPECIFICATION Spec
CONSTANTS
    s1 = s1
    s2 = s2
    h1 = h1
    h2 = h2
    Scans = {s1, s2}
    Samples = {h1, h2}
    Mimes <- MCMimes
    MimeOf <- MCMimeOf
    Intel <- MCIntel
    Wildcard <- MCWildcard
    Listed <- MCListed
    Finds <- MCFinds
    Blank <- MCBlank
    Uploaded <- MCShared
    Faults = {}
    MaxFaults = 0
INVARIANTS
    SecondScanSeesIt
CHECK_DEADLOCK FALSE
