SPECIFICATION FairSpec
CONSTANTS
    r1 = r1
    r2 = r2
    r3 = r3
    Requests = {r1, r2, r3}
    Hung = {r1}
    Cap = 2
INVARIANTS
    SlotAccounting
    ScanHasItsSample
    NothingLeftBehind
PROPERTIES
    ImplementsSlotPool
    EverythingComesBack
