SPECIFICATION FairSpec
CONSTANTS
    p1 = p1
    p2 = p2
    e1 = e1
    Posts = {p1, p2}
    Readers = {e1}
    Env <- MCEnv
    Keys <- MCKeys
    settingsKeys <- MCSettingsKeys
    Values <- MCValues
    Rejected <- MCRejected
    Trim <- MCTrim
    Payloads <- MCPayloads
    Environ <- MCEnviron
    Files <- MCFiles
    Prefixes <- MCPrefixes
    NoPost = NoPost
    Faults = {"load", "create", "write", "rename"}
INVARIANTS
    TypeOK
    MirrorsUnlessUnsaved
    DiskHoldsAcked
    EmptyOnlyIfCleared
PROPERTIES
    PostAnswered
    ImplementsCredentialStore
