SPECIFICATION Spec
CONSTANTS
    Procs = {p1, p2, p3}
    Commands <- MCCommands
    Fold <- MCFold
    Embedded <- MCEmbedded
    Outdated = {"empty", "user", "shipped"}
    FirstConfigs = {"absent", "user", "garbled"}
    FirstTables <- MCTables
    Absent = Absent
    Garbled = Garbled
SYMMETRY Symmetry
VIEW View
INVARIANTS
    TypeOK
    Serial
    UserConfigKept
    CredentialsStayHome
CHECK_DEADLOCK FALSE
