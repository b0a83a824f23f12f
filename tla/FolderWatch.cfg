SPECIFICATION FairSpec
CONSTANTS
    Actors = {watcher, cli}
    watcher = watcher
    Commands <- MCCommands
    Plugins <- MCPlugins
    Others <- MCOthers
    Helpers <- MCHelpers
    Built = {"yara-src"}
    Matches <- MCMatches
    FirstImages <- MCFirst
    Faults = {"docker", "database", "list", "pull", "stream", "clone", "build", "store", "mime", "copy"}
    MaxEvents = 3
    Files = {f1, f2}
    QueueCap = 1
INVARIANTS
    NotForgotten
PROPERTIES
    KeepsLocal
    MovedInIsScanned
CHECK_DEADLOCK FALSE
