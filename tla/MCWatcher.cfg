CONSTANTS
    root = root
    project = project
    session = session
    log = log
    NoFile = NoFile
    Root = root
    Dirs = {root, project, session}
    Files = {log}
    Parent <- MCParent
    MayFail = {"stat", "list", "add", "read"}
    MaxUnits = 5
    MaxGen = 1
    MaxCrashes = 1
SPECIFICATION WatcherSpec
INVARIANTS
    WatcherTypeOK
    NoDirOverlooked
    CaughtUp
    OffsetFits
CHECK_DEADLOCK FALSE
