CONSTANTS
    m1 = m1
    m2 = m2
    w = w
    c = c
    Procs = {w, c}
    Models = {m1, m2}
    Newest = 3
    BuiltIn = 1
    Malformed = {}
    MaxJump = 10
    MaxFaults = 1
    None = None
    Damaged = Damaged
    NoTable = NoTable
    Commands <- MCCommands
    Day <- MCDay
    Carries <- MCCarries
    Rate <- MCRate
SPECIFICATION FairPriceRefreshSpec
INVARIANTS
    PriceRefreshTypeOK
    EtagNamesTheCache
PROPERTIES
    TableOnlyMovesForward
    NewReleaseReachesWatcher
