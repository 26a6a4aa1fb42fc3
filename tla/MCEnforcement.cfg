CONSTANTS
    s1 = s1
    s2 = s2
    d1 = d1
    d2 = d2
    f1 = f1
    f2 = f2
    g1 = g1
    NoScope = NoScope
    NoPolicy = NoPolicy
    NoLock = NoLock
    Scopes = {s1, s2}
    Dirs = {d1, d2}
    Files = {f1, f2}
    PolicyIds = {g1}
    DirOf <- MCDirOf
    Under <- MCUnder
    FileOf <- MCFileOf
    Branchless = {}
    Match <- MCMatch
    Policies <- MCPolicies
    MayFail <- MCMayFail
    MaxDay = 2
    MaxLines = 2
    MaxCrashes = 1
SPECIFICATION FairEnforcementSpec
INVARIANTS
    EnforcementTypeOK
    LockHasCause
    AuditHasCause
PROPERTIES
    ActiveLockKept
    StopHasCause
    RunawayStopped
CHECK_DEADLOCK FALSE
