CONSTANTS
    r1 = r1
    r2 = r2
    r3 = r3
    b1 = b1
    b2 = b2
    s1 = s1
    s2 = s2
    daily = daily
    weekly = weekly
    monthly = monthly
    Responses = {r1, r2}
    Branches = {b1}
    BranchOf <- MCBranchOf
    LastDay = 1
    Hours <- MCHours
    Syncs = {s1, s2}
    Windows = {1}
    Metrics = 2
    MaxSpend = 1
    MaxUsage = 2
    Zone = 7
    NotYet = NotYet
    PeriodNames = {daily, weekly, monthly}
    LocalDays <- MCLocalDays
    FirstDay <- MCFirstDay
    NextDay <- MCNextDay
    Offsets <- MCOffsets
SPECIFICATION SyncWindowSpec
INVARIANTS
    SyncTypeOK
    ServerOnlyKnows
    CapSeesThePeriod
PROPERTIES
    PushTakesOnlyWhatMoved
    SyncedDaysMatch
SYMMETRY MCSymmetry
