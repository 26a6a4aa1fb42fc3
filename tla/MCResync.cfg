CONSTANTS
    r1 = r1
    r2 = r2
    r3 = r3
    b1 = b1
    b2 = b2
    s1 = s1
    s2 = s2
    daily = daily
    weekly = weekly
    monthly = monthly
    Responses = {r1, r2, r3}
    Branches = {b1, b2}
    BranchOf <- MCBranchOf
    LastDay = 1
    Hours <- MCHours
    Syncs = {s1}
    Windows = {1}
    Metrics = 2
    MaxSpend = 1
    MaxUsage = 2
    Zone = 0
    NotYet = NotYet
    PeriodNames = {daily, weekly, monthly}
    LocalDays <- MCLocalDays
    FirstDay <- MCFirstDay
    NextDay <- MCNextDay
    Offsets <- MCOffsets
SPECIFICATION SyncWindowSpec
PROPERTIES
    ResyncIsSafe
