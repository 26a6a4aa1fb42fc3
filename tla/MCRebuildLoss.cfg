CONSTANTS
    l1 = l1
    l2 = l2
    l3 = l3
    l4 = l4
    l5 = l5
    r1 = r1
    k1 = k1
    k2 = k2
    a = a
    b = b
    NoResp = NoResp
    NoRow = NoRow
    NoPrice = NoPrice
    NoLog = NoLog
    NoDay = NoDay
    Lines = {l1, l2, l3, l4, l5}
    Resps = {r1}
    Keys = {k1, k2}
    Costs = {0, 1, 2}
    Legacy = {}
    BatchSize = 1
    Logs = {a, b}
    Behind = {l5}
    RespOf <- MCRespOf
    KeyOf <- MCKeyOf
    OutputOf <- MCOutputOf
    PriceOf <- MCPriceOf
    LogOf <- MCLogOf
    Place <- MCPlace
    DayOfKey <- MCDayOfKey
SPECIFICATION RebuildSpec
INVARIANTS
    RebuildIsSafe
