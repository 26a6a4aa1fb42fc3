CONSTANTS
    l1 = l1
    l2 = l2
    l3 = l3
    r1 = r1
    k1 = k1
    k2 = k2
    m1 = m1
    m2 = m2
    p1 = p1
    NoResp = NoResp
    NoRow = NoRow
    NoModel = NoModel
    NoLine = NoLine
    NoPrice = NoPrice
    Lines = {l1, l2, l3}
    Resps = {r1}
    Keys = {k1, k2}
    Models = {m1, m2}
    Costs = {0, 1, 2}
    Legacy = {l1}
    BatchSize = 1
    MaxTable = 2
    Procs = {p1}
    Commands <- MCCommands
    AutoUpdate = TRUE
    RespOf <- MCRespOf
    KeyOf <- MCKeyOf
    OutputOf <- MCOutputOf
    ModelOf <- MCModelOf
    Rank <- MCRank
    Known <- MCKnown
    Price <- MCPrice
SPECIFICATION FairReconcileSpec
INVARIANTS
    ReconcileTypeOK
    RollupMatchesEvents
    OneRowPerResponse
    CountMatchesRows
    UnpricedCostsNothing
    SkipIsSound
PROPERTIES
    OutputOnlyGrows
    NoRowDiscarded
    PassEnds
    LedgerSpec
    PricedStaysPriced
