SPECIFICATION FairSpec
CONSTANTS
    R = R
    S1 = S1
    S2 = S2
    S3 = S3
    W1 = W1
    W2 = W2
    W3 = W3
    W4 = W4
    Root = R
    Subs = {S1, S2, S3}
    Shared = {S3}
    Workers = {W1, W2, W3, W4}
    LayerOf <- TreeLayer
    Budget = 3
    Envelope = 2
    LeadCap <- NoLeadCap
    MaxWorkers = 2
    MaxSubleads = 2
    InitialEstimate = 2
    Costs = {1, 2}
    Menus <- LedgerMenus
CHECK_DEADLOCK FALSE
INVARIANTS
    ReservationsFitBudget
    LedgerIsExact
PROPERTIES
    LeadSpendNeverDrops
    RootOverrunAborts
