SPECIFICATION Spec
CONSTANTS
    Clients = {c1, c2}
    Workers = {w1, w2}
    RequestIDs = {"req"}
    AmountOf <- MCAmountOf
    Feeds <- MCFeeds
    MaxClock = 2
    MaxFaults = 1
INVARIANT RowsBalance ChargedInFull PurchasesGranted
PROPERTY EventuallyProcessed
CHECK_DEADLOCK FALSE
