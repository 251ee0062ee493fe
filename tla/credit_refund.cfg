SPECIFICATION Spec
CONSTANTS
    Clients = {c1, c2}
    Workers = {w1, w2}
    RequestIDs = {"req"}
    AmountOf <- MCAmountOf
    Feeds <- MCRefundFeeds
    MaxClock = 2
    MaxFaults = 1
PROPERTY RefundFindsPayment
CHECK_DEADLOCK FALSE
