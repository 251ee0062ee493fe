SPECIFICATION OpsSpec
CONSTANTS
    s1 = s1
    c1 = c1
    c2 = c2
    Subs <- OneSub
    Clients <- TwoClients
    Cached = {"basic", "pro"}
    FirstItem <- Item
    Metadata <- PlanMetadata
    Width = 4
    EventTypes = {"updated", "deleted", "paused"}
    Repos = {"memory", "postgres"}
    SameSecond = TRUE
    MaxVersions = 3
    Budgets <- MirrorOrCalls
INVARIANTS NewestApplied OnePlanItem AccessStaysLost
PROPERTIES Converges SeatsStayOnTheirPrice
CHECK_DEADLOCK FALSE
