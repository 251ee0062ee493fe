SPECIFICATION FairSpec
CONSTANTS
    e1 = e1
    e2 = e2
    r1 = r1
    r2 = r2
    NoEvent = NoEvent
    Requests = {r1, r2}
    Async = FALSE
    Events = {e1, e2}
    Kind <- OwnAndForeign
    MaxAttempts <- TwoAttempts
    OnExhausted <- Agrees
    Overlap = FALSE
    FaultyOps = {"get", "lock", "set", "response"}
    Crashable = {r1, r2}
    MaxFailures = 3
    MaxFaults = 1
    MaxCrashes = 0
    MaxDups = 1
    MaxReplays = 1
INVARIANTS NeverSwallowed MaxAttemptsIsCap StuckIsGivenUp
PROPERTIES EventuallySettled
CHECK_DEADLOCK FALSE
