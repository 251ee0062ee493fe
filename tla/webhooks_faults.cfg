SPECIFICATION Spec
CONSTANTS
    e1 = e1
    e2 = e2
    r1 = r1
    r2 = r2
    NoEvent = NoEvent
    Requests = {r1, r2}
    Async = FALSE
    Events = {e1, e2}
    Kind <- OwnAndUnstamped
    MaxAttempts <- TwoAttempts
    OnExhausted <- MayFail
    Overlap = TRUE
    FaultyOps <- AllOps
    Crashable = {r1, r2}
    MaxFailures = 2
    MaxFaults = 1
    MaxCrashes = 1
    MaxDups = 1
    MaxReplays = 0
INVARIANTS ClaimExclusive HandledAtMostOnce GivenUpAfterMaxAttempts
PROPERTIES SettledIsFinal
CHECK_DEADLOCK FALSE
