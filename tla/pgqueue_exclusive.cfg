SPECIFICATION QSpec
CONSTANTS
    e1 = e1
    e2 = e2
    r1 = r1
    r2 = r2
    w1 = w1
    w2 = w2
    NoEvent = NoEvent
    Requests = {r1, r2}
    Async = TRUE
    Events = {e1}
    Kind <- OneOwn
    MaxAttempts <- OneTwoAttempts
    OnExhausted <- OneMayFail
    Overlap = TRUE
    FaultyOps = {"enqueue", "queue", "set", "unlock", "log"}
    Crashable = {r1, r2, w1, w2}
    MaxFailures = 2
    MaxFaults = 1
    MaxCrashes = 1
    MaxDups = 1
    MaxReplays = 0
    Workers = {w1, w2}
    FailKinds = {"err", "permanent"}
INVARIANT RunExclusive
CHECK_DEADLOCK FALSE
