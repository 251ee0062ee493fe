SPECIFICATION LifeSpec
CONSTANTS
    Instances = {"k1", "k2"}
    Items = {"d1", "d2"}
    Workers = {"w1"}
    Capacity = 1
    Callers = {"c1", "c2"}
    MaxLists = 3
    MaxLoops = 2
    Malformed = {2}
INVARIANT NeverSendsOnClosed ActiveUntilRobbed
PROPERTY AcceptedIsDispatched ShutdownEnds NeverRolledBack
CHECK_DEADLOCK FALSE
