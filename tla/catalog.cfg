SPECIFICATION CatalogSpec
CONSTANTS
    Specs <- MCSpecs
    Syncers = {s1, s2}
    SameDay = FALSE
    MaxDeploys = 3
    MaxFaults = 2
INVARIANT SyncSells
PROPERTY NeverUnsold
CHECK_DEADLOCK FALSE
