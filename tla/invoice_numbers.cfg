SPECIFICATION FairSpec
CONSTANTS
    c1 = c1
    c2 = c2
    i1 = i1
    i2 = i2
    i3 = i3
    Prefixes <- MCPrefixes
    Numbers <- MCNumbers
    NoNumber = NoNumber
    Format <- MCFormat
    Invoices <- MCInvoices
    NoInvoice = NoInvoice
    Clients <- MCClients
    NoClient = NoClient
    FaultyOps = {"tx", "commit", "stripe", "ambiguous", "mark", "slow"}
    MaxDrafts = 3
    MaxFaults = 1
    MaxCrashes = 1
INVARIANTS Gapless UsedIsCarried
PROPERTIES ImplementsLedger EventuallyResolved
CHECK_DEADLOCK FALSE
