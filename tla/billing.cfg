SPECIFICATION Spec
CONSTANTS
    Subjects = {"s1", "s2"}
    Workers = {w1, w2}
    Reconcilers = {r1, r2}
    Zones = {"UTC"}
    MaxHour = 2
    Scenarios <- AllScenarios
INVARIANTS OneCustomer NeverOverbilled ClosedHoursBilled LinesBilledOnce ReportedIsInForce
PROPERTY DeletedLast
CHECK_DEADLOCK FALSE
SYMMETRY Symmetry
