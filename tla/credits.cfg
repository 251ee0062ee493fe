SPECIFICATION Spec
CONSTANTS
    q1 = q1
    q2 = q2
    p1 = p1
    b1 = b1
    b2 = b2
    NoRef = NoRef
    Buckets = {b1, b2}
    Refs = {p1}
    RequestIDs = {q1, q2}
    Amounts = {1, 2}
    ValidDays = {0, 1}
    MaxGrants = 2
    MaxClock = 3
SYMMETRY Sym
INVARIANT Conservation
PROPERTIES DrawsFIFO AnswersByBalance
CHECK_DEADLOCK FALSE
