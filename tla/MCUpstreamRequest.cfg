SPECIFICATION MCSpec
CONSTANTS
    Requests = {r1, r2}
    Targets = {"a", "b"}
    Limit = 1
    Retries = 1
    p1 = p1
    p2 = p2
    p3 = p3
    p0 = p0
    NoTarget = none
    Leases = {l1, l2, l3}
INVARIANTS TokensExact AccountRight UpstreamsRight 
PROPERTIES ChoicesRight RequestsEnd
CHECK_DEADLOCK FALSE
