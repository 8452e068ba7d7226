SPECIFICATION MCSpec
CONSTANTS
    Requests = {r1, r2}
    Good = {"v0", "v1"}
    MaxEdits = 2
    MaxFailures = 1
    t1 = t1
    t2 = t2
    t3 = t3
    w1 = w1
    w2 = w2
INVARIANT ReappliesAll
CHECK_DEADLOCK FALSE
