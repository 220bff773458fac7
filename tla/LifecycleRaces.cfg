SPECIFICATION Spec
CONSTANTS
    Caller = {c1, c2, c3}
    Worker = {w1}
    Beat = {b1}
    Op = {"create", "update", "delete"}
    MaxWake = 1
    Grace = 1
    RetryDelay = 1
    MaxRetries = 1
    Fault = {}
    MaxFaults = 0
    MaxBeats = 1
    Free = Free
SYMMETRY Symmetry
CHECK_DEADLOCK FALSE
INVARIANT Covered
PROPERTY DeletedStaysClean
