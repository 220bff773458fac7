SPECIFICATION Spec
CONSTANTS
    Caller = {c1, c2, c3}
    Worker = {}
    Beat = {b1}
    Op = {"create", "main", "sync", "rotate", "delete"}
    MaxWake = 2
    Grace = 1
    RetryDelay = 1
    MaxRetries = 1
    Fault = {"gateway", "crash"}
    MaxFaults = 2
    MaxBeats = 1
    Free = Free
SYMMETRY Symmetry
CHECK_DEADLOCK FALSE
PROPERTY DeletedStaysClean
INVARIANT ExclusiveRun
PROPERTY RotationRepairs
