SPECIFICATION FairSpec
CONSTANTS
    Caller = {c1}
    Worker = {w1}
    Beat = {b1}
    Op = {"create"}
    MaxWake = 3
    Grace = 1
    RetryDelay = 1
    MaxRetries = 1
    Fault = {"gateway"}
    MaxFaults = 1
    MaxBeats = 0
    Free = Free
CHECK_DEADLOCK FALSE
PROPERTY Converges
