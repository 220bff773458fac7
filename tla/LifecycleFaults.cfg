SPECIFICATION Spec
CONSTANTS
    Caller = {c1}
    Worker = {w1}
    Beat = {b1}
    Op = {"create"}
    MaxWake = 2
    Grace = 1
    RetryDelay = 1
    MaxRetries = 1
    Fault = {"gateway", "timeout", "crash", "redis", "duplicate"}
    MaxFaults = 2
    MaxBeats = 2
    Free = Free
CHECK_DEADLOCK FALSE
INVARIANT TypeOK
INVARIANT EscalationBounded
