SPECIFICATION FairSpec
CONSTANTS
    Caller = {c1}
    Worker = {w1}
    Beat = {b1}
    Op = {"create"}
    MaxWake = 3
    Grace = 1
    RetryDelay = 1
    MaxRetries = 1
    Fault = {}
    MaxFaults = 0
    MaxBeats = 2
    Free = Free
CHECK_DEADLOCK FALSE
INVARIANT EscalationBounded
INVARIANT TokenAgreement
PROPERTY Converges
