SPECIFICATION FairSpec
CONSTANTS
    Webhook = {h1, h2}
    Lifecycle = {l1}
    Worker = {w1}
    MaxRetries = 1
    Base = 1
    Cap = 2
    Jitter = 0
    Block = 1
    Batch = 1
    Delay = 2
    MaxDefers = 1
    Fault = {}
    MaxFaults = 0
CHECK_DEADLOCK FALSE
INVARIANT NoDuplicate
INVARIANT NeverEarly
INVARIANT WakesInTime
INVARIANT InOrder
PROPERTY EveryTaskSettles
