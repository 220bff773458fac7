SPECIFICATION Spec
CONSTANTS
    Webhook = {h1}
    Lifecycle = {l1}
    Worker = {w1, w2}
    MaxRetries = 1
    Base = 1
    Cap = 2
    Jitter = 0
    Block = 1
    Batch = 1
    Delay = 1
    MaxDefers = 0
    Fault = {"crash", "redis", "ingest"}
    MaxFaults = 1
SYMMETRY Symmetry
CHECK_DEADLOCK FALSE
INVARIANT TypeOK
PROPERTY KeepsContract
