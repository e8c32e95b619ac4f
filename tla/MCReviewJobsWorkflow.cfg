CONSTANTS
    Workers = {w1, w2}
    Clients = {c1, c2}
    Workflow = TRUE
    HardTicks = 1
    LeaseTicks = 2
    MaxRetries = 2
    Slices = 1
    MaxSends = 2
    MaxJobMishaps = 2
SPECIFICATION Spec
CHECK_DEADLOCK FALSE
INVARIANT DroppedOnlyIfAtWork
