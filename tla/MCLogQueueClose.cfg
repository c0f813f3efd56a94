SPECIFICATION Spec
CONSTANTS
    e1 = e1
    w1 = w1
    Events = {e1}
    Workers = {w1}
    QueueSize = 1
    Threshold = 1
    OpenWindow = 1
    MaxNow = 1
    Faults = {}
    MaxSlips = 0
    SlowStop = TRUE
INVARIANTS
    ClosedGoesToLog
