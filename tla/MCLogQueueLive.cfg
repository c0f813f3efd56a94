SPECIFICATION FairSpec
CONSTANTS
    e1 = e1
    e2 = e2
    w1 = w1
    w2 = w2
    Events = {e1, e2}
    Workers = {w1, w2}
    QueueSize = 1
    Threshold = 1
    OpenWindow = 1
    MaxNow = 1
    Faults = {"sink", "wal"}
    MaxSlips = 0
    SlowStop = TRUE
PROPERTIES
    CloseReturns
    ImplementsLedger
