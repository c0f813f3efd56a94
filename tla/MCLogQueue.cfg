SPECIFICATION Spec
CONSTANTS
    e1 = e1
    e2 = e2
    e3 = e3
    w1 = w1
    w2 = w2
    Events = {e1, e2, e3}
    Workers = {w1, w2}
    QueueSize = 1
    Threshold = 2
    OpenWindow = 1
    MaxNow = 1
    Faults = {"sink", "ambiguous", "wal", "replay", "crash"}
    MaxSlips = 2
    SlowStop = FALSE
SYMMETRY Symmetry
INVARIANTS
    TypeOK
    Accounted
    HeldOnce
    RedeliveryBounded
PROPERTIES
    LossNeedsFault
