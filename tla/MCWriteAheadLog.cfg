SPECIFICATION Spec
CONSTANTS
    e1 = e1
    e2 = e2
    e3 = e3
    Events = {e1, e2, e3}
    Faults = {"sink", "ambiguous", "wal", "torn", "replay", "crash"}
    MaxSlips = 2
SYMMETRY Symmetry
CHECK_DEADLOCK FALSE
INVARIANTS
    TypeOK
    DamageBounded
    NothingForgotten
    RedeliveryBounded
PROPERTIES
    RemovedOnlyWhenStored
