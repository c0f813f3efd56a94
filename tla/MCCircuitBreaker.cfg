SPECIFICATION Spec
CONSTANTS
    w1 = w1
    w2 = w2
    w3 = w3
    Workers = {w1, w2, w3}
    Threshold = 2
    OpenWindow = 2
    MaxNow = 4
SYMMETRY Symmetry
CHECK_DEADLOCK FALSE
INVARIANTS
    TypeOK
    CounterBounded
    WindowBound
PROPERTIES
    TripNeedsStreak
    GrantAfterDeadline
