SPECIFICATION Spec
CONSTANTS
    Sensitive = {"a", "b"}
    Plain = "."
    BodyLen = 4
    ChunkSize = 3
    WindowSize = 6
    MinLen = 2
CHECK_DEADLOCK FALSE
INVARIANTS
    ValuesMasked
