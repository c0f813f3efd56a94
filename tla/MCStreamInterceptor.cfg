SPECIFICATION Spec
CONSTANTS
    Sensitive = {"a", "b"}
    Plain = "."
    BodyLen = 7
    ChunkSize = 3
    WindowSize = 6
    MinLen = 2
CHECK_DEADLOCK FALSE
INVARIANTS
    TypeOK
    TerminateHidesValues
    RedactMasksWholeValues
    ReportedExactly
    PlainTextKept
