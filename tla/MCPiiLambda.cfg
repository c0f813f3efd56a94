SPECIFICATION Spec
CONSTANTS
    o1 = o1
    o2 = o2
    i1 = i1
    i2 = i2
    Objects = {o1, o2}
    Malformed = {o2}
    Contents = {{}, {"EMAIL"}, {"CREDIT_CARD"}, {"TOKEN"}}
    Invocations = {i1, i2}
    MaxBatch = 2
    RetrySettings = {0, 2}
    DlqConfigured = TRUE
CHECK_DEADLOCK FALSE
INVARIANTS
    TypeOK
    ReturnedAccounted
    RewritesBounded
