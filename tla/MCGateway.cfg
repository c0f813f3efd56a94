SPECIFICATION Spec
CONSTANTS
    r1 = r1
    r2 = r2
    Requests = {r1, r2}
    UpstreamClasses = {"2xx", "4xx"}
    LiveCap = 1
    Snapshots = TRUE
SYMMETRY Symmetric
CHECK_DEADLOCK FALSE
INVARIANTS
    TypeOK
    SnapshotCovered
    BooksBalance
    FeedFaithful
