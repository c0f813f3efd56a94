SPECIFICATION FairSpec
CONSTANTS
    Events = {"both"}
    Parquet = {"both"}
    Blocked = {"both"}
    Leaking = {"both"}
    ParquetUrl = TRUE
    Tabs = {"threats", "leaks"}
    Jobs = {1, 2}
INVARIANTS
    DataTypeOK
    ScreenConsistent
    RatesWithinTotal
PROPERTIES
    TabCatchesUp
