SPECIFICATION Spec
CONSTANTS
    ActionOf <- RowActions
    TagOf <- RowTags
    Hits <- Found
    Rows = {1, 2, 3}
    Actions = {"allow", "block_input"}
    Tags = {"SAFE", "CRITICAL"}
    Needles = {"user-a"}
    PageSizes = {1, 2}
    DefaultSize = 1
    FeedLimit = 3
    IncidentLimit = 1
    NoRow = 0
INVARIANTS
    TypeOK
    SettingsSurvive
    PagesCover
PROPERTIES
    PageLeftBehind
