SPECIFICATION Spec
CONSTANTS
    HourOf <- TwoHours
    r1 = r1
    r2 = r2
    Objects = {1, 2, 3, 4, 5}
    MaxHour = 1
    Runners = {r1, r2}
    BackfillHours = 2
    MinPartitionRecords = 2
    PageSize = 2
SYMMETRY Symmetry
CHECK_DEADLOCK FALSE
INVARIANTS
    TypeOK
    ListingMissesNothing
PROPERTIES
    NeverShrinks
