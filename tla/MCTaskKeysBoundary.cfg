SPECIFICATION KeysSpec
CONSTANTS
    Scheduled = TRUE
    BucketWidth = 2
    Base = 2
    Width = 2
    MaxIDs = {0, 1}
INVARIANTS
    RangeCovers
CHECK_DEADLOCK FALSE
