SPECIFICATION FairSpec
CONSTANTS
    r1 = r1
    r2 = r2
    NoContent = NoContent
    Ids <- MCIds
    Contents <- MCContents
    WindowMinutes = 1
    MaxNow = 2
    LastChange = 1
    Lookback = 2
    MaxLag = 9
    MaxPending = 2
    BatchSize = 1
    Backfills <- LateBackfill
    MaxFaults = 2
    FaultKinds = {"list", "batch", "row", "loader", "death"}
INVARIANTS
    TypeOK
    SuccessWindowsAreStored
    NoChangeIsHidden
PROPERTIES
    EverythingIsPublished
CHECK_DEADLOCK FALSE
