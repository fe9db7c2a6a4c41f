SPECIFICATION FairSpec
CONSTANTS
    r1 = r1
    r2 = r2
    NoContent = NoContent
    Ids <- OneId
    Contents <- MCContents
    WindowMinutes = 1
    MaxNow = 2
    LastChange = 1
    Lookback = 2
    MaxLag = 9
    MaxPending = 2
    BatchSize = 2
    Backfills <- NoBackfills
    MaxFaults = 1
    FaultKinds = {"loader", "unrecorded"}
PROPERTIES
    EverythingIsPublished
CHECK_DEADLOCK FALSE
