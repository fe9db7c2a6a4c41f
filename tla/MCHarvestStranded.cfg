SPECIFICATION Spec
CONSTANTS
    r1 = r1
    r2 = r2
    NoContent = NoContent
    Ids <- MCIds
    Contents <- MCContents
    WindowMinutes = 1
    MaxNow = 3
    LastChange = 3
    Lookback = 2
    MaxLag = 9
    MaxPending = 2
    BatchSize = 2
    Backfills <- NoBackfills
    MaxFaults = 2
    FaultKinds = {"list", "death"}
SYMMETRY IdSymmetry
INVARIANTS
    LoadedWindowsStayInRange
CHECK_DEADLOCK FALSE
