SPECIFICATION Spec
CONSTANTS
    p1 = p1
    p2 = p2
    p3 = p3
    A = A
    B = B
    x = x
    y = y
    NoFile = NoFile
    NoRow = NoRow
    Nothing = Nothing
    Deleted = Deleted
    Paths <- MCPaths
    Ids <- MCIds
    Texts <- MCTexts
    Trees <- MCTrees
    MaxPushes = 2
    Patient = TRUE
    MaxFaults = 1
    FaultKinds = {"poll", "send", "announce", "again"}
SYMMETRY TeiSymmetry
INVARIANTS
    FailedPollsAreHarmless
CHECK_DEADLOCK FALSE
