SPECIFICATION LambdaSpec
CONSTANTS
    A = A
    B = B
    l1 = l1
    l2 = l2
    NoSource = NoSource
    Nobody = Nobody
    Orphan = Orphan
    NoWork = NoWork
    MaxFaults = 0
    FaultKinds = {}
    MaxBatch = 2
    Works <- MCWorks
    Lambdas <- MCLambdas
    Threads <- MCThreads
    Revisions <- CutRevisions
SYMMETRY LambdaSymmetry
INVARIANTS
    NoUpdateIsLost
CHECK_DEADLOCK FALSE
