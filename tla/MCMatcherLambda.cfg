SPECIFICATION FairLambdaSpec
CONSTANTS
    A = A
    B = B
    l1 = l1
    l2 = l2
    NoSource = NoSource
    Nobody = Nobody
    Orphan = Orphan
    NoWork = NoWork
    MaxFaults = 1
    FaultKinds = {"call", "death", "redelivery"}
    MaxBatch = 1
    Works <- MCWorks
    Lambdas <- MCLambdas
    Threads <- MCThreads
    Revisions <- CutRevisions
INVARIANTS
    LambdaTypeOK
    NoUpdateIsLost
    NoNewsIsLost
PROPERTIES
    GraphNeverReverts
    GraphCatchesUp
CHECK_DEADLOCK FALSE
