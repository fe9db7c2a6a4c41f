SPECIFICATION Spec
CONSTANTS
    l1 = l1
    l2 = l2
    NoSource = NoSource
    Works <- MCWorks
    Contents <- MCContents
    Revisions <- MCRevisions
    Scenarios <- Digitised
    Lambdas <- MCLambdas
    MaxFaults = 1
    FaultKinds = {"notify"}
SYMMETRY LambdaSymmetry
INVARIANTS
    EveryImageIsAnnounced
CHECK_DEADLOCK FALSE
