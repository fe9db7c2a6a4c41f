SPECIFICATION FairSpec
CONSTANTS
    l1 = l1
    l2 = l2
    NoSource = NoSource
    Works <- MCWorks
    Contents <- MCContents
    Revisions <- MCRevisions
    Scenarios <- MCScenarios
    Lambdas <- MCLambdas
    MaxFaults = 1
    FaultKinds = {"fetch", "document", "call", "redelivery", "notify"}
INVARIANTS
    TypeOK
    LostPartsAreDeleted
    ImagesAreAnnounced
    SettledDocumentsAreCurrent
PROPERTIES
    IndexesCatchUp
CHECK_DEADLOCK FALSE
