SPECIFICATION Spec
CONSTANTS
    A = A
    B = B
    C = C
    D = D
    t1 = t1
    t2 = t2
    NoSource = NoSource
    Nobody = Nobody
    Orphan = Orphan
    NoWork = NoWork
    MaxFaults = 1
    FaultKinds = {"unreadable"}
    Threads <- MCThreads
    Works <- MCWorks
    Revisions <- PlaceholderRevisions
SYMMETRY ThreadSymmetry
PROPERTIES
    GraphNeverReverts
