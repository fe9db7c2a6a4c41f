SPECIFICATION Spec
CONSTANTS
    A = A
    B = B
    C = C
    D = D
    t1 = t1
    t2 = t2
    NoSource = NoSource
    Nobody = Nobody
    Orphan = Orphan
    NoWork = NoWork
    MaxFaults = 2
    FaultKinds = {"call", "death", "unreadable"}
    Threads <- MCThreads
    Works <- MCWorks
    Revisions <- PlaceholderRevisions
SYMMETRY ThreadSymmetry
INVARIANTS
    TypeOK
    WritersHoldTheirLocks
PROPERTIES
    SerialSpec
