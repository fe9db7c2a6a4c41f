SPECIFICATION Spec
CONSTANTS
    A = A
    B = B
    C = C
    D = D
    t1 = t1
    t2 = t2
    NoSource = NoSource
    Nobody = Nobody
    Orphan = Orphan
    NoWork = NoWork
    MaxFaults = 0
    FaultKinds = {}
    Threads <- MCThreads
    Works <- MCWorks
    Revisions <- OnceRevisions
SYMMETRY ThreadSymmetry
INVARIANTS
    NewestResultReflectsGraph
