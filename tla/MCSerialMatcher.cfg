SPECIFICATION Spec
CONSTANTS
    A = A
    B = B
    C = C
    NoSource = NoSource
    Works <- MCWorks
    Revisions <- MCRevisions
INVARIANTS
    TypeOK
    LinksStayInSubgraph
    ComponentsAreConnections
SYMMETRY MCSymmetry
PROPERTY OnlyTheMatchedWorkChanges
