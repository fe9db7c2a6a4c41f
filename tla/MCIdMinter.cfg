SPECIFICATION Spec
CONSTANTS
    a = a
    variant = variant
    b = b
    c = c
    rowA = rowA
    rowB = rowB
    rowC = rowC
    m1 = m1
    m2 = m2
    id1 = id1
    id2 = id2
    id3 = id3
    None = None
    Desired = 2
    Minters <- MCMinters
    SourceIds <- MCSourceIds
    Rows <- MCRows
    RowOf <- MCRowOf
    Ids <- MCIds
    Batches <- MCBatches
SYMMETRY MCSymmetry
INVARIANTS
    TypeOK
    PoolMatchesRegistry
    ReturnedIdsAreRegistered
PROPERTIES
    RegistrySpec
