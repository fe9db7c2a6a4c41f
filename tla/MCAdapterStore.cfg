SPECIFICATION Spec
CONSTANTS
    r1 = r1
    r2 = r2
    c1 = c1
    c2 = c2
    c3 = c3
    NoContent = NoContent
    Ids <- MCIds
    Contents <- MCContents
    Revisions <- MCRevisions
    Snapshots <- FreshSnapshots
INVARIANTS
    TypeOK
    NewestVersionWins
    TableMatchesSnapshot
PROPERTIES
    ContentIsKept
CHECK_DEADLOCK FALSE
