---------------------------- MODULE AdapterStore ----------------------------
(***************************************************************************)
(* An adapter store under the two kinds of loader that write to it: an     *)
(* incremental loader (OAI-PMH), which delivers versions of records late,  *)
(* twice and in any order, and a snapshot loader (EBSCO), which delivers   *)
(* all records there are.                                                  *)
(***************************************************************************)
EXTENDS AdapterTable, FiniteSetsExt, Sequences

CONSTANTS
    Revisions,  \* Revisions[id]: the successive states of a record at its
                \* source, each a content or NoContent for a deletion
    Snapshots   \* Snapshots[i]: what the i-th snapshot may be, each a
                \* function from the ids it has to their contents

ASSUME RevisionsAssumption ==
    Revisions \in [Ids -> Seq(Contents \union {NoContent})]
ASSUME SnapshotsAssumption ==
    Snapshots \in Seq(SUBSET UNION {[S -> Contents] : S \in SUBSET Ids})

VARIABLES
    table,      \* the rows of the store
    delivered,  \* delivered[id]: the revisions that have been delivered
    latest,     \* the last snapshot
    syncs       \* the number of snapshots so far, which dates them

vars == <<table, delivered, latest, syncs>>

NoRows == <<>>

Init ==
    /\ table = NoRows
    /\ delivered = [id \in Ids |-> {}]
    /\ latest = NoRows
    /\ syncs = 0

\* The i-th revision of a record, as a loader sees it: the source dates it.
RevisionRow(id, i) ==
    [content |-> Revisions[id][i], deleted |-> Revisions[id][i] = NoContent,
     lastModified |-> i]

\* incremental_update with one revision of each of some records.
IncrementalUpdate ==
    \E batch \in (SUBSET Ids) \ {{}} :
        \E revs \in [batch -> UNION {DOMAIN Revisions[id] : id \in batch}] :
            /\ \A id \in batch : revs[id] \in DOMAIN Revisions[id]
            /\ LET new == [id \in batch |-> RevisionRow(id, revs[id])]
               IN  table' = CommitChangeset(table, IncrementalChanges(table, new))
            /\ delivered' = [id \in Ids |->
                   IF id \in batch THEN delivered[id] \union {revs[id]}
                                   ELSE delivered[id]]
            /\ UNCHANGED <<latest, syncs>>

\* snapshot_sync with the records of a snapshot.
SnapshotSync ==
    /\ syncs < Len(Snapshots)
    /\ syncs' = syncs + 1
    /\ \E snapshot \in Snapshots[syncs'] :
           /\ table' = CommitChangeset(table,
                           SnapshotChanges(table, snapshot, syncs'))
           /\ latest' = snapshot
    /\ UNCHANGED delivered

\* A store has one kind of loader.
Next ==
    \/ syncs = 0 /\ IncrementalUpdate
    \/ (\A id \in Ids : delivered[id] = {}) /\ SnapshotSync

Spec == Init /\ [][Next]_vars

----------------------------------------------------------------------------
TypeOK ==
    /\ IsTable(table)
    /\ delivered \in [Ids -> SUBSET Nat]
    /\ DOMAIN latest \subseteq Ids
    /\ syncs \in 0..Len(Snapshots)

\* Whatever order the versions of a record come in, and however often, the row
\* says what the newest of them says: the date gate of incremental_update.
\* (For contents that do not come back: of an older content that does, see the
\* README.)
NewestVersionWins ==
    \A id \in Ids : delivered[id] # {} =>
        LET newest == RevisionRow(id, Max(delivered[id]))
        IN  /\ id \in DOMAIN table
            /\ table[id].deleted = newest.deleted
            /\ ~newest.deleted => table[id].content = newest.content

\* A row that has content keeps some, also when it is deleted, so that the
\* deletion can be replayed downstream (_preserve_content_for_deletions).
ContentIsKept ==
    [][\A id \in DOMAIN table :
          table[id].content # NoContent => table'[id].content # NoContent]_vars

\* After a sync the active records are those of the snapshot ("Sync the table
\* to match the new snapshot").
TableMatchesSnapshot == syncs > 0 => ActiveRecords(table) = latest
=============================================================================
