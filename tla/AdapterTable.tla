---------------------------- MODULE AdapterTable ----------------------------
(***************************************************************************)
(* The rows of an adapter store and the two ways they are changed          *)
(* (adapters/utils/pipeline_store.py, adapter_store.py), as operators on   *)
(* the rows of one namespace: a function from the ids of the records that  *)
(* are stored.                                                             *)
(*                                                                         *)
(* A changeset id is a UUID in the code.  Here it is the set of the ids    *)
(* and dates it wrote: two commits never write the same record with the    *)
(* same date, because an update must have a newer date than the row.       *)
(***************************************************************************)
EXTENDS Naturals

CONSTANTS Ids, Contents, NoContent

ASSUME NoContentAssumption == NoContent \notin Contents

AdapterRow ==
    [content : Contents \union {NoContent}, deleted : BOOLEAN,
     lastModified : Nat, changeset : SUBSET (Ids \X Nat)]

\* What a loader hands in: rows that have no changeset yet.
Update ==
    [content : Contents \union {NoContent}, deleted : BOOLEAN,
     lastModified : Nat]

IsTable(t) ==
    /\ DOMAIN t \subseteq Ids
    /\ \A id \in DOMAIN t :
           t[id] \in AdapterRow /\ <<id, t[id].lastModified>> \in t[id].changeset

FindInserts(existing, new) == DOMAIN new \ DOMAIN existing

\* Only content makes an update: _compare_columns is ["content"].
FindUpdates(existing, new) ==
    {id \in DOMAIN new \intersect DOMAIN existing :
        new[id].content # existing[id].content}

\* Mutant: dates are not looked at.
FilterNothing(updates, existing, new) == updates

FilterByTimestamp(updates, existing, new) ==
    {id \in updates : new[id].lastModified > existing[id].lastModified}

\* Mutant: a deletion overwrites the content.
PreserveNothing(existing, update) == update

\* _preserve_content_for_deletions, for one record and the row it has.
PreserveContent(existing, update) ==
    IF update.deleted /\ update.content = NoContent
    THEN [update EXCEPT !.content = existing.content]
    ELSE update

\* _commit_changeset: one transaction, every row tagged with its changeset.
Changeset(rows) == {<<id, rows[id].lastModified>> : id \in DOMAIN rows}

TaggedRow(row, changeset) ==
    [content |-> row.content, deleted |-> row.deleted,
     lastModified |-> row.lastModified, changeset |-> changeset]

\* Mutant: rows that are overwritten keep their changeset.
CommitWithoutTag(table, rows) ==
    [id \in DOMAIN table \union DOMAIN rows |->
        IF id \in DOMAIN rows
        THEN TaggedRow(rows[id], IF id \in DOMAIN table THEN table[id].changeset
                                                        ELSE Changeset(rows))
        ELSE table[id]]

CommitChangeset(table, rows) ==
    [id \in DOMAIN table \union DOMAIN rows |->
        IF id \in DOMAIN rows THEN TaggedRow(rows[id], Changeset(rows))
                              ELSE table[id]]

\* The rows that incremental_update writes; none means no changeset.
IncrementalChanges(table, new) ==
    LET updates == FilterByTimestamp(FindUpdates(table, new), table, new)
    IN  [id \in FindInserts(table, new) \union updates |->
            IF id \in updates THEN PreserveContent(table[id], new[id])
                              ELSE new[id]]

\* Mutant: a record that is in no snapshot any more stays active.
DeleteNothing(table, snapshot) == {}

\* _find_snapshot_deletes: what is stored, not yet deleted, and missing.
FindSnapshotDeletes(table, snapshot) ==
    {id \in DOMAIN table \ DOMAIN snapshot : ~table[id].deleted}

\* The rows that snapshot_sync writes for a snapshot (a function from ids to
\* contents), all dated with the time of the sync.
SnapshotChanges(table, snapshot, now) ==
    LET new == [id \in DOMAIN snapshot |->
                   [content |-> snapshot[id], deleted |-> FALSE,
                    lastModified |-> now]]
        deletes == FindSnapshotDeletes(table, snapshot)
        upserts == FindInserts(table, new) \union FindUpdates(table, new)
    IN  [id \in deletes \union upserts |->
            IF id \in upserts THEN new[id]
            ELSE [content |-> table[id].content, deleted |-> TRUE,
                  lastModified |-> now]]

\* The records that get_active_namespace_records returns.
ActiveRecords(table) ==
    [id \in {i \in DOMAIN table : ~table[i].deleted} |-> table[id].content]
=============================================================================
