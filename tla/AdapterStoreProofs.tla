------------------------- MODULE AdapterStoreProofs -------------------------
(***************************************************************************)
(* Proofs about the adapter store for any records, contents, snapshots and *)
(* any order of delivery: content is never lost, and, when no content of a *)
(* record comes back, the newest version wins.                             *)
(***************************************************************************)
EXTENDS AdapterStore, TLAPS

----------------------------------------------------------------------------
(***************************************************************************)
(* What a commit, a sync and an incremental update do to the rows.         *)
(***************************************************************************)

\* A commit of rows with Update's type keeps the table's.
LEMMA CommitType ==
    ASSUME NEW t, IsTable(t), NEW rows, DOMAIN rows \subseteq Ids,
           \A id \in DOMAIN rows : rows[id] \in Update
    PROVE  IsTable(CommitChangeset(t, rows))
<1> DEFINE new == CommitChangeset(t, rows)
<1>1. DOMAIN new \subseteq Ids
  BY DEF IsTable, CommitChangeset
<1>2. Changeset(rows) \in SUBSET (Ids \X Nat)
  BY DEF Changeset, Update
<1>3. ASSUME NEW id \in DOMAIN rows
      PROVE  new[id] \in AdapterRow /\ <<id, new[id].lastModified>> \in new[id].changeset
  <2>1. new[id] = TaggedRow(rows[id], Changeset(rows))
    BY <1>3 DEF CommitChangeset
  <2>2. <<id, rows[id].lastModified>> \in Changeset(rows)
    BY <1>3 DEF Changeset
  <2>3. rows[id] \in Update
    BY <1>3
  <2> HIDE DEF new
  <2> QED
    BY <1>2, <2>1, <2>2, <2>3 DEF TaggedRow, AdapterRow, Update
<1>4. ASSUME NEW id \in DOMAIN t \ DOMAIN rows
      PROVE  new[id] \in AdapterRow /\ <<id, new[id].lastModified>> \in new[id].changeset
  <2>1. new[id] = t[id]
    BY <1>4 DEF CommitChangeset
  <2> HIDE DEF new
  <2> QED
    BY <1>4, <2>1 DEF IsTable
<1> QED
  BY <1>1, <1>3, <1>4 DEF IsTable, CommitChangeset

\* The rows of a snapshot's sync are of its records, or of those that it has not.
LEMMA SnapshotChangesType ==
    ASSUME NEW t, IsTable(t), NEW snapshot, NEW now \in Nat,
           DOMAIN snapshot \subseteq Ids,
           \A id \in DOMAIN snapshot : snapshot[id] \in Contents
    PROVE  LET changes == SnapshotChanges(t, snapshot, now)
           IN  /\ DOMAIN changes \subseteq Ids
               /\ \A id \in DOMAIN changes : changes[id] \in Update
<1> DEFINE changes == SnapshotChanges(t, snapshot, now)
           upserts == {id \in DOMAIN snapshot :
                          id \in DOMAIN t => snapshot[id] # t[id].content}
           deletes == FindSnapshotDeletes(t, snapshot)
<1>1. /\ DOMAIN changes = deletes \union upserts
      /\ \A id \in upserts :
             changes[id] = [content |-> snapshot[id], deleted |-> FALSE,
                            lastModified |-> now]
      /\ \A id \in deletes \ upserts :
             changes[id] = [content |-> t[id].content, deleted |-> TRUE,
                            lastModified |-> now]
  BY DEF SnapshotChanges, FindInserts, FindUpdates
<1>2. deletes \subseteq DOMAIN t
  BY DEF FindSnapshotDeletes
<1>3. \A id \in DOMAIN t : t[id].content \in Contents \union {NoContent}
  BY DEF IsTable, AdapterRow
<1> HIDE DEF changes, upserts, deletes
<1>4. \A id \in upserts : id \in Ids /\ snapshot[id] \in Contents
  BY DEF upserts
<1>5. \A id \in DOMAIN changes : id \in Ids /\ changes[id] \in Update
  <2> SUFFICES ASSUME NEW id \in DOMAIN changes
               PROVE  id \in Ids /\ changes[id] \in Update
    OBVIOUS
  <2>1. CASE id \in upserts
    <3>1. changes[id] = [content |-> snapshot[id], deleted |-> FALSE,
                         lastModified |-> now]
      BY <1>1, <2>1
    <3>2. id \in Ids /\ snapshot[id] \in Contents
      BY <1>4, <2>1
    <3> QED
      BY <3>1, <3>2 DEF Update
  <2>2. CASE id \in deletes \ upserts
    <3>1. id \in DOMAIN t /\ t[id].content \in Contents \union {NoContent}
      BY <1>2, <1>3, <2>2
    <3>2. id \in Ids
      BY <3>1 DEF IsTable
    <3>3. changes[id] = [content |-> t[id].content, deleted |-> TRUE,
                         lastModified |-> now]
      BY <1>1, <2>2
    <3> QED
      BY <3>1, <3>2, <3>3 DEF Update
  <2> QED
    BY <1>1, <2>1, <2>2
<1> QED
  BY <1>5 DEF changes

\* The rows that an incremental update writes are of records that it brings.
LEMMA IncrementalChangesType ==
    ASSUME NEW t, IsTable(t), NEW new, \A id \in DOMAIN new : new[id] \in Update
    PROVE  \A id \in DOMAIN IncrementalChanges(t, new) :
               IncrementalChanges(t, new)[id] \in Update /\ id \in DOMAIN new
<1> DEFINE changes == IncrementalChanges(t, new)
<1> USE DEF IncrementalChanges, FindInserts, FindUpdates, FilterByTimestamp
<1>1. \A id \in DOMAIN changes : changes[id] \in Update /\ id \in DOMAIN new
  <2> SUFFICES ASSUME NEW id \in DOMAIN changes
               PROVE  changes[id] \in Update /\ id \in DOMAIN new
    OBVIOUS
  <2>1. id \in DOMAIN new
    OBVIOUS
  <2>2. CASE id \notin DOMAIN t
    BY <2>1, <2>2
  <2>3. CASE id \in DOMAIN t
    <3>1. changes[id] = PreserveContent(t[id], new[id])
      BY <2>3
    <3>2. t[id] \in AdapterRow /\ new[id] \in Update
      BY <2>1, <2>3 DEF IsTable
    <3> HIDE DEF changes
    <3> QED
      BY <2>1, <3>1, <3>2 DEF PreserveContent, AdapterRow, Update
  <2> QED
    BY <2>2, <2>3
<1> QED
  BY <1>1

\* What an incremental update leaves of a record that it brings: the row as it
\* comes, the row with the content kept for a deletion, or the old row.
Takes(t, after, id, row) ==
    IF id \notin DOMAIN t THEN \E c : after[id] = TaggedRow(row, c)
    ELSE IF /\ row.content # t[id].content
            /\ row.lastModified > t[id].lastModified
         THEN \E c : after[id] = TaggedRow(PreserveContent(t[id], row), c)
         ELSE after[id] = t[id]

LEMMA IncrementalCommit ==
    ASSUME NEW t, IsTable(t), NEW new, DOMAIN new \subseteq Ids,
           \A id \in DOMAIN new : new[id] \in Update,
           NEW after, after = CommitChangeset(t, IncrementalChanges(t, new))
    PROVE  /\ IsTable(after)
           /\ DOMAIN after = DOMAIN t \union DOMAIN new
           /\ \A id \in DOMAIN t \ DOMAIN new : after[id] = t[id]
           /\ \A id \in DOMAIN new : Takes(t, after, id, new[id])
<1> DEFINE changes == IncrementalChanges(t, new)
<1> USE DEF IncrementalChanges, FindInserts, FindUpdates, FilterByTimestamp
<1>1. \A id \in DOMAIN changes : changes[id] \in Update /\ id \in DOMAIN new
  BY IncrementalChangesType
<1>2. IsTable(after)
  BY <1>1, CommitType
<1>3. DOMAIN after = DOMAIN t \union DOMAIN new
  BY DEF CommitChangeset
<1>4. \A id \in DOMAIN t \ DOMAIN new : after[id] = t[id]
  BY <1>1 DEF CommitChangeset
<1>5. ASSUME NEW id \in DOMAIN new, id \notin DOMAIN t
      PROVE  after[id] = TaggedRow(new[id], Changeset(changes))
  BY <1>5 DEF CommitChangeset
<1>6. ASSUME NEW id \in DOMAIN new, id \in DOMAIN t,
             new[id].content # t[id].content,
             new[id].lastModified > t[id].lastModified
      PROVE  after[id] = TaggedRow(PreserveContent(t[id], new[id]), Changeset(changes))
  <2>1. id \in DOMAIN changes /\ changes[id] = PreserveContent(t[id], new[id])
    BY <1>6
  <2>2. after = CommitChangeset(t, changes)
    OBVIOUS
  <2> HIDE DEF changes
  <2>3. after[id] = TaggedRow(changes[id], Changeset(changes))
    BY <2>1, <2>2 DEF CommitChangeset
  <2> QED
    BY <2>1, <2>3
<1>7. ASSUME NEW id \in DOMAIN new, id \in DOMAIN t,
             ~(/\ new[id].content # t[id].content
               /\ new[id].lastModified > t[id].lastModified)
      PROVE  after[id] = t[id]
  BY <1>7 DEF CommitChangeset
<1>8. ASSUME NEW id \in DOMAIN new PROVE Takes(t, after, id, new[id])
  BY <1>5, <1>6, <1>7 DEF Takes
<1> QED
  BY <1>2, <1>3, <1>4, <1>8
----------------------------------------------------------------------------
\* A delivered revision is an update.
LEMMA RevisionRowType ==
    ASSUME NEW id \in Ids, NEW i \in DOMAIN Revisions[id]
    PROVE  RevisionRow(id, i) \in Update /\ i \in Nat
<1>1. Revisions[id] \in Seq(Contents \union {NoContent})
  BY RevisionsAssumption
<1>2. Revisions[id][i] \in Contents \union {NoContent} /\ i \in Nat
  BY <1>1
<1> QED
  BY <1>2 DEF RevisionRow, Update

\* incremental_update with the revisions revs of the records of a batch, and
\* what it does to the table.
Delivers(batch, revs) ==
    /\ \A id \in batch : revs[id] \in DOMAIN Revisions[id]
    /\ table' = CommitChangeset(table, IncrementalChanges(table,
                    [id \in batch |-> RevisionRow(id, revs[id])]))
    /\ delivered' = [id \in Ids |->
           IF id \in batch THEN delivered[id] \union {revs[id]} ELSE delivered[id]]

IsWritten(id, row) == \E c : table'[id] = TaggedRow(row, c)

Updates(batch, revs) ==
    /\ IsTable(table')
    /\ DOMAIN table' = DOMAIN table \union batch
    /\ \A id \in DOMAIN table \ batch : table'[id] = table[id]
    /\ \A id \in batch :
           LET row == RevisionRow(id, revs[id])
           IN  IF id \notin DOMAIN table THEN IsWritten(id, row)
               ELSE IF /\ row.content # table[id].content
                       /\ row.lastModified > table[id].lastModified
                    THEN IsWritten(id, PreserveContent(table[id], row))
                    ELSE table'[id] = table[id]

LEMMA IncrementalStep ==
    ASSUME TypeOK, NEW batch \in SUBSET Ids, NEW revs, Delivers(batch, revs)
    PROVE  Updates(batch, revs)
<1> DEFINE new == [id \in batch |-> RevisionRow(id, revs[id])]
<1>1. DOMAIN new = batch /\ \A id \in batch : new[id] = RevisionRow(id, revs[id])
  OBVIOUS
<1>2. \A id \in batch : new[id] \in Update
  BY <1>1, RevisionRowType DEF Delivers
<1>3. table' = CommitChangeset(table, IncrementalChanges(table, new))
  BY DEF Delivers
<1> HIDE DEF new
<1>4. IsTable(table)
  BY DEF TypeOK
<1>5. /\ IsTable(table')
      /\ DOMAIN table' = DOMAIN table \union DOMAIN new
      /\ \A id \in DOMAIN table \ DOMAIN new : table'[id] = table[id]
      /\ \A id \in DOMAIN new : Takes(table, table', id, new[id])
  BY <1>1, <1>2, <1>3, <1>4, IncrementalCommit
<1>6. \A id \in batch : Takes(table, table', id, RevisionRow(id, revs[id]))
  BY <1>1, <1>5
<1> QED
  BY <1>1, <1>5, <1>6 DEF Updates, IsWritten, Takes

LEMMA IncrementalUpdateStep ==
    ASSUME TypeOK, IncrementalUpdate
    PROVE  \E batch \in (SUBSET Ids) \ {{}} : \E revs :
               Delivers(batch, revs) /\ Updates(batch, revs)
<1>1. PICK batch \in (SUBSET Ids) \ {{}} :
          \E revs \in [batch -> UNION {DOMAIN Revisions[id] : id \in batch}] :
              Delivers(batch, revs)
  BY DEF IncrementalUpdate, Delivers
<1>2. PICK revs \in [batch -> UNION {DOMAIN Revisions[id] : id \in batch}] :
              Delivers(batch, revs)
  BY <1>1
<1> QED
  BY <1>2, IncrementalStep

\* A snapshot that is synced has contents of records.
LEMMA SnapshotType ==
    ASSUME TypeOK, SnapshotSync
    PROVE  /\ syncs' \in 1..Len(Snapshots)
           /\ \A snapshot \in Snapshots[syncs'] :
                  /\ DOMAIN snapshot \subseteq Ids
                  /\ \A id \in DOMAIN snapshot : snapshot[id] \in Contents
<1>1. syncs' \in 1..Len(Snapshots)
  BY SnapshotsAssumption DEF SnapshotSync, TypeOK
<1>2. Snapshots[syncs'] \subseteq UNION {[S -> Contents] : S \in SUBSET Ids}
  BY <1>1, SnapshotsAssumption
<1> QED
  BY <1>1, <1>2

----------------------------------------------------------------------------
\* The store keeps the types of its state: every row has a changeset that
\* names it (pipeline_store.py, _commit_changeset).
THEOREM StoreTypeCorrect == Spec => []TypeOK
<1>1. Init => TypeOK
  <2> SUFFICES ASSUME Init PROVE TypeOK
    OBVIOUS
  <2>1. DOMAIN NoRows = {}
    BY DEF NoRows
  <2>2. Len(Snapshots) \in Nat
    BY SnapshotsAssumption
  <2> QED
    BY <2>1, <2>2 DEF Init, TypeOK, IsTable
<1>2. TypeOK /\ [Next]_vars => TypeOK'
  <2> SUFFICES ASSUME TypeOK, [Next]_vars PROVE TypeOK'
    OBVIOUS
  <2>1. CASE IncrementalUpdate
    <3>1. PICK batch \in SUBSET Ids : \E revs :
              Delivers(batch, revs) /\ Updates(batch, revs)
      BY <2>1, IncrementalUpdateStep
    <3>2. PICK revs : Delivers(batch, revs) /\ Updates(batch, revs)
      BY <3>1
    <3>3. \A id \in batch : revs[id] \in Nat
      BY <3>2, RevisionRowType DEF Delivers
    <3>4. delivered' \in [Ids -> SUBSET Nat]
      BY <3>2, <3>3 DEF TypeOK, Delivers
    <3> QED
      BY <2>1, <3>2, <3>4 DEF TypeOK, IncrementalUpdate, Updates, IsTable
  <2>2. CASE SnapshotSync
    <3>1. PICK snapshot \in Snapshots[syncs'] :
              /\ table' = CommitChangeset(table, SnapshotChanges(table, snapshot, syncs'))
              /\ latest' = snapshot
      BY <2>2 DEF SnapshotSync
    <3>2. /\ syncs' \in 1..Len(Snapshots)
          /\ DOMAIN snapshot \subseteq Ids
          /\ \A id \in DOMAIN snapshot : snapshot[id] \in Contents
      BY <2>2, <3>1, SnapshotType
    <3>5. IsTable(table')
      BY <3>1, <3>2, SnapshotChangesType, CommitType DEF TypeOK
    <3> QED
      BY <2>2, <3>1, <3>2, <3>5 DEF SnapshotSync, TypeOK, IsTable
  <2>3. CASE UNCHANGED vars
    BY <2>3 DEF TypeOK, vars, IsTable
  <2> QED
    BY <2>1, <2>2, <2>3 DEF Next
<1> QED
  BY <1>1, <1>2, PTL DEF Spec

----------------------------------------------------------------------------
\* What a table with content has in a row stays there, or is replaced by other
\* content, also when a deletion without content arrives
\* (_preserve_content_for_deletions).
THEOREM ContentStays == Spec => ContentIsKept
<1>1. TypeOK /\ [Next]_vars =>
          [\A id \in DOMAIN table :
              table[id].content # NoContent => table'[id].content # NoContent]_vars
  <2> SUFFICES ASSUME TypeOK, Next,
                      NEW id \in DOMAIN table, table[id].content # NoContent
               PROVE  table'[id].content # NoContent
    OBVIOUS
  <2>1. CASE IncrementalUpdate
    <3>1. PICK batch \in SUBSET Ids : \E revs :
              Delivers(batch, revs) /\ Updates(batch, revs)
      BY <2>1, IncrementalUpdateStep
    <3>2. PICK revs : Delivers(batch, revs) /\ Updates(batch, revs)
      BY <3>1
    <3>3. CASE id \in batch
      <4> DEFINE row == RevisionRow(id, revs[id])
      <4>1. PreserveContent(table[id], row).content # NoContent
        BY DEF PreserveContent, RevisionRow
      <4>2. \/ IsWritten(id, PreserveContent(table[id], row))
            \/ table'[id] = table[id]
        BY <3>2, <3>3 DEF Updates
      <4> HIDE DEF row
      <4>3. CASE IsWritten(id, PreserveContent(table[id], row))
        <5>1. PICK c : table'[id] = TaggedRow(PreserveContent(table[id], row), c)
          BY <4>3 DEF IsWritten
        <5> QED
          BY <4>1, <5>1 DEF TaggedRow
      <4> QED
        BY <4>2, <4>3
    <3>4. CASE id \notin batch
      BY <3>2, <3>4 DEF Updates
    <3> QED
      BY <3>3, <3>4
  <2>2. CASE SnapshotSync
    <3>1. PICK snapshot \in Snapshots[syncs'] :
              table' = CommitChangeset(table, SnapshotChanges(table, snapshot, syncs'))
      BY <2>2 DEF SnapshotSync
    <3>2. \A i \in DOMAIN snapshot : snapshot[i] # NoContent
      BY <2>2, <3>1, SnapshotType, NoContentAssumption
    <3> DEFINE changes == SnapshotChanges(table, snapshot, syncs')
    <3>3. CASE id \in DOMAIN changes
      <4>1. changes[id].content \in {snapshot[id], table[id].content}
            /\ (changes[id].content = snapshot[id] => id \in DOMAIN snapshot
                   \/ changes[id].content = table[id].content)
        BY <3>3 DEF SnapshotChanges, FindInserts, FindUpdates
      <4> HIDE DEF changes
      <4>2. table'[id] = TaggedRow(changes[id], Changeset(changes))
        BY <3>1, <3>3 DEF CommitChangeset, changes
      <4> QED
        BY <3>2, <4>1, <4>2 DEF TaggedRow
    <3>4. CASE id \notin DOMAIN changes
      BY <3>1, <3>4 DEF CommitChangeset
    <3> QED
      BY <3>3, <3>4
  <2> QED
    BY <2>1, <2>2 DEF Next
<1> QED
  BY <1>1, StoreTypeCorrect, PTL DEF Spec, ContentIsKept

----------------------------------------------------------------------------
(***************************************************************************)
(* The date gate.                                                          *)
(***************************************************************************)
ContentsDoNotRecur ==
    \A id \in Ids : \A i, j \in DOMAIN Revisions[id] :
        Revisions[id][i] = Revisions[id][j] => i = j

\* The row of a record is that of its newest delivered revision, m; its content
\* is one that was delivered.
IsNewest(id, m) ==
    /\ m \in delivered[id]
    /\ \A n \in delivered[id] : n <= m
    /\ id \in DOMAIN table
    /\ table[id].lastModified = m
    /\ table[id].deleted = (Revisions[id][m] = NoContent)
    /\ ~table[id].deleted => table[id].content = Revisions[id][m]
    /\ \E n \in delivered[id] : table[id].content = Revisions[id][n]

DateGate ==
    /\ delivered \in [Ids -> SUBSET Nat]
    /\ \A id \in Ids : delivered[id] \subseteq DOMAIN Revisions[id]
    /\ \A id \in Ids :
           IF delivered[id] = {} THEN syncs = 0 => id \notin DOMAIN table
                                 ELSE \E m \in Nat : IsNewest(id, m)

\* One revision more of a record that has had some.
LEMMA NewerOrNothing ==
    ASSUME TypeOK, ContentsDoNotRecur, DateGate,
           NEW batch \in SUBSET Ids, NEW revs,
           Delivers(batch, revs), Updates(batch, revs),
           NEW id \in batch, NEW m \in Nat, IsNewest(id, m)
    PROVE  \E n \in Nat : IsNewest(id, n)'
<1> DEFINE i == revs[id]
           row == RevisionRow(id, i)
<1>1. /\ i \in DOMAIN Revisions[id] /\ i \in Nat
      /\ delivered'[id] = delivered[id] \union {i}
      /\ delivered[id] \subseteq DOMAIN Revisions[id]
      /\ delivered[id] \subseteq Nat
  BY RevisionRowType DEF Delivers, DateGate
<1>2. PICK n \in delivered[id] : table[id].content = Revisions[id][n]
  BY DEF IsNewest
<1>3. /\ row.content = Revisions[id][i]
      /\ row.lastModified = i
      /\ row.deleted = (Revisions[id][i] = NoContent)
  BY DEF RevisionRow
<1>4. id \in DOMAIN table' /\ id \in Ids
  BY DEF Updates
<1> HIDE DEF row
<1>5. CASE i > m
  <2>1. n # i
    BY <1>1, <1>2, <1>5 DEF IsNewest
  <2>2. row.content # table[id].content
    BY <1>1, <1>2, <1>3, <2>1 DEF ContentsDoNotRecur
  <2>3. IsWritten(id, PreserveContent(table[id], row))
    BY <1>3, <1>5, <2>2 DEF Updates, IsNewest, row
  <2>4. PICK c : table'[id] = TaggedRow(PreserveContent(table[id], row), c)
    BY <2>3 DEF IsWritten
  <2>5. /\ table'[id].lastModified = i
        /\ table'[id].deleted = row.deleted
        /\ table'[id].content = IF row.deleted /\ row.content = NoContent
                                THEN table[id].content ELSE row.content
    BY <1>3, <2>4 DEF TaggedRow, PreserveContent
  <2>6. \A k \in delivered'[id] : k <= i
    BY <1>1, <1>5 DEF IsNewest
  <2>7. \E k \in delivered'[id] : table'[id].content = Revisions[id][k]
    BY <1>1, <1>2, <1>3, <2>5
  <2>8. IsNewest(id, i)'
    BY <1>1, <1>3, <1>4, <2>5, <2>6, <2>7 DEF IsNewest
  <2> QED
    BY <1>1, <2>8
<1>6. CASE i <= m
  <2>1. table'[id] = table[id]
    BY <1>1, <1>3, <1>6 DEF Updates, IsNewest, row
  <2>2. IsNewest(id, m)'
    BY <1>1, <1>4, <1>6, <2>1 DEF IsNewest
  <2> QED
    BY <2>2
<1> QED
  BY <1>1, <1>5, <1>6

\* The first revision of a record.
LEMMA FirstIsNewest ==
    ASSUME TypeOK, DateGate, syncs = 0,
           NEW batch \in SUBSET Ids, NEW revs,
           Delivers(batch, revs), Updates(batch, revs),
           NEW id \in batch, delivered[id] = {}
    PROVE  \E n \in Nat : IsNewest(id, n)'
<1> DEFINE i == revs[id]
<1>1. i \in DOMAIN Revisions[id] /\ i \in Nat /\ delivered'[id] = {i}
  BY RevisionRowType DEF Delivers
<1>2. id \notin DOMAIN table /\ id \in DOMAIN table'
  BY DEF DateGate, Updates
<1>3. PICK c : table'[id] = TaggedRow(RevisionRow(id, i), c)
  BY <1>2 DEF Updates, IsWritten
<1>4. /\ table'[id].lastModified = i
      /\ table'[id].content = Revisions[id][i]
      /\ table'[id].deleted = (Revisions[id][i] = NoContent)
  BY <1>3 DEF TaggedRow, RevisionRow
<1>5. IsNewest(id, i)'
  BY <1>1, <1>2, <1>4 DEF IsNewest
<1> QED
  BY <1>1, <1>5

\* When no content of a record comes back, the row of a record says what the
\* newest of its delivered versions says, whatever order they came in and however
\* often (incremental_update's date gate).  MCAdapterRecurring.cfg shows that the
\* assumption is needed.
THEOREM NewestWins ==
    ASSUME ContentsDoNotRecur
    PROVE  Spec => []NewestVersionWins
<1>1. Init => DateGate
  BY DEF Init, DateGate, NoRows
<1>2. TypeOK /\ DateGate /\ [Next]_vars => DateGate'
  <2> SUFFICES ASSUME TypeOK, DateGate, [Next]_vars PROVE DateGate'
    OBVIOUS
  <2>1. CASE syncs = 0 /\ IncrementalUpdate
    <3>1. PICK batch \in SUBSET Ids : \E revs :
              Delivers(batch, revs) /\ Updates(batch, revs)
      BY <2>1, IncrementalUpdateStep
    <3>2. PICK revs : Delivers(batch, revs) /\ Updates(batch, revs)
      BY <3>1
    <3>3. \A id \in batch : revs[id] \in DOMAIN Revisions[id] /\ revs[id] \in Nat
      BY <3>2, RevisionRowType DEF Delivers
    <3>4. /\ delivered' \in [Ids -> SUBSET Nat]
          /\ \A id \in Ids : delivered'[id] \subseteq DOMAIN Revisions[id]
      BY <3>2, <3>3 DEF Delivers, DateGate
    <3>5. ASSUME NEW id \in Ids
          PROVE  IF delivered'[id] = {} THEN syncs' = 0 => id \notin DOMAIN table'
                                        ELSE \E m \in Nat : IsNewest(id, m)'
      <4>1. CASE id \in batch
        <5>1. delivered'[id] # {}
          BY <3>2, <4>1 DEF Delivers
        <5>2. CASE delivered[id] = {}
          BY <2>1, <3>2, <4>1, <5>1, <5>2, FirstIsNewest
        <5>3. CASE delivered[id] # {}
          <6>1. PICK m \in Nat : IsNewest(id, m)
            BY <5>3 DEF DateGate
          <6> QED
            BY <3>2, <4>1, <5>1, <6>1, NewerOrNothing
        <5> QED
          BY <5>2, <5>3
      <4>2. CASE id \notin batch
        <5>1. delivered'[id] = delivered[id]
          BY <3>2, <4>2 DEF Delivers
        <5>2. id \in DOMAIN table' <=> id \in DOMAIN table
          BY <3>2, <4>2 DEF Updates
        <5>3. CASE delivered[id] = {}
          BY <2>1, <5>1, <5>2, <5>3 DEF DateGate
        <5>4. CASE delivered[id] # {}
          <6>1. PICK m \in Nat : IsNewest(id, m)
            BY <5>4 DEF DateGate
          <6>2. table'[id] = table[id]
            BY <3>2, <4>2, <6>1 DEF Updates, IsNewest
          <6>3. IsNewest(id, m)'
            BY <5>1, <5>2, <6>1, <6>2 DEF IsNewest
          <6> QED
            BY <5>1, <5>4, <6>3
        <5> QED
          BY <5>3, <5>4
      <4> QED
        BY <4>1, <4>2
    <3> QED
      BY <3>4, <3>5 DEF DateGate
  <2>2. CASE (\A id \in Ids : delivered[id] = {}) /\ SnapshotSync
    <3>1. delivered' = delivered /\ syncs' # 0
      BY <2>2, SnapshotType DEF SnapshotSync
    <3> QED
      BY <2>2, <3>1 DEF DateGate, SnapshotSync
  <2>3. CASE UNCHANGED vars
    BY <2>3 DEF DateGate, IsNewest, vars
  <2> QED
    BY <2>1, <2>2, <2>3 DEF Next
<1>3. DateGate => NewestVersionWins
  <2> SUFFICES ASSUME DateGate, NEW id \in Ids, delivered[id] # {}
               PROVE  LET newest == RevisionRow(id, Max(delivered[id]))
                      IN  /\ id \in DOMAIN table
                          /\ table[id].deleted = newest.deleted
                          /\ ~newest.deleted => table[id].content = newest.content
    BY DEF NewestVersionWins
  <2>1. PICK m \in Nat : IsNewest(id, m)
    BY DEF DateGate
  <2>2. Max(delivered[id]) = m
    BY <2>1 DEF Max, IsNewest, DateGate
  <2> QED
    BY <2>1, <2>2 DEF IsNewest, RevisionRow
<1> QED
  BY <1>1, <1>2, <1>3, StoreTypeCorrect, PTL DEF Spec

----------------------------------------------------------------------------
(***************************************************************************)
(* Snapshots.                                                              *)
(***************************************************************************)

\* A record that was away comes back with content that it did not have before.
ReturnsAreFresh ==
    \A i, j, k \in DOMAIN Snapshots : i < j /\ j < k =>
        \A old \in Snapshots[i], gone \in Snapshots[j], new \in Snapshots[k] :
            \A id \in (DOMAIN old \intersect DOMAIN new) \ DOMAIN gone :
                old[id] # new[id]

\* Where the content of a deleted row is from: a snapshot before one that did
\* not have the record.
IsGone(id) ==
    \E i, j \in 1..syncs : i < j /\
        \E old \in Snapshots[i], gone \in Snapshots[j] :
            /\ id \in DOMAIN old /\ table[id].content = old[id]
            /\ id \notin DOMAIN gone

Synced ==
    /\ IF syncs = 0 THEN (\A id \in Ids : delivered[id] = {}) => DOMAIN table = {}
       ELSE \A id \in Ids : delivered[id] = {}
    /\ syncs > 0 => latest \in Snapshots[syncs]
    /\ syncs > 0 => \A id \in Ids :
           IF id \in DOMAIN latest
           THEN /\ id \in DOMAIN table
                /\ ~table[id].deleted
                /\ table[id].content = latest[id]
           ELSE id \in DOMAIN table => table[id].deleted /\ IsGone(id)

\* One sync, for one record.
LEMMA SyncedRow ==
    ASSUME TypeOK, ReturnsAreFresh, Synced, SnapshotSync,
           \A i \in Ids : delivered[i] = {}, NEW id \in Ids
    PROVE  IF id \in DOMAIN latest'
           THEN /\ id \in DOMAIN table'
                /\ ~table'[id].deleted
                /\ table'[id].content = latest'[id]
           ELSE id \in DOMAIN table' => table'[id].deleted /\ IsGone(id)'
<1> DEFINE changes == SnapshotChanges(table, latest', syncs')
           upsert == id \in DOMAIN latest' /\
                         (id \in DOMAIN table => latest'[id] # table[id].content)
           delete == /\ id \in DOMAIN table /\ id \notin DOMAIN latest'
                     /\ ~table[id].deleted
<1>1. /\ syncs' = syncs + 1 /\ syncs \in Nat /\ syncs' \in 1..Len(Snapshots)
      /\ table' = CommitChangeset(table, changes)
      /\ latest' \in Snapshots[syncs']
  BY SnapshotType DEF SnapshotSync, TypeOK
<1>2. /\ id \in DOMAIN changes <=> upsert \/ delete
      /\ upsert => changes[id] = [content |-> latest'[id], deleted |-> FALSE,
                                  lastModified |-> syncs']
      /\ delete => changes[id] = [content |-> table[id].content, deleted |-> TRUE,
                                  lastModified |-> syncs']
  BY DEF SnapshotChanges, FindInserts, FindUpdates, FindSnapshotDeletes
<1> HIDE DEF changes
<1>3. id \in DOMAIN changes =>
          id \in DOMAIN table' /\ table'[id] = TaggedRow(changes[id], Changeset(changes))
  BY <1>1 DEF CommitChangeset
<1>4. id \notin DOMAIN changes =>
          (id \in DOMAIN table' <=> id \in DOMAIN table)
          /\ (id \in DOMAIN table => table'[id] = table[id])
  BY <1>1 DEF CommitChangeset
<1>5. CASE upsert
  BY <1>2, <1>3, <1>5 DEF TaggedRow
<1>6. CASE delete
  <2>1. table'[id].deleted /\ table'[id].content = table[id].content
    BY <1>2, <1>3, <1>6 DEF TaggedRow
  <2>2. syncs > 0
    BY <1>1, <1>6 DEF Synced
  <2>3. id \in DOMAIN latest /\ table[id].content = latest[id]
    BY <1>6, <2>2 DEF Synced
  <2>4. latest \in Snapshots[syncs]
    BY <2>2 DEF Synced
  <2>5. /\ syncs \in 1..syncs' /\ syncs' \in 1..syncs' /\ syncs < syncs'
    BY <1>1, <2>2
  <2>6. IsGone(id)'
    BY <1>1, <1>6, <2>1, <2>3, <2>4, <2>5 DEF IsGone
  <2> QED
    BY <1>6, <2>1, <2>6
<1>7. CASE ~upsert /\ ~delete /\ id \in DOMAIN latest'
  <2>1. id \in DOMAIN table /\ latest'[id] = table[id].content
    BY <1>7
  <2>2. id \in DOMAIN table' /\ table'[id] = table[id]
    BY <1>2, <1>4, <1>7, <2>1
  <2>3. ~table[id].deleted
    <3>1. SUFFICES ASSUME table[id].deleted PROVE FALSE
      OBVIOUS
    <3>2. syncs > 0
      BY <1>1, <2>1 DEF Synced
    <3>3. IsGone(id)
      BY <2>1, <3>1, <3>2 DEF Synced
    <3>4. PICK i \in 1..syncs, j \in 1..syncs : i < j /\
              \E old \in Snapshots[i], gone \in Snapshots[j] :
                  /\ id \in DOMAIN old /\ table[id].content = old[id]
                  /\ id \notin DOMAIN gone
      BY <3>3 DEF IsGone
    <3>5. /\ i \in DOMAIN Snapshots /\ j \in DOMAIN Snapshots /\ syncs' \in DOMAIN Snapshots
          /\ i < j /\ j < syncs'
      BY <1>1, <3>4, SnapshotsAssumption
    <3> QED
      BY <1>1, <1>7, <2>1, <3>4, <3>5 DEF ReturnsAreFresh
  <2> QED
    BY <1>7, <2>1, <2>2, <2>3
<1>8. CASE ~upsert /\ ~delete /\ id \notin DOMAIN latest'
  <2> SUFFICES ASSUME id \in DOMAIN table'
               PROVE  table'[id].deleted /\ IsGone(id)'
    BY <1>8
  <2>1. id \in DOMAIN table /\ table'[id] = table[id] /\ table[id].deleted
    BY <1>2, <1>4, <1>8
  <2>2. syncs > 0
    BY <1>1, <2>1 DEF Synced
  <2>3. IsGone(id)
    BY <2>1, <2>2 DEF Synced
  <2>4. \A i \in 1..syncs : i \in 1..syncs'
    BY <1>1
  <2>5. IsGone(id)'
    BY <2>1, <2>3, <2>4 DEF IsGone
  <2> QED
    BY <2>1, <2>5
<1> QED
  BY <1>5, <1>6, <1>7, <1>8

\* When records that come back have changed, the active records after a sync are
\* those of the snapshot.  MCAdapterRestored.cfg shows that the assumption is
\* needed: find_updates does not see a record that comes back as it was.
THEOREM SyncsMatch ==
    ASSUME ReturnsAreFresh
    PROVE  Spec => []TableMatchesSnapshot
<1>1. Init => Synced
  BY DEF Init, Synced, NoRows
<1>2. TypeOK /\ Synced /\ [Next]_vars => Synced'
  <2> SUFFICES ASSUME TypeOK, Synced, [Next]_vars PROVE Synced'
    OBVIOUS
  <2>1. CASE syncs = 0 /\ IncrementalUpdate
    <3>1. syncs' = 0
      BY <2>1 DEF IncrementalUpdate
    <3>2. \E id \in Ids : delivered'[id] # {}
      <4>1. PICK batch \in (SUBSET Ids) \ {{}} : \E revs :
                Delivers(batch, revs) /\ Updates(batch, revs)
        BY <2>1, IncrementalUpdateStep
      <4>2. PICK id : id \in batch
        <5>1. batch # {}
          BY <4>1
        <5> QED
          BY <5>1, Zenon
      <4> QED
        BY <4>1, <4>2 DEF Delivers
    <3> QED
      BY <3>1, <3>2 DEF Synced
  <2>2. CASE (\A id \in Ids : delivered[id] = {}) /\ SnapshotSync
    <3>1. /\ syncs' > 0 /\ delivered' = delivered
          /\ latest' \in Snapshots[syncs']
      BY <2>2, SnapshotType DEF SnapshotSync
    <3>2. \A id \in Ids :
           IF id \in DOMAIN latest'
           THEN /\ id \in DOMAIN table'
                /\ ~table'[id].deleted
                /\ table'[id].content = latest'[id]
           ELSE id \in DOMAIN table' => table'[id].deleted /\ IsGone(id)'
      BY <2>2, SyncedRow
    <3> QED
      BY <2>2, <3>1, <3>2 DEF Synced
  <2>3. CASE UNCHANGED vars
    BY <2>3 DEF Synced, IsGone, vars
  <2> QED
    BY <2>1, <2>2, <2>3 DEF Next
<1>3. TypeOK /\ Synced => TableMatchesSnapshot
  <2> SUFFICES ASSUME TypeOK, Synced, syncs > 0
               PROVE  ActiveRecords(table) = latest
    BY DEF TableMatchesSnapshot
  <2>1. latest \in UNION {[S -> Contents] : S \in SUBSET Ids}
    <3>1. syncs \in 1..Len(Snapshots)
      BY DEF TypeOK
    <3> QED
      BY <3>1, SnapshotsAssumption DEF Synced
  <2>2. latest = [id \in DOMAIN latest |-> latest[id]] /\ DOMAIN latest \subseteq Ids
    BY <2>1
  <2>3. {i \in DOMAIN table : ~table[i].deleted} = DOMAIN latest
    BY <2>2 DEF Synced, TypeOK, IsTable
  <2>4. \A id \in DOMAIN latest : table[id].content = latest[id]
    BY <2>2 DEF Synced
  <2> QED
    BY <2>2, <2>3, <2>4 DEF ActiveRecords
<1> QED
  BY <1>1, <1>2, <1>3, StoreTypeCorrect, PTL DEF Spec
=============================================================================
