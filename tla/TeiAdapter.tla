----------------------------- MODULE TeiAdapter -----------------------------
(***************************************************************************)
(* The TEI manuscripts on their way from the Git repository to the         *)
(* catalogue (src/tei_adapter): the updater polls the tree and sends what  *)
(* changed by path, the id extractor keeps which id is at which path and   *)
(* sends what changed by id, and the adapter stores every manuscript and   *)
(* tells the transformer.  Messages are dated by the poll that found them. *)
(*                                                                         *)
(* SQS delivers in any order.  Both services delay deletions, so that the  *)
(* changes of the same poll come first; Patient says that the delays, and  *)
(* the half hour between polls, are long enough for the changes that came  *)
(* before.                                                                 *)
(***************************************************************************)
EXTENDS Integers, Sequences

CONSTANTS
    Paths,      \* of TEI files; others are filtered out by isTeiFile
    Ids,        \* the xml:id of a manuscript
    Texts,      \* the contents of a file, its id aside
    NoFile, NoRow, Nothing, Deleted,
    Trees,      \* the trees the repository may have
    MaxPushes,
    Patient,
    MaxFaults,
    FaultKinds  \* of "poll", "send", "announce", "again"

Files == [id : Ids, text : Texts]
Rows == [id : Ids, time : Nat]
PathMessages == [path : Paths, file : Files \union {NoFile}, time : Nat]
IdMessages == [id : Ids, content : Texts \union {Deleted}, time : Nat]
Metadata == [content : Texts \union {Deleted}, time : Nat]

IdsIn(files) == {files[p].id : p \in {q \in Paths : files[q] # NoFile}}

ASSUME TreesAssumption ==
    /\ Trees \subseteq [Paths -> Files \union {NoFile}]
    /\ \A files \in Trees : \A p, q \in Paths :
           files[p] # NoFile /\ files[q] # NoFile /\ files[p].id = files[q].id
               => p = q
ASSUME NoneAssumption ==
    NoFile \notin Files /\ NoRow \notin Rows /\ Nothing \notin Metadata
        /\ Deleted \notin Texts

VARIABLES
    tree,       \* the main branch
    pushes,
    saved,      \* the tree the updater has stored in S3
    now,        \* the number of polls
    retry,      \* whether a poll has failed since the last that saved its tree,
                \* and was overtaken by a push
    pathQueue,  \* from the updater to the id extractor
    late,       \* messages the id extractor has handled, to be delivered again
    table,      \* the path id table, by path
    idQueue,    \* from the id extractor to the adapter
    store,      \* the adapter's store, by id
    told,       \* the newest the transformer was told, by id
    away,       \* ids that some tree, or a poll that failed, has left out
    faults

vars == <<tree, pushes, saved, now, retry, pathQueue, late, table, idQueue,
          store, told, away, faults>>

----------------------------------------------------------------------------
\* A change of a file, or its deletion when there is no file.
PathMessage(path, file, time) == [path |-> path, file |-> file, time |-> time]
IdMessage(id, content, time) == [id |-> id, content |-> content, time |-> time]
PathId(id, time) == [id |-> id, time |-> time]

Init ==
    /\ tree \in Trees
    /\ saved = tree
    /\ pushes = 0 /\ now = 0 /\ faults = 0
    /\ retry = "none"
    /\ pathQueue = {} /\ late = {} /\ idQueue = {}
    /\ table = [p \in Paths |-> IF tree[p] = NoFile THEN NoRow
                                ELSE PathId(tree[p].id, 0)]
    /\ store = [id \in Ids |->
           IF id \in IdsIn(tree)
           THEN [content |-> tree[CHOOSE p \in Paths :
                                 tree[p] # NoFile /\ tree[p].id = id].text,
                 time |-> 0]
           ELSE Nothing]
    /\ told = store
    /\ away = Ids \ IdsIn(tree)

Fault(kind) == kind \in FaultKinds /\ faults < MaxFaults /\ faults' = faults + 1

----------------------------------------------------------------------------
(***************************************************************************)
(* The repository and the updater                                          *)
(***************************************************************************)
Push ==
    /\ pushes < MaxPushes
    /\ pushes' = pushes + 1
    /\ tree' \in Trees \ {tree}
    /\ away' = away \union (Ids \ IdsIn(tree'))
    /\ retry' = IF retry = "none" THEN "none" ELSE "overtaken"
    /\ UNCHANGED <<saved, now, pathQueue, late, table, idQueue, store, told,
                   faults>>

\* diff_trees
DiffTrees(old, new, time) ==
    {PathMessage(p, new[p], time) : p \in {q \in Paths : new[q] # old[q]}}

Changes(messages) == {m \in messages : m.file # NoFile}

Poll ==
    /\ tree # saved
    /\ now' = now + 1
    /\ pathQueue' = pathQueue \union DiffTrees(saved, tree, now')
    /\ retry' = IF retry = "overtaken" THEN retry ELSE "none"
    /\ saved' = tree
    /\ UNCHANGED <<tree, pushes, late, table, idQueue, store, told, away, faults>>

\* Deletions are sent after all changes.
SentInOrder(sent, messages) ==
    /\ sent \subseteq messages
    /\ sent \subseteq Changes(messages) \/ Changes(messages) \subseteq sent

\* The updater stops before it has sent every message, or stored the tree.
PollFails ==
    /\ tree # saved
    /\ Fault("poll")
    /\ now' = now + 1
    /\ \E sent \in SUBSET DiffTrees(saved, tree, now') :
           /\ SentInOrder(sent, DiffTrees(saved, tree, now'))
           /\ pathQueue' = pathQueue \union sent
    /\ retry' = IF retry = "overtaken" THEN retry ELSE "pending"
    /\ away' = Ids
    /\ UNCHANGED <<tree, pushes, saved, late, table, idQueue, store, told>>

----------------------------------------------------------------------------
(***************************************************************************)
(* The id extractor.  Every handler of PathIdManager is a transaction, in  *)
(* which the messages are sent before the rows are written.                *)
(***************************************************************************)
Outcome(sends, rows) == [sends |-> sends, rows |-> rows]

PathsOf(rows, id) == {p \in Paths : rows[p] # NoRow /\ rows[p].id = id}
IsAfter(time, rows, S) == \A p \in S : rows[p] # NoRow => time > rows[p].time

\* Mutant: nobody is told of the manuscript whose path is taken.
EvictQuietly(rows, m) ==
    LET idPaths == PathsOf(rows, m.file.id)
    IN  IF IsAfter(m.time, rows, idPaths \union {m.path})
        THEN Outcome(<<IdMessage(m.file.id, m.file.text, m.time)>>,
                     [p \in Paths |->
                         IF p = m.path THEN PathId(m.file.id, m.time)
                         ELSE IF p \in idPaths THEN NoRow ELSE rows[p]])
        ELSE Outcome(<<>>, rows)

\* Mutant: a manuscript that moves keeps its old row.
KeepOldRow(rows, m) ==
    IF IsAfter(m.time, rows, PathsOf(rows, m.file.id) \union {m.path})
    THEN Outcome(<<IdMessage(m.file.id, m.file.text, m.time)>>,
                 [rows EXCEPT ![m.path] = PathId(m.file.id, m.time)])
    ELSE Outcome(<<>>, rows)

\* insert, update, updatePathRowDeleteOldId and deletePathRowUpdateIdRow: they
\* differ in whether another id is at the path, and the id at another path.
HandlePathChanged(rows, m) ==
    LET idPaths == PathsOf(rows, m.file.id)
        change  == IdMessage(m.file.id, m.file.text, m.time)
    IN  IF IsAfter(m.time, rows, idPaths \union {m.path})
        THEN Outcome(IF rows[m.path] = NoRow \/ m.path \in idPaths
                     THEN <<change>>
                     ELSE <<change, IdMessage(rows[m.path].id, Deleted, m.time)>>,
                     [p \in Paths |->
                         IF p = m.path THEN PathId(m.file.id, m.time)
                         ELSE IF p \in idPaths THEN NoRow ELSE rows[p]])
        ELSE Outcome(<<>>, rows)

HandlePathDeleted(rows, m) ==
    IF rows[m.path] # NoRow /\ IsAfter(m.time, rows, {m.path})
    THEN Outcome(<<IdMessage(rows[m.path].id, Deleted, m.time)>>,
                 [rows EXCEPT ![m.path] = NoRow])
    ELSE Outcome(<<>>, rows)

Handled(m) == IF m.file = NoFile THEN HandlePathDeleted(table, m)
              ELSE HandlePathChanged(table, m)

\* With patience a deletion waits for the changes of its poll, and a change for
\* those of earlier polls.  What is delivered again comes when it likes.
PathIsDue(m) ==
    \/ m \in late
    \/ Patient => \A c \in Changes(pathQueue) \ {m} :
           IF m.file = NoFile THEN c.time > m.time ELSE c.time >= m.time

Sent(sends) == {sends[k] : k \in DOMAIN sends}

HandlePath(m) ==
    /\ PathIsDue(m)
    /\ table' = Handled(m).rows
    /\ idQueue' = idQueue \union Sent(Handled(m).sends)
    /\ pathQueue' = pathQueue \ {m}
    /\ \/ late' = late \ {m} /\ UNCHANGED faults
       \/ late' = late \union {m} /\ Fault("again")
    /\ UNCHANGED <<tree, pushes, saved, now, retry, store, told, away>>

\* A send, a statement or the commit fails: the transaction is rolled back, and
\* the message comes back, but what was sent was sent.
HandlePathFails(m) ==
    /\ PathIsDue(m)
    /\ Fault("send")
    /\ \E n \in DOMAIN Handled(m).sends :
           idQueue' = idQueue \union {Handled(m).sends[k] : k \in 1..n}
    /\ UNCHANGED <<tree, pushes, saved, now, retry, pathQueue, late, table, store,
                   told, away>>

----------------------------------------------------------------------------
(***************************************************************************)
(* The adapter                                                             *)
(***************************************************************************)
UpdateMetadata(new, existing) ==
    IF existing = Nothing THEN new
    ELSE IF new.content = Deleted
         THEN IF new.time > existing.time THEN new ELSE existing
         ELSE IF existing.time > new.time THEN existing ELSE new

\* Mutant: deletions are not delayed.
DueAtOnce(m) == TRUE

\* The deletion waits for the changes of its poll, wherever they are.
IdIsDue(m) ==
    Patient /\ m.content = Deleted =>
        /\ \A c \in Changes(pathQueue) : c.time > m.time
        /\ \A c \in idQueue : c.content # Deleted => c.time > m.time

UpdateStore(m) ==
    store' = [store EXCEPT ![m.id] =
                 UpdateMetadata([content |-> m.content, time |-> m.time], @)]

\* Mutant: the transformer is told of what the message has changed.
TellIfChanged(id) ==
    told' = IF store'[id] = store[id] THEN told ELSE [told EXCEPT ![id] = store'[id]]

\* The upsert makes a new version of what it keeps, too, so that what is sent
\* last is what the transformer takes.
Tell(id) == told' = [told EXCEPT ![id] = store'[id]]

HandleId(m) ==
    /\ IdIsDue(m)
    /\ UpdateStore(m)
    /\ Tell(m.id)
    /\ idQueue' = idQueue \ {m}
    /\ UNCHANGED <<tree, pushes, saved, now, retry, pathQueue, late, table, away,
                   faults>>

\* The message is stored, the transformer is not told, and the message comes
\* back.
TellFails(m) ==
    /\ IdIsDue(m)
    /\ Fault("announce")
    /\ UpdateStore(m)
    /\ UNCHANGED <<tree, pushes, saved, now, retry, pathQueue, late, table,
                   idQueue, told, away>>

----------------------------------------------------------------------------
Next ==
    \/ Push
    \/ Poll
    \/ PollFails
    \/ \E m \in pathQueue \union late : HandlePath(m) \/ HandlePathFails(m)
    \/ \E m \in idQueue : HandleId(m) \/ TellFails(m)

Spec == Init /\ [][Next]_vars

----------------------------------------------------------------------------
\* The table has its two keys (V1__create_table.sql): one row for a path, and
\* one for an id.  No handler, in any order, makes a row that the database
\* would refuse.
IdsAreUnique ==
    \A p, q \in Paths : table[p] # NoRow /\ table[q] # NoRow
                            /\ table[p].id = table[q].id => p = q

TypeOK ==
    /\ tree \in Trees /\ saved \in Trees
    /\ pushes \in Nat /\ now \in Nat /\ faults \in Nat
    /\ retry \in {"none", "pending", "overtaken"}
    /\ pathQueue \subseteq PathMessages /\ late \subseteq PathMessages
    /\ idQueue \subseteq IdMessages
    /\ table \in [Paths -> Rows \union {NoRow}]
    /\ store \in [Ids -> Metadata \union {Nothing}]
    /\ told \in [Ids -> Metadata \union {Nothing}]
    /\ away \subseteq Ids
    /\ IdsAreUnique

\* What the adapter stores is told to the transformer, or a message that will
\* tell it is still in the queue: a retry that finds nothing to change must
\* tell what its first attempt changed.
StoredIsToldOrPending ==
    \A id \in Ids : told[id] = store[id] \/ \E m \in idQueue : m.id = id

Matches(files) ==
    \A id \in Ids :
        IF id \in IdsIn(files)
        THEN told[id] # Nothing /\
             \E p \in Paths : files[p] = [id |-> id, text |-> told[id].content]
        ELSE told[id] # Nothing => told[id].content = Deleted

Quiet == tree = saved /\ pathQueue = {} /\ late = {} /\ idQueue = {}

\* When the queues are empty the catalogue has the manuscripts of the tree, with
\* their texts, and no others: whatever moved, took another's path or came back,
\* and in whatever order deletions and changes were handled.  A poll that failed
\* halfway is made good by the next if no push comes in between.
QuietCatalogueMatchesTree == Quiet /\ retry # "overtaken" => Matches(tree)

\* The same, also when a poll fails halfway and the repository is changed before
\* the next.
FailedPollsAreHarmless == Quiet => Matches(tree)

\* As long as no poll fails, a manuscript that was in every tree is never
\* deleted, however it moved (TeiIdExtractorWorkerService: deletions are delayed
\* because they "could make thing disappear temporarily from the api").
MovedManuscriptsStay ==
    \A id \in Ids \ away : told[id] # Nothing /\ told[id].content # Deleted

\* What is delivered again comes before a change of a later poll is in the table.
DuplicatesArePrompt ==
    \A m \in late, p \in Paths : table[p] # NoRow => table[p].time <= m.time
=============================================================================
