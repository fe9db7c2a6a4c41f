-------------------------- MODULE TeiAdapterProofs --------------------------
(***************************************************************************)
(* Proofs about the TEI manuscripts for any paths, ids, trees, faults and  *)
(* any order of delivery: that the path id table keeps its two keys; that  *)
(* whatever is stored is told or will be; that a catalogue has the         *)
(* manuscripts of the tree when nothing is on its way to it; and that a    *)
(* manuscript which only moves is never deleted.                           *)
(***************************************************************************)
EXTENDS TeiAdapter, TLAPS

\* What a handler leaves behind: rows with both keys, and messages by id.
GoodOutcome(o) ==
    /\ o.rows \in [Paths -> Rows \union {NoRow}]
    /\ \A p, q \in Paths : o.rows[p] # NoRow /\ o.rows[q] # NoRow
                               /\ o.rows[p].id = o.rows[q].id => p = q
    /\ \A k \in DOMAIN o.sends : o.sends[k] \in IdMessages

\* HandlePathChanged keeps one row for an id.
LEMMA ChangedIsGood ==
    ASSUME TypeOK, NEW m \in PathMessages, m.file # NoFile
    PROVE  GoodOutcome(HandlePathChanged(table, m))
<1> DEFINE idPaths == PathsOf(table, m.file.id)
           rows == [p \in Paths |->
                       IF p = m.path THEN PathId(m.file.id, m.time)
                       ELSE IF p \in idPaths THEN NoRow ELSE table[p]]
           change == IdMessage(m.file.id, m.file.text, m.time)
           eviction == IdMessage(table[m.path].id, Deleted, m.time)
<1>1. /\ m.path \in Paths /\ m.time \in Nat
      /\ m.file.id \in Ids /\ m.file.text \in Texts
  BY DEF PathMessages, Files
<1>2. table \in [Paths -> Rows \union {NoRow}] /\ IdsAreUnique
  BY DEF TypeOK
<1>3. GoodOutcome(Outcome(<<>>, table))
  BY <1>2 DEF GoodOutcome, Outcome, IdsAreUnique
<1>4. rows \in [Paths -> Rows \union {NoRow}]
  BY <1>1, <1>2 DEF Rows, PathId
<1>5. ASSUME NEW p \in Paths, NEW q \in Paths, rows[p] # NoRow, rows[q] # NoRow,
             rows[p].id = rows[q].id
      PROVE  p = q
  <2>1. CASE p # m.path /\ q # m.path
    BY <1>2, <1>5, <2>1 DEF IdsAreUnique
  <2>2. ASSUME NEW r \in Paths, r # m.path, rows[r] # NoRow
        PROVE  rows[r].id # m.file.id
    BY <2>2 DEF PathsOf
  <2>3. rows[m.path].id = m.file.id
    BY <1>1 DEF PathId
  <2> QED
    BY <2>1, <2>2, <2>3, <1>5
<1>6. change \in IdMessages
  BY <1>1 DEF IdMessage, IdMessages
<1>7. GoodOutcome(Outcome(<<change>>, rows))
  <2>1. \A k \in DOMAIN <<change>> : <<change>>[k] \in IdMessages
    BY <1>6
  <2> HIDE DEF rows, change
  <2> QED
    BY <1>4, <1>5, <2>1 DEF GoodOutcome, Outcome
<1>8. ASSUME table[m.path] # NoRow
      PROVE  GoodOutcome(Outcome(<<change, eviction>>, rows))
  <2>1. eviction \in IdMessages
    BY <1>1, <1>2, <1>8 DEF IdMessage, IdMessages, Rows
  <2>2. \A k \in DOMAIN <<change, eviction>> : <<change, eviction>>[k] \in IdMessages
    BY <1>6, <2>1
  <2> HIDE DEF rows, change, eviction
  <2> QED
    BY <1>4, <1>5, <2>2 DEF GoodOutcome, Outcome
<1>9. \/ HandlePathChanged(table, m) = Outcome(<<>>, table)
      \/ HandlePathChanged(table, m) = Outcome(<<change>>, rows)
      \/ /\ table[m.path] # NoRow
         /\ HandlePathChanged(table, m) = Outcome(<<change, eviction>>, rows)
  BY DEF HandlePathChanged
<1> HIDE DEF rows, change, eviction
<1> QED
  BY <1>3, <1>7, <1>8, <1>9

\* So does HandlePathDeleted.
LEMMA DeletedIsGood ==
    ASSUME TypeOK, NEW m \in PathMessages
    PROVE  GoodOutcome(HandlePathDeleted(table, m))
<1> DEFINE rows == [table EXCEPT ![m.path] = NoRow]
           deletion == IdMessage(table[m.path].id, Deleted, m.time)
<1>1. m.path \in Paths /\ m.time \in Nat
  BY DEF PathMessages
<1>2. table \in [Paths -> Rows \union {NoRow}] /\ IdsAreUnique
  BY DEF TypeOK
<1>3. GoodOutcome(Outcome(<<>>, table))
  BY <1>2 DEF GoodOutcome, Outcome, IdsAreUnique
<1>4. ASSUME table[m.path] # NoRow
      PROVE  GoodOutcome(Outcome(<<deletion>>, rows))
  <2>1. deletion \in IdMessages
    BY <1>1, <1>2, <1>4 DEF IdMessage, IdMessages, Rows
  <2>2. \A k \in DOMAIN <<deletion>> : <<deletion>>[k] \in IdMessages
    BY <2>1
  <2>3. /\ rows \in [Paths -> Rows \union {NoRow}]
        /\ \A p, q \in Paths : rows[p] # NoRow /\ rows[q] # NoRow
                                   /\ rows[p].id = rows[q].id => p = q
    BY <1>1, <1>2 DEF IdsAreUnique
  <2> HIDE DEF rows, deletion
  <2> QED
    BY <2>2, <2>3 DEF GoodOutcome, Outcome
<1>5. \/ HandlePathDeleted(table, m) = Outcome(<<>>, table)
      \/ /\ table[m.path] # NoRow
         /\ HandlePathDeleted(table, m) = Outcome(<<deletion>>, rows)
  BY DEF HandlePathDeleted
<1> HIDE DEF rows, deletion
<1> QED
  BY <1>3, <1>4, <1>5

LEMMA HandledIsGood ==
    ASSUME TypeOK, NEW m \in PathMessages
    PROVE  GoodOutcome(Handled(m))
BY ChangedIsGood, DeletedIsGood DEF Handled

\* A path's messages are dated by a poll, and name a file of the tree.
LEMMA DiffsAreMessages ==
    ASSUME NEW old \in Trees, NEW new \in Trees, NEW time \in Nat
    PROVE  DiffTrees(old, new, time) \subseteq PathMessages
BY TreesAssumption DEF DiffTrees, PathMessage, PathMessages

LEMMA UpdatedIsMetadata ==
    ASSUME NEW new \in Metadata, NEW existing \in Metadata \union {Nothing}
    PROVE  UpdateMetadata(new, existing) \in Metadata
BY DEF UpdateMetadata

LEMMA InitTypeOK == Init => TypeOK
<1> SUFFICES ASSUME Init PROVE TypeOK
  OBVIOUS
<1>1. tree \in [Paths -> Files \union {NoFile}] /\ tree \in Trees
  BY TreesAssumption DEF Init
<1>2. \A p \in Paths : tree[p] # NoFile => tree[p].id \in Ids /\ tree[p].text \in Texts
  BY <1>1 DEF Files
<1>3. table \in [Paths -> Rows \union {NoRow}]
  BY <1>2 DEF Init, Rows, PathId
<1>4. IdsAreUnique
  <2> SUFFICES ASSUME NEW p \in Paths, NEW q \in Paths, table[p] # NoRow,
                      table[q] # NoRow, table[p].id = table[q].id
               PROVE  p = q
    BY DEF IdsAreUnique
  <2>1. tree[p] # NoFile /\ tree[q] # NoFile /\ tree[p].id = tree[q].id
    BY DEF Init, PathId
  <2> QED
    BY <2>1, <1>1, TreesAssumption
<1>5. store \in [Ids -> Metadata \union {Nothing}]
  <2> SUFFICES ASSUME NEW id \in Ids, id \in IdsIn(tree)
               PROVE  tree[CHOOSE p \in Paths :
                              tree[p] # NoFile /\ tree[p].id = id].text \in Texts
    BY DEF Init, Metadata
  <2>1. \E p \in Paths : tree[p] # NoFile /\ tree[p].id = id
    BY DEF IdsIn
  <2> QED
    BY <2>1, <1>2
<1> QED
  BY <1>1, <1>3, <1>4, <1>5 DEF Init, TypeOK

LEMMA NextTypeOK == TypeOK /\ [Next]_vars => TypeOK'
<1> SUFFICES ASSUME TypeOK, [Next]_vars PROVE TypeOK'
  OBVIOUS
<1> USE DEF TypeOK
<1>1. CASE Push
  BY <1>1 DEF Push, IdsAreUnique, Fault
<1>2. CASE Poll
  BY <1>2, DiffsAreMessages DEF Poll, IdsAreUnique
<1>3. CASE PollFails
  BY <1>3, DiffsAreMessages DEF PollFails, SentInOrder, Fault, IdsAreUnique
<1>4. ASSUME NEW m \in pathQueue \union late, HandlePath(m) PROVE TypeOK'
  <2>1. m \in PathMessages
    OBVIOUS
  <2>2. GoodOutcome(Handled(m))
    BY <2>1, HandledIsGood
  <2>3. table' \in [Paths -> Rows \union {NoRow}] /\ IdsAreUnique'
    BY <2>2, <1>4 DEF GoodOutcome, HandlePath, IdsAreUnique
  <2>4. idQueue' \subseteq IdMessages
    BY <2>2, <1>4 DEF GoodOutcome, HandlePath, Sent
  <2>5. /\ pathQueue' \subseteq PathMessages /\ late' \subseteq PathMessages
        /\ faults' \in Nat
    BY <2>1, <1>4 DEF HandlePath, Fault
  <2> QED
    BY <2>3, <2>4, <2>5, <1>4 DEF HandlePath
<1>5. ASSUME NEW m \in pathQueue \union late, HandlePathFails(m) PROVE TypeOK'
  <2>1. GoodOutcome(Handled(m))
    BY HandledIsGood
  <2>2. PICK n \in DOMAIN Handled(m).sends :
            idQueue' = idQueue \union {Handled(m).sends[k] : k \in 1..n}
    BY <1>5 DEF HandlePathFails
  <2>3. 1..n \subseteq DOMAIN Handled(m).sends
    BY <2>2 DEF Handled, HandlePathChanged, HandlePathDeleted, Outcome
  <2>4. idQueue' \subseteq IdMessages
    BY <2>1, <2>2, <2>3 DEF GoodOutcome
  <2> QED
    BY <2>4, <1>5 DEF HandlePathFails, Fault, IdsAreUnique
<1>6. ASSUME NEW m \in idQueue, UpdateStore(m)
      PROVE  store' \in [Ids -> Metadata \union {Nothing}] /\ m.id \in Ids
  <2>1. /\ m.id \in Ids
        /\ [content |-> m.content, time |-> m.time] \in Metadata
    BY DEF IdMessages, Metadata
  <2>2. UpdateMetadata([content |-> m.content, time |-> m.time], store[m.id])
            \in Metadata
    BY <2>1, UpdatedIsMetadata
  <2> QED
    BY <1>6, <2>1, <2>2 DEF UpdateStore
<1>7. ASSUME NEW m \in idQueue, HandleId(m) PROVE TypeOK'
  BY <1>6, <1>7 DEF HandleId, Tell, IdsAreUnique
<1>8. ASSUME NEW m \in idQueue, TellFails(m) PROVE TypeOK'
  BY <1>6, <1>8 DEF TellFails, Fault, IdsAreUnique
<1>9. CASE UNCHANGED vars
  BY <1>9 DEF vars, IdsAreUnique
<1> QED
  BY <1>1, <1>2, <1>3, <1>4, <1>5, <1>7, <1>8, <1>9 DEF Next

\* For any trees and any order of delivery the table has one row for a path and
\* one for an id, and everything keeps its type.
THEOREM TeiTypeCorrect == Spec => []TypeOK
BY InitTypeOK, NextTypeOK, PTL DEF Spec

\* Handlers only add to the adapter's queue, and a message leaves it when the
\* transformer has been told what is stored.
LEMMA NextToldOrPending ==
    TypeOK /\ StoredIsToldOrPending /\ [Next]_vars => StoredIsToldOrPending'
<1> SUFFICES ASSUME TypeOK, StoredIsToldOrPending, [Next]_vars, NEW id \in Ids
             PROVE  told'[id] = store'[id] \/ \E m \in idQueue' : m.id = id
  BY DEF StoredIsToldOrPending
<1>1. told[id] = store[id] \/ \E m \in idQueue : m.id = id
  BY DEF StoredIsToldOrPending
<1>2. CASE UNCHANGED <<store, told>> /\ idQueue \subseteq idQueue'
  BY <1>1, <1>2
<1>3. ASSUME Push \/ Poll \/ PollFails \/ UNCHANGED vars
      PROVE  UNCHANGED <<store, told>> /\ idQueue \subseteq idQueue'
  BY <1>3 DEF Push, Poll, PollFails, vars
<1>4. ASSUME NEW m, HandlePath(m) \/ HandlePathFails(m)
      PROVE  UNCHANGED <<store, told>> /\ idQueue \subseteq idQueue'
  BY <1>4 DEF HandlePath, HandlePathFails
<1>5. ASSUME NEW m \in idQueue, HandleId(m)
      PROVE  told'[id] = store'[id] \/ \E n \in idQueue' : n.id = id
  <2>1. told \in [Ids -> Metadata \union {Nothing}] /\ store \in [Ids -> Metadata \union {Nothing}]
    BY DEF TypeOK
  <2>2. CASE m.id = id
    BY <1>5, <2>1, <2>2 DEF HandleId, Tell
  <2>3. CASE m.id # id
    BY <1>1, <1>5, <2>1, <2>3 DEF HandleId, UpdateStore, Tell
  <2> QED
    BY <2>2, <2>3
<1>6. ASSUME NEW m \in idQueue, TellFails(m)
      PROVE  told'[id] = store'[id] \/ \E n \in idQueue' : n.id = id
  BY <1>1, <1>6 DEF TypeOK, TellFails, UpdateStore
<1> QED
  BY <1>2, <1>3, <1>4, <1>5, <1>6 DEF Next

\* Whatever fails, and in whatever order messages come, what the adapter has
\* stored is told to the transformer or in a message that is still to be handled.
THEOREM NothingStoredIsUntold == Spec => []StoredIsToldOrPending
<1>1. Init => StoredIsToldOrPending
  BY DEF Init, StoredIsToldOrPending
<1> QED
  BY <1>1, TeiTypeCorrect, NextToldOrPending, PTL DEF Spec

----------------------------------------------------------------------------
(***************************************************************************)
(* The order of messages.  With patience the table is changed in the order *)
(* of the polls, except by what is delivered again.                        *)
(***************************************************************************)
Messages == pathQueue \union late

\* Something else than the manuscript id is at the message's path.
IsWithout(m, id) == m.file = NoFile \/ m.file.id # id

\* One poll has one message for a path, and one change for an id.
OfOnePoll(m, n) ==
    m.time = n.time /\ (\/ m.path = n.path
                        \/ m.file # NoFile /\ n.file # NoFile /\ m.file.id = n.file.id)

\* The changes that wait, but for m, are of no earlier poll than m.
IsInOrder(m) ==
    \A c \in Changes(pathQueue) \ {m} :
        IF m.file = NoFile THEN c.time > m.time ELSE c.time >= m.time

TimesAreOfPolls ==
    /\ \A m \in Messages : 0 < m.time /\ m.time <= now
    /\ \A m \in idQueue : m.time <= now
    /\ \A p \in Paths : table[p] # NoRow => table[p].time <= now
    /\ \A id \in Ids : store[id] # Nothing => store[id].time <= now

\* A row is older than the changes that wait for its path and its id.
RowsAreOlder ==
    \A c \in Changes(pathQueue), p \in Paths : table[p] # NoRow =>
        /\ table[p].time <= c.time
        /\ table[p].time = c.time => p # c.path /\ table[p].id # c.file.id

OrderInv ==
    /\ TimesAreOfPolls
    /\ \A m, n \in Messages : OfOnePoll(m, n) => m = n
    /\ pathQueue \intersect late = {}
    /\ \A m \in late : IsInOrder(m)
    /\ RowsAreOlder

----------------------------------------------------------------------------
(***************************************************************************)
(* What the handler of a path message does, in one formula.                *)
(***************************************************************************)
IsEffective(m) ==
    IF m.file = NoFile
    THEN table[m.path] # NoRow /\ table[m.path].time < m.time
    ELSE \A p \in Paths : table[p] # NoRow /\ (p = m.path \/ table[p].id = m.file.id)
             => table[p].time < m.time

RowAfter(m, p) ==
    IF p = m.path
    THEN IF m.file = NoFile THEN NoRow ELSE PathId(m.file.id, m.time)
    ELSE IF m.file # NoFile /\ table[p] # NoRow /\ table[p].id = m.file.id THEN NoRow
         ELSE table[p]

\* The change, and the deletion of the manuscript that was at the path.
Announces(m, n) ==
    \/ m.file # NoFile /\ n = IdMessage(m.file.id, m.file.text, m.time)
    \/ /\ table[m.path] # NoRow /\ IsWithout(m, table[m.path].id)
       /\ n = IdMessage(table[m.path].id, Deleted, m.time)

\* A message says what a file is, or that there is none; so do those by id.
LEMMA MessageTypes ==
    ASSUME TypeOK
    PROVE  /\ \A m \in Messages :
                  /\ m \in PathMessages /\ m.path \in Paths /\ m.time \in Nat
                  /\ m.file # NoFile => m.file.id \in Ids /\ m.file.text \in Texts
           /\ \A m \in idQueue :
                  m.id \in Ids /\ m.time \in Nat /\ m.content \in Texts \union {Deleted}
           /\ \A p \in Paths : table[p] # NoRow =>
                  table[p].id \in Ids /\ table[p].time \in Nat
           /\ \A id \in Ids : store[id] # Nothing =>
                  store[id].time \in Nat /\ store[id].content \in Texts \union {Deleted}
           /\ now \in Nat
BY DEF TypeOK, Messages, PathMessages, IdMessages, Rows, Metadata, Files

LEMMA ChangeIsHandled ==
    ASSUME TypeOK, NEW m \in PathMessages, m.file # NoFile
    PROVE  LET o == HandlePathChanged(table, m)
           IN  /\ ~IsEffective(m) => o.rows = table /\ Sent(o.sends) = {}
               /\ IsEffective(m) =>
                      /\ o.rows = [p \in Paths |-> RowAfter(m, p)]
                      /\ \A n : n \in Sent(o.sends) <=> Announces(m, n)
<1> DEFINE idPaths == PathsOf(table, m.file.id)
           rows == [p \in Paths |->
                       IF p = m.path THEN PathId(m.file.id, m.time)
                       ELSE IF p \in idPaths THEN NoRow ELSE table[p]]
           change == IdMessage(m.file.id, m.file.text, m.time)
           eviction == IdMessage(table[m.path].id, Deleted, m.time)
           after == IsAfter(m.time, table, idPaths \union {m.path})
<1>1. m.path \in Paths /\ m.time \in Nat
  BY DEF PathMessages
<1>2. \A p \in Paths : table[p] # NoRow => table[p].time \in Nat
  BY MessageTypes
<1>3. after <=> IsEffective(m)
  BY <1>1, <1>2 DEF IsAfter, IsEffective, PathsOf
<1>4. rows = [p \in Paths |-> RowAfter(m, p)]
  BY DEF RowAfter, PathsOf
<1>5. m.path \in idPaths <=> table[m.path] # NoRow /\ table[m.path].id = m.file.id
  BY <1>1 DEF PathsOf
<1>6. CASE ~after
  <2>1. HandlePathChanged(table, m) = Outcome(<<>>, table)
    BY <1>6 DEF HandlePathChanged
  <2> QED
    BY <1>3, <1>6, <2>1 DEF Outcome, Sent
<1>7. CASE after /\ (table[m.path] = NoRow \/ m.path \in idPaths)
  <2>1. HandlePathChanged(table, m) = Outcome(<<change>>, rows)
    BY <1>7 DEF HandlePathChanged
  <2>2. Sent(<<change>>) = {change}
    BY DEF Sent
  <2>3. \A n : Announces(m, n) <=> n = change
    BY <1>5, <1>7 DEF Announces, IsWithout
  <2> HIDE DEF rows, change, idPaths, after
  <2> QED
    BY <1>3, <1>4, <1>7, <2>1, <2>2, <2>3 DEF Outcome
<1>8. CASE after /\ table[m.path] # NoRow /\ m.path \notin idPaths
  <2>1. HandlePathChanged(table, m) = Outcome(<<change, eviction>>, rows)
    BY <1>8 DEF HandlePathChanged
  <2>2. Sent(<<change, eviction>>) = {change, eviction}
    BY DEF Sent
  <2>3. \A n : Announces(m, n) <=> n \in {change, eviction}
    BY <1>5, <1>8 DEF Announces, IsWithout
  <2> HIDE DEF rows, change, eviction, idPaths, after
  <2> QED
    BY <1>3, <1>4, <1>8, <2>1, <2>2, <2>3 DEF Outcome
<1> QED
  BY <1>6, <1>7, <1>8

LEMMA DeletionIsHandled ==
    ASSUME TypeOK, NEW m \in PathMessages, m.file = NoFile
    PROVE  LET o == HandlePathDeleted(table, m)
           IN  /\ ~IsEffective(m) => o.rows = table /\ Sent(o.sends) = {}
               /\ IsEffective(m) =>
                      /\ o.rows = [p \in Paths |-> RowAfter(m, p)]
                      /\ \A n : n \in Sent(o.sends) <=> Announces(m, n)
<1> DEFINE rows == [table EXCEPT ![m.path] = NoRow]
           deletion == IdMessage(table[m.path].id, Deleted, m.time)
<1>1. m.path \in Paths /\ m.time \in Nat /\ table \in [Paths -> Rows \union {NoRow}]
  BY DEF PathMessages, TypeOK
<1>2. \A p \in Paths : table[p] # NoRow => table[p].time \in Nat
  BY MessageTypes
<1>3. table[m.path] # NoRow /\ IsAfter(m.time, table, {m.path}) <=> IsEffective(m)
  BY <1>1, <1>2 DEF IsAfter, IsEffective
<1>4. rows = [p \in Paths |-> RowAfter(m, p)]
  BY <1>1 DEF RowAfter
<1>5. CASE ~IsEffective(m)
  <2>1. HandlePathDeleted(table, m) = Outcome(<<>>, table)
    BY <1>3, <1>5 DEF HandlePathDeleted
  <2> QED
    BY <1>5, <2>1 DEF Outcome, Sent
<1>6. CASE IsEffective(m)
  <2>1. HandlePathDeleted(table, m) = Outcome(<<deletion>>, rows)
    BY <1>3, <1>6 DEF HandlePathDeleted
  <2>2. Sent(<<deletion>>) = {deletion}
    BY DEF Sent
  <2>3. \A n : Announces(m, n) <=> n = deletion
    BY <1>3, <1>6 DEF Announces, IsWithout
  <2> HIDE DEF rows, deletion
  <2> QED
    BY <1>4, <1>6, <2>1, <2>2, <2>3 DEF Outcome
<1> QED
  BY <1>5, <1>6

\* A handler leaves the table and the messages as they are, or does all it has
\* to, or only sends some of what it has to send.
LEMMA PathStep ==
    ASSUME TypeOK, OrderInv, Patient = TRUE, NEW m \in Messages,
           HandlePath(m) \/ HandlePathFails(m)
    PROVE  /\ IsInOrder(m)
           /\ UNCHANGED <<tree, saved, now, retry, store, told, away>>
           /\ idQueue \subseteq idQueue'
           /\ \A n \in idQueue' \ idQueue : IsEffective(m) /\ Announces(m, n)
           /\ \/ UNCHANGED <<table, pathQueue, late>>
              \/ /\ pathQueue' = pathQueue \ {m}
                 /\ late' = late \ {m} \/ late' = late \union {m}
                 /\ \/ ~IsEffective(m) /\ UNCHANGED table
                    \/ /\ IsEffective(m)
                       /\ table' = [p \in Paths |-> RowAfter(m, p)]
                       /\ \A n : Announces(m, n) => n \in idQueue'
<1>1. m \in PathMessages
  BY MessageTypes
<1>2. IsInOrder(m)
  BY DEF HandlePath, HandlePathFails, PathIsDue, OrderInv, IsInOrder
<1>3. /\ ~IsEffective(m) => Handled(m).rows = table /\ Sent(Handled(m).sends) = {}
      /\ IsEffective(m) =>
             /\ Handled(m).rows = [p \in Paths |-> RowAfter(m, p)]
             /\ \A n : n \in Sent(Handled(m).sends) <=> Announces(m, n)
  BY <1>1, ChangeIsHandled, DeletionIsHandled DEF Handled
<1>4. CASE HandlePath(m)
  <2>1. idQueue' = idQueue \union Sent(Handled(m).sends) /\ table' = Handled(m).rows
    BY <1>4 DEF HandlePath
  <2> QED
    BY <1>2, <1>3, <1>4, <2>1 DEF HandlePath
<1>5. CASE HandlePathFails(m)
  <2>1. PICK k \in DOMAIN Handled(m).sends :
            idQueue' = idQueue \union {Handled(m).sends[j] : j \in 1..k}
    BY <1>5 DEF HandlePathFails
  <2>2. 1..k \subseteq DOMAIN Handled(m).sends
    BY <2>1 DEF Handled, HandlePathChanged, HandlePathDeleted, Outcome
  <2>3. {Handled(m).sends[j] : j \in 1..k} \subseteq Sent(Handled(m).sends)
    BY <2>2 DEF Sent
  <2> QED
    BY <1>2, <1>3, <1>5, <2>1, <2>3 DEF HandlePathFails
<1> QED
  BY <1>4, <1>5

----------------------------------------------------------------------------
(***************************************************************************)
(* The order is kept.                                                      *)
(***************************************************************************)

\* A poll sends, for some of the paths that differ, what the tree has there.
LEMMA DiffsOfPoll ==
    ASSUME TypeOK, NEW m \in DiffTrees(saved, tree, now + 1)
    PROVE  /\ m.path \in Paths /\ m.file = tree[m.path] /\ m.time = now + 1
           /\ tree[m.path] # saved[m.path]
           /\ m \in PathMessages
<1>1. m \in PathMessages
  BY DiffsAreMessages DEF TypeOK
<1> QED
  BY <1>1 DEF DiffTrees, PathMessage

\* What the updater sends, when it does and when it fails.
PollStep(sent) ==
    /\ sent \subseteq DiffTrees(saved, tree, now + 1)
    /\ now' = now + 1
    /\ pathQueue' = pathQueue \union sent
    /\ UNCHANGED <<tree, late, table, idQueue, store, told>>

LEMMA PollKeepsOrder ==
    ASSUME TypeOK, OrderInv, NEW sent, PollStep(sent)
    PROVE  OrderInv'
<1> USE DEF PollStep
<1>1. now \in Nat /\ now' = now + 1
  BY MessageTypes
<1>2. \A m \in Messages' : m \in Messages \/ m \in sent
  BY DEF Messages
<1>3. \A m \in Messages : m.time \in Nat /\ m.time <= now
  BY MessageTypes DEF OrderInv, TimesAreOfPolls
<1>4. \A m \in sent : m.path \in Paths /\ m.file = tree[m.path] /\ m.time = now + 1
                          /\ m \in PathMessages
  BY DiffsOfPoll
<1>5. TimesAreOfPolls'
  <2>1. \A m \in Messages : 0 < m.time
    BY DEF OrderInv, TimesAreOfPolls
  <2>2. \A m \in idQueue : m.time <= now + 1
    BY <1>1, MessageTypes DEF OrderInv, TimesAreOfPolls
  <2>3. \A p \in Paths : table[p] # NoRow => table[p].time <= now + 1
    BY <1>1, MessageTypes DEF OrderInv, TimesAreOfPolls
  <2>4. \A id \in Ids : store[id] # Nothing => store[id].time <= now + 1
    BY <1>1, MessageTypes DEF OrderInv, TimesAreOfPolls
  <2> QED
    BY <1>1, <1>2, <1>3, <1>4, <2>1, <2>2, <2>3, <2>4 DEF TimesAreOfPolls
<1>6. ASSUME NEW m \in Messages', NEW n \in Messages', OfOnePoll(m, n)
      PROVE  m = n
  <2>1. CASE m \in Messages /\ n \in Messages
    BY <1>6, <2>1 DEF OrderInv
  <2>2. CASE m \in sent /\ n \in sent
    <3>1. m.path = n.path
      <4>1. \A p, q \in Paths : tree[p] # NoFile /\ tree[q] # NoFile
                /\ tree[p].id = tree[q].id => p = q
        BY TreesAssumption DEF TypeOK
      <4> QED
        BY <1>4, <1>6, <2>2, <4>1 DEF OfOnePoll
    <3> QED
      BY <1>4, <2>2, <3>1 DEF PathMessages
  <2> QED
    BY <1>1, <1>2, <1>3, <1>4, <1>6, <2>1, <2>2 DEF OfOnePoll
<1>7. pathQueue' \intersect late' = {}
  BY <1>1, <1>3, <1>4 DEF OrderInv, Messages
<1>8. \A c \in Changes(pathQueue)' : c \in Changes(pathQueue) \/ c \in sent
  BY DEF Changes
<1>9. ASSUME NEW m \in late PROVE IsInOrder(m)'
  BY <1>1, <1>3, <1>4, <1>8 DEF OrderInv, IsInOrder, Messages
<1>10. RowsAreOlder'
  <2>1. \A p \in Paths : table[p] # NoRow => table[p].time \in Nat /\ table[p].time <= now
    BY MessageTypes DEF OrderInv, TimesAreOfPolls
  <2>2. RowsAreOlder
    BY DEF OrderInv
  <2> QED
    BY <1>1, <1>4, <1>8, <2>1, <2>2 DEF RowsAreOlder
<1> QED
  BY <1>5, <1>6, <1>7, <1>9, <1>10 DEF OrderInv

\* In the table after a message there are rows of before and that of the message.
LEMMA RowsAfter ==
    ASSUME NEW m, table' = [p \in Paths |-> RowAfter(m, p)],
           NEW p \in Paths, table'[p] # NoRow
    PROVE  \/ p # m.path /\ table'[p] = table[p]
                  /\ (m.file # NoFile => table[p].id # m.file.id)
           \/ p = m.path /\ m.file # NoFile /\ table'[p] = PathId(m.file.id, m.time)
BY DEF RowAfter

LEMMA PathKeepsOrder ==
    ASSUME TypeOK, OrderInv, Patient = TRUE, NEW m \in Messages,
           HandlePath(m) \/ HandlePathFails(m)
    PROVE  OrderInv'
<1>1. /\ m.path \in Paths /\ m.time \in Nat /\ 0 < m.time /\ m.time <= now
      /\ IsInOrder(m) /\ now' = now /\ store' = store
  BY PathStep, MessageTypes DEF OrderInv, TimesAreOfPolls
<1>2. \A n \in idQueue' : n \in idQueue \/ Announces(m, n)
  BY PathStep
<1>3. TimesAreOfPolls /\ RowsAreOlder
  BY DEF OrderInv
<1>4. \A n \in idQueue' : n.time <= now
  BY <1>1, <1>2, <1>3 DEF TimesAreOfPolls, Announces, IdMessage
<1>5. CASE UNCHANGED <<table, pathQueue, late>>
  BY <1>1, <1>4, <1>5 DEF OrderInv, TimesAreOfPolls, Messages, IsInOrder, RowsAreOlder
<1>6. CASE /\ pathQueue' = pathQueue \ {m}
           /\ late' = late \ {m} \/ late' = late \union {m}
           /\ \/ UNCHANGED table
              \/ table' = [p \in Paths |-> RowAfter(m, p)]
  <2>1. Messages' \subseteq Messages /\ late' \subseteq late \union {m}
    BY <1>6 DEF Messages
  <2>2. Changes(pathQueue)' \subseteq Changes(pathQueue) \ {m}
    BY <1>6 DEF Changes
  <2>3. \A p \in Paths : table'[p] # NoRow =>
            \/ table'[p] = table[p]
            \/ p = m.path /\ m.file # NoFile /\ table'[p] = PathId(m.file.id, m.time)
    BY <1>6, RowsAfter
  <2>4. TimesAreOfPolls'
    <3>1. \A p \in Paths : table'[p] # NoRow => table'[p].time <= now
      BY <1>1, <1>3, <2>3 DEF TimesAreOfPolls, PathId
    <3> QED
      BY <1>1, <1>3, <1>4, <2>1, <3>1 DEF TimesAreOfPolls
  <2>5. \A n \in late' : IsInOrder(n)'
    BY <1>1, <2>1, <2>2 DEF OrderInv, IsInOrder
  <2>6. ASSUME NEW c \in Changes(pathQueue)', NEW p \in Paths, table'[p] # NoRow
        PROVE  /\ table'[p].time <= c.time
               /\ table'[p].time = c.time => p # c.path /\ table'[p].id # c.file.id
    <3>1. CASE table'[p] = table[p]
      BY <1>3, <2>2, <2>6, <3>1 DEF RowsAreOlder
    <3>2. CASE p = m.path /\ m.file # NoFile /\ table'[p] = PathId(m.file.id, m.time)
      <4>1. c \in Messages /\ c.file # NoFile /\ c # m
        BY <2>2 DEF Changes, Messages
      <4>2. ~OfOnePoll(c, m)
        BY <4>1 DEF OrderInv
      <4>3. c.time >= m.time
        BY <1>1, <2>2, <3>2 DEF IsInOrder
      <4> QED
        BY <3>2, <4>1, <4>2, <4>3 DEF OfOnePoll, PathId
    <3> QED
      BY <2>3, <2>6, <3>1, <3>2
  <2>7. pathQueue' \intersect late' = {}
    BY <1>6 DEF OrderInv
  <2> QED
    BY <2>1, <2>4, <2>5, <2>6, <2>7 DEF OrderInv, RowsAreOlder
<1> QED
  BY <1>5, <1>6, PathStep

\* The adapter handles a message, or tries to.
LEMMA IdStep ==
    ASSUME TypeOK, Patient = TRUE, NEW m \in idQueue, HandleId(m) \/ TellFails(m)
    PROVE  /\ UNCHANGED <<tree, saved, now, retry, pathQueue, late, table, away>>
           /\ m.id \in Ids
           /\ store' = [store EXCEPT ![m.id] =
                  UpdateMetadata([content |-> m.content, time |-> m.time], @)]
           /\ idQueue' = idQueue \/ idQueue' = idQueue \ {m}
           /\ \A id \in Ids : told'[id] = told[id] \/ told'[id] = store'[id]
           /\ m.content = Deleted =>
                  /\ \A c \in Changes(pathQueue) : c.time > m.time
                  /\ \A c \in idQueue : c.content # Deleted => c.time > m.time
BY MessageTypes DEF HandleId, TellFails, UpdateStore, Tell, IdIsDue, TypeOK

LEMMA IdKeepsOrder ==
    ASSUME TypeOK, OrderInv, Patient = TRUE, NEW m \in idQueue,
           HandleId(m) \/ TellFails(m)
    PROVE  OrderInv'
<1>1. /\ UNCHANGED <<now, pathQueue, late, table>> /\ idQueue' \subseteq idQueue
      /\ m.id \in Ids
      /\ store' = [store EXCEPT ![m.id] =
             UpdateMetadata([content |-> m.content, time |-> m.time], @)]
  BY IdStep
<1>2. \A id \in Ids : store'[id] # Nothing => store'[id].time <= now
  BY <1>1 DEF OrderInv, TimesAreOfPolls, UpdateMetadata, TypeOK
<1> QED
  BY <1>1, <1>2 DEF OrderInv, TimesAreOfPolls, Messages, IsInOrder, RowsAreOlder

LEMMA InitOrder == Init => OrderInv
<1> SUFFICES ASSUME Init PROVE OrderInv
  OBVIOUS
<1>1. \A id \in Ids : store[id] # Nothing => store[id].time = 0
  BY DEF Init
<1>2. \A p \in Paths : table[p] # NoRow => table[p].time = 0
  BY DEF Init, PathId
<1>3. pathQueue = {} /\ late = {} /\ idQueue = {} /\ now = 0
  BY DEF Init
<1>4. Messages = {} /\ Changes(pathQueue) = {}
  BY <1>3 DEF Messages, Changes
<1> QED
  BY <1>1, <1>2, <1>3, <1>4 DEF OrderInv, TimesAreOfPolls, RowsAreOlder

LEMMA PollsStep ==
    ASSUME TypeOK, Poll \/ PollFails
    PROVE  \E sent : PollStep(sent)
BY DEF Poll, PollFails, PollStep, TypeOK

LEMMA NextOrder ==
    ASSUME TypeOK, OrderInv, Patient = TRUE, [Next]_vars
    PROVE  OrderInv'
<1>1. CASE UNCHANGED <<now, pathQueue, late, table, idQueue, store>>
  BY <1>1 DEF OrderInv, TimesAreOfPolls, Messages, IsInOrder, RowsAreOlder
<1>2. CASE Poll \/ PollFails
  BY <1>2, PollsStep, PollKeepsOrder
<1>3. ASSUME NEW m \in Messages, HandlePath(m) \/ HandlePathFails(m) PROVE OrderInv'
  BY <1>3, PathKeepsOrder
<1>4. ASSUME NEW m \in idQueue, HandleId(m) \/ TellFails(m) PROVE OrderInv'
  BY <1>4, IdKeepsOrder
<1>5. Push \/ UNCHANGED vars => UNCHANGED <<now, pathQueue, late, table, idQueue, store>>
  BY DEF Push, vars
<1> QED
  BY <1>1, <1>2, <1>3, <1>4, <1>5 DEF Next, Messages

----------------------------------------------------------------------------
(***************************************************************************)
(* The catalogue follows the tree.  What is known of a manuscript is in    *)
(* messages by path, in messages by id, in the table and in the store; a   *)
(* date tells the last word about it from the rest.                        *)
(***************************************************************************)
ChangesOf(id, messages) == {m \in Changes(messages) : m.file.id = id}
Contents(id) == {m \in idQueue : m.id = id /\ m.content # Deleted}
IsContent(metadata) == metadata # Nothing /\ metadata.content # Deleted

\* Nothing says later than s that there is a manuscript id.
UpTo(id, s) ==
    /\ \A c \in ChangesOf(id, Messages) : c.time <= s
    /\ \A m \in Contents(id) : m.time <= s
    /\ IsContent(store[id]) => store[id].time <= s

\* Nothing takes back what is said at s of a file at p, or says other than it.
IsLastWord(p, file, s) ==
    /\ UpTo(file.id, s)
    /\ \A m \in idQueue : m.id = file.id => m.time <= s
    /\ store[file.id] # Nothing => store[file.id].time <= s
    /\ \A m \in Contents(file.id) : m.time = s => m.content = file.text
    /\ IsContent(store[file.id]) /\ store[file.id].time = s
           => store[file.id].content = file.text
    /\ \A m \in Messages : m.path = p /\ IsWithout(m, file.id) => m.time <= s

\* The last word is waiting, or it is in the table and on its way to the store.
IsUnderWay(p, file, s) ==
    \/ PathMessage(p, file, s) \in pathQueue
    \/ /\ table[p] = PathId(file.id, s)
       /\ \/ IdMessage(file.id, file.text, s) \in idQueue
          \/ store[file.id] = [content |-> file.text, time |-> s]

\* The catalogue will have the file that is at p, and keep it.
Lives(p, file) == \E s \in 0..now : IsLastWord(p, file, s) /\ IsUnderWay(p, file, s)

NeverCame(id) ==
    ChangesOf(id, Messages) = {} /\ Contents(id) = {} /\ ~IsContent(store[id])

IsDeletedAfter(id, s) ==
    \/ \E m \in idQueue : m.id = id /\ m.content = Deleted /\ s < m.time
    \/ store[id] # Nothing /\ store[id].content = Deleted /\ s < store[id].time

\* The message m will find id in the table and send its deletion.
WillDelete(m, id, s) ==
    /\ IsWithout(m, id) /\ s < m.time
    /\ \/ \E c \in ChangesOf(id, pathQueue) : c.path = m.path /\ c.time = s
       \/ table[m.path] = PathId(id, s)

\* The catalogue will not have the manuscript id.
Goes(id) ==
    \/ NeverCame(id)
    \/ \E s \in 0..now :
           UpTo(id, s) /\ (IsDeletedAfter(id, s) \/ \E m \in pathQueue : WillDelete(m, id, s))

\* What the last poll saw is what the catalogue will have.  A poll that fails
\* may have sent some of what is different in the tree, and says nothing of the
\* rest, which the next will see as it is if there is no push in between.
FollowsTree ==
    /\ retry = "none" =>
           /\ \A p \in Paths : saved[p] # NoFile => Lives(p, saved[p])
           /\ \A id \in Ids \ IdsIn(saved) : Goes(id)
    /\ retry = "pending" =>
           /\ \A p \in Paths :
                  saved[p] # NoFile /\ saved[p] = tree[p] => Lives(p, saved[p])
           /\ \A id \in Ids \ IdsIn(tree) :
                  \/ Goes(id)
                  \/ \E p \in Paths :
                         saved[p] # NoFile /\ saved[p].id = id /\ Lives(p, saved[p])

\* A change that waits for its turn is newer than what it replaces.
LEMMA PendingIsEffective ==
    ASSUME TypeOK, OrderInv, NEW m \in Changes(pathQueue)
    PROVE  IsEffective(m)
<1>1. \A p \in Paths : table[p] # NoRow => table[p].time \in Nat
  BY MessageTypes
<1>2. m.file # NoFile /\ m.time \in Nat /\ RowsAreOlder
  BY MessageTypes DEF Changes, Messages, OrderInv
<1> QED
  BY <1>1, <1>2 DEF IsEffective, RowsAreOlder

\* What a handler sends says no more than its message.
LEMMA PathKeepsUpTo ==
    ASSUME TypeOK, OrderInv, Patient = TRUE, NEW m \in Messages,
           HandlePath(m) \/ HandlePathFails(m),
           NEW id \in Ids, NEW s, UpTo(id, s)
    PROVE  UpTo(id, s)'
<1>1. Messages' \subseteq Messages /\ store' = store
  BY PathStep DEF Messages
<1>2. \A n \in idQueue' : n \in idQueue \/ Announces(m, n)
  BY PathStep
<1>3. ASSUME NEW n \in Contents(id)' PROVE n.time <= s
  <2>1. n.id = id /\ n.content # Deleted
    BY DEF Contents
  <2>2. CASE n \in idQueue
    BY <2>1, <2>2 DEF UpTo, Contents
  <2>3. CASE Announces(m, n)
    <3>1. m.file # NoFile /\ m.file.id = id /\ n.time = m.time
      BY <2>1, <2>3 DEF Announces, IdMessage
    <3> QED
      BY <3>1 DEF UpTo, ChangesOf, Changes
  <2> QED
    BY <1>2, <1>3, <2>2, <2>3 DEF Contents
<1>4. ChangesOf(id, Messages)' \subseteq ChangesOf(id, Messages)
  BY <1>1 DEF ChangesOf, Changes
<1> QED
  BY <1>1, <1>3, <1>4 DEF UpTo

LEMMA PathKeepsLives ==
    ASSUME TypeOK, OrderInv, Patient = TRUE, NEW m \in Messages,
           HandlePath(m) \/ HandlePathFails(m),
           NEW p \in Paths, NEW file \in Files, Lives(p, file)
    PROVE  Lives(p, file)'
<1> DEFINE id == file.id
<1>1. id \in Ids /\ file \in Files /\ file # NoFile
  BY NoneAssumption DEF Files
<1>2. PICK s \in 0..now : IsLastWord(p, file, s) /\ IsUnderWay(p, file, s)
  BY DEF Lives
<1>3. s \in Nat /\ now' = now /\ UpTo(id, s)
  BY <1>2, PathStep DEF IsLastWord
<1>4. /\ m.path \in Paths /\ m.time \in Nat /\ IsInOrder(m) /\ store' = store
      /\ idQueue \subseteq idQueue' /\ Messages' \subseteq Messages
  BY PathStep, MessageTypes DEF Messages
<1>5. m.file # NoFile /\ m.file.id = id => m.time <= s
  BY <1>3 DEF UpTo, ChangesOf, Changes
<1>6. m.path = p /\ IsWithout(m, id) => m.time <= s
  BY <1>2 DEF IsLastWord
\* The row of a file that lives stays.
<1>7. ASSUME table[p] = PathId(id, s), IsEffective(m)
      PROVE  /\ m.path # p /\ (m.file # NoFile => m.file.id # id)
             /\ table[m.path] # NoRow => table[m.path].id # id
  <2>1. table[p] # NoRow /\ table[p].id = id /\ table[p].time = s
    BY <1>7, <1>1, <1>3, NoneAssumption DEF PathId, Rows
  <2>2. m.path = p \/ (m.file # NoFile /\ m.file.id = id) => s < m.time
    BY <1>7, <2>1 DEF IsEffective
  <2>3. m.path # p /\ (m.file # NoFile => m.file.id # id)
    BY <1>3, <1>4, <1>5, <1>6, <2>2 DEF IsWithout
  <2> QED
    BY <1>4, <2>1, <2>3 DEF TypeOK, IdsAreUnique
<1>8. ASSUME PathMessage(p, file, s) \in pathQueue
      PROVE  /\ IsWithout(m, id) => m.time <= s
             /\ m.file # NoFile /\ m.file.id = id /\ m.time = s => m = PathMessage(p, file, s)
  <2>1. /\ PathMessage(p, file, s) \in Changes(pathQueue)
        /\ PathMessage(p, file, s) \in Messages
        /\ PathMessage(p, file, s).file = file /\ PathMessage(p, file, s).time = s
    BY <1>1, <1>8 DEF Changes, PathMessage, Messages
  <2>2. IsWithout(m, id) => m # PathMessage(p, file, s)
    BY <1>1, <2>1 DEF IsWithout
  <2>3. IsWithout(m, id) => m.time <= s
    BY <1>3, <1>4, <2>1, <2>2 DEF IsInOrder
  <2>4. m.file # NoFile /\ m.file.id = id /\ m.time = s => m = PathMessage(p, file, s)
    BY <1>1, <2>1 DEF OrderInv, OfOnePoll
  <2> QED
    BY <2>3, <2>4
\* What is sent does not take back the last word.
<1>9. ASSUME NEW n \in idQueue', n \notin idQueue, n.id = id
      PROVE  n.time <= s /\ (n.content # Deleted /\ n.time = s => n.content = file.text)
  <2>1. IsEffective(m) /\ Announces(m, n)
    BY <1>9, PathStep
  <2>2. CASE m.file # NoFile /\ n = IdMessage(m.file.id, m.file.text, m.time)
    <3>1. m.file.id = id /\ n.time = m.time /\ n.content = m.file.text
      BY <1>9, <2>2 DEF IdMessage
    <3>2. PathMessage(p, file, s) \in pathQueue
      BY <1>2, <1>7, <2>1, <2>2, <3>1 DEF IsUnderWay
    <3> QED
      BY <1>5, <1>8, <2>2, <3>1, <3>2 DEF PathMessage
  <2>3. CASE /\ table[m.path] # NoRow /\ IsWithout(m, table[m.path].id)
             /\ n = IdMessage(table[m.path].id, Deleted, m.time)
    <3>1. table[m.path].id = id /\ n.time = m.time /\ n.content = Deleted
      BY <1>9, <2>3 DEF IdMessage
    <3> QED
      BY <1>2, <1>7, <1>8, <2>1, <2>3, <3>1 DEF IsUnderWay
  <2> QED
    BY <2>1, <2>2, <2>3 DEF Announces
<1>10. IsLastWord(p, file, s)'
  <2>1. UpTo(id, s)'
    BY <1>1, <1>3, PathKeepsUpTo
  <2> QED
    BY <1>2, <1>4, <1>9, <2>1 DEF IsLastWord, Contents
<1>11. IsUnderWay(p, file, s)'
  <2>1. CASE PathMessage(p, file, s) \in pathQueue /\ PathMessage(p, file, s) \notin pathQueue'
    <3>1. m = PathMessage(p, file, s) /\ m \in Changes(pathQueue)
      BY <1>1, <2>1, PathStep DEF Changes, PathMessage
    <3>2. m.path = p /\ m.file = file /\ m.time = s
      BY <3>1 DEF PathMessage
    <3>3. /\ IsEffective(m)
          /\ table' = [q \in Paths |-> RowAfter(m, q)]
          /\ \A n : Announces(m, n) => n \in idQueue'
      BY <2>1, <3>1, PendingIsEffective, PathStep
    <3>4. table'[p] = PathId(id, s) /\ IdMessage(id, file.text, s) \in idQueue'
      BY <1>1, <3>2, <3>3 DEF RowAfter, Announces
    <3> QED
      BY <3>4 DEF IsUnderWay
  <2>2. CASE PathMessage(p, file, s) \in pathQueue'
    BY <2>2 DEF IsUnderWay
  <2>3. CASE /\ table[p] = PathId(id, s)
             /\ \/ IdMessage(id, file.text, s) \in idQueue
                \/ store[id] = [content |-> file.text, time |-> s]
    <3>1. table'[p] = table[p]
      BY <1>1, <1>3, <1>7, <2>3, PathStep, NoneAssumption DEF RowAfter, PathId, Rows
    <3> QED
      BY <1>4, <2>3, <3>1 DEF IsUnderWay
  <2> QED
    BY <1>2, <2>1, <2>2, <2>3 DEF IsUnderWay
<1> QED
  BY <1>2, <1>3, <1>10, <1>11 DEF Lives

LEMMA PathKeepsGoes ==
    ASSUME TypeOK, OrderInv, Patient = TRUE, NEW m \in Messages,
           HandlePath(m) \/ HandlePathFails(m),
           NEW id \in Ids, Goes(id)
    PROVE  Goes(id)'
<1>1. /\ m.path \in Paths /\ m.time \in Nat /\ IsInOrder(m)
      /\ store' = store /\ now' = now /\ now \in Nat
      /\ idQueue \subseteq idQueue' /\ Messages' \subseteq Messages
  BY PathStep, MessageTypes DEF Messages
<1>2. CASE NeverCame(id)
  <2>1. ChangesOf(id, Messages)' = {}
    BY <1>1, <1>2 DEF NeverCame, ChangesOf, Changes
  <2>2. ASSUME NEW n \in Contents(id)' PROVE FALSE
    <3>1. n.id = id /\ n.content # Deleted /\ n \notin idQueue
      BY <1>2 DEF Contents, NeverCame
    <3>2. Announces(m, n)
      BY <3>1, PathStep DEF Contents
    <3>3. m.file # NoFile /\ m.file.id = id
      BY <3>1, <3>2 DEF Announces, IdMessage
    <3> QED
      BY <1>2, <3>3 DEF NeverCame, ChangesOf, Changes
  <2> QED
    BY <1>1, <1>2, <2>1, <2>2 DEF NeverCame, Goes
<1>3. ASSUME NEW s \in 0..now, UpTo(id, s)
      PROVE  UpTo(id, s)' /\ (m.file # NoFile /\ m.file.id = id => m.time <= s)
  BY <1>3, PathKeepsUpTo DEF UpTo, ChangesOf, Changes
<1>4. ASSUME NEW s \in 0..now, UpTo(id, s), IsDeletedAfter(id, s) PROVE Goes(id)'
  <2>1. IsDeletedAfter(id, s)'
    BY <1>1, <1>4 DEF IsDeletedAfter
  <2> QED
    BY <1>1, <1>3, <1>4, <2>1 DEF Goes
<1>5. ASSUME NEW s \in 0..now, UpTo(id, s), NEW d \in pathQueue, WillDelete(d, id, s)
      PROVE  Goes(id)'
  <2>1. d \in Messages /\ d.path \in Paths /\ d.time \in Nat
    BY MessageTypes DEF Messages
\* When the manuscript loses its row to m, that is sent.
  <2>2. ASSUME table[m.path] = PathId(id, s), IsEffective(m), IsWithout(m, id),
               \A n : Announces(m, n) => n \in idQueue'
        PROVE  Goes(id)'
    <3>1. table[m.path] # NoRow /\ table[m.path].id = id /\ table[m.path].time = s
      BY <1>1, <2>2, NoneAssumption DEF PathId, Rows
    <3>2. s < m.time
      BY <1>1, <2>2, <3>1 DEF IsEffective
    <3>3. IdMessage(id, Deleted, m.time) \in idQueue'
      BY <2>2, <3>1 DEF Announces
    <3>4. IsDeletedAfter(id, s)'
      BY <3>2, <3>3 DEF IsDeletedAfter, IdMessage
    <3> QED
      BY <1>1, <1>3, <1>5, <3>4 DEF Goes
  <2>3. CASE UNCHANGED <<table, pathQueue, late>>
    <3>1. WillDelete(d, id, s)'
      BY <1>5, <2>3 DEF WillDelete, ChangesOf, Changes
    <3> QED
      BY <1>1, <1>3, <1>5, <2>3, <3>1 DEF Goes
  <2>4. CASE /\ pathQueue' = pathQueue \ {m}
             /\ \/ ~IsEffective(m) /\ UNCHANGED table
                \/ /\ IsEffective(m)
                   /\ table' = [p \in Paths |-> RowAfter(m, p)]
                   /\ \A n : Announces(m, n) => n \in idQueue'
    <3>1. CASE m = d
      <4>1. ~\E c \in ChangesOf(id, pathQueue) : c.path = m.path /\ c.time = s
        <5> SUFFICES ASSUME NEW c \in ChangesOf(id, pathQueue), c.time = s PROVE FALSE
          OBVIOUS
        <5>1. c \in Changes(pathQueue) /\ c # m /\ s < m.time
          BY <1>5, <3>1 DEF ChangesOf, Changes, WillDelete, IsWithout
        <5> QED
          BY <1>1, <5>1 DEF IsInOrder
      <4>2. table[m.path] = PathId(id, s) /\ s < m.time /\ IsWithout(m, id)
        BY <1>5, <3>1, <4>1 DEF WillDelete
      <4>3. IsEffective(m)
        <5>1. CASE m.file # NoFile
          BY <3>1, <5>1, PendingIsEffective DEF Changes
        <5>2. table[m.path] # NoRow /\ table[m.path].time = s
          BY <1>1, <1>5, <4>2, NoneAssumption DEF PathId, Rows
        <5> QED
          BY <4>2, <5>1, <5>2 DEF IsEffective
      <4> QED
        BY <2>2, <2>4, <4>2, <4>3
    <3>2. CASE m # d
      <4>1. d \in pathQueue'
        BY <2>4, <3>2
      <4>2. ASSUME WillDelete(d, id, s)' PROVE Goes(id)'
        BY <1>1, <1>3, <1>5, <4>1, <4>2 DEF Goes
      <4>3. ASSUME NEW c \in ChangesOf(id, pathQueue), c.path = d.path, c.time = s
            PROVE  Goes(id)'
        <5>1. CASE c # m
          <6>1. c \in ChangesOf(id, pathQueue)'
            BY <2>4, <5>1 DEF ChangesOf, Changes
          <6> QED
            BY <1>5, <4>2, <4>3, <6>1 DEF WillDelete
        <5>2. CASE c = m
          <6>1. m \in Changes(pathQueue) /\ m.file # NoFile /\ m.file.id = id
            BY <5>2 DEF ChangesOf, Changes
          <6>2. table' = [p \in Paths |-> RowAfter(m, p)]
            BY <2>4, <6>1, PendingIsEffective
          <6>3. table'[d.path] = PathId(id, s)
            BY <2>1, <4>3, <5>2, <6>1, <6>2 DEF RowAfter
          <6> QED
            BY <1>5, <4>2, <6>3 DEF WillDelete
        <5> QED
          BY <5>1, <5>2
      <4>4. CASE table[d.path] = PathId(id, s)
        <5>1. table[d.path] # NoRow /\ table[d.path].id = id /\ table[d.path].time = s
          BY <1>1, <1>5, <4>4, NoneAssumption DEF PathId, Rows
        <5>2. CASE table'[d.path] = table[d.path]
          BY <1>5, <4>2, <4>4, <5>2 DEF WillDelete
        <5>3. CASE table'[d.path] # table[d.path]
          <6>1. /\ IsEffective(m) /\ \A n : Announces(m, n) => n \in idQueue'
                /\ d.path = m.path \/ (m.file # NoFile /\ m.file.id = id)
            BY <2>1, <2>4, <5>1, <5>3 DEF RowAfter
          <6>2. m.file # NoFile /\ m.file.id = id => s < m.time
            BY <2>1, <5>1, <6>1 DEF IsEffective
          <6>3. IsWithout(m, id)
            BY <1>1, <1>3, <1>5, <6>2 DEF IsWithout
          <6> QED
            BY <2>2, <4>4, <6>1, <6>3 DEF IsWithout
        <5> QED
          BY <5>2, <5>3
      <4> QED
        BY <1>5, <4>3, <4>4 DEF WillDelete
    <3> QED
      BY <3>1, <3>2
  <2> QED
    BY <2>3, <2>4, PathStep
<1> QED
  BY <1>2, <1>4, <1>5 DEF Goes

----------------------------------------------------------------------------
\* The store takes no time from nothing.
LEMMA IdKeepsUpTo ==
    ASSUME TypeOK, Patient = TRUE, NEW m \in idQueue, HandleId(m) \/ TellFails(m),
           NEW id \in Ids, NEW s, UpTo(id, s)
    PROVE  UpTo(id, s)'
<1>1. /\ Messages' = Messages /\ idQueue' \subseteq idQueue /\ m.id \in Ids
      /\ store' = [store EXCEPT ![m.id] =
             UpdateMetadata([content |-> m.content, time |-> m.time], @)]
  BY IdStep DEF Messages
<1>2. Contents(id)' \subseteq Contents(id)
  BY <1>1 DEF Contents
<1>3. IsContent(store'[id]) => store'[id].time <= s
  <2>1. CASE m.id = id
    <3>1. m.content # Deleted => m \in Contents(id)
      BY <2>1 DEF Contents
    <3>2. store'[id] = UpdateMetadata([content |-> m.content, time |-> m.time], store[id])
      BY <1>1, <2>1 DEF TypeOK
    <3> QED
      BY <3>1, <3>2 DEF UpTo, IsContent, UpdateMetadata
  <2>2. CASE m.id # id
    BY <1>1, <2>2 DEF UpTo, TypeOK
  <2> QED
    BY <2>1, <2>2
<1>4. ChangesOf(id, Messages)' = ChangesOf(id, Messages)
  BY <1>1 DEF ChangesOf, Changes
<1> QED
  BY <1>1, <1>2, <1>3, <1>4 DEF UpTo

LEMMA IdKeepsLives ==
    ASSUME TypeOK, Patient = TRUE, NEW m \in idQueue, HandleId(m) \/ TellFails(m),
           NEW p \in Paths, NEW file \in Files, Lives(p, file)
    PROVE  Lives(p, file)'
<1> DEFINE id == file.id
<1>1. id \in Ids /\ file.text \in Texts /\ file.text # Deleted
  BY NoneAssumption DEF Files
<1>2. PICK s \in 0..now : IsLastWord(p, file, s) /\ IsUnderWay(p, file, s)
  BY DEF Lives
<1>3. /\ UNCHANGED <<now, pathQueue, late, table>> /\ Messages' = Messages
      /\ idQueue' = idQueue \/ idQueue' = idQueue \ {m}
      /\ m.id \in Ids /\ m.time \in Nat /\ s \in Nat
      /\ store' = [store EXCEPT ![m.id] =
             UpdateMetadata([content |-> m.content, time |-> m.time], @)]
  BY <1>2, IdStep, MessageTypes DEF Messages
<1>4. UpTo(id, s)'
  BY <1>1, <1>2, IdKeepsUpTo DEF IsLastWord
<1>5. CASE m.id # id
  <2>1. store'[id] = store[id]
    BY <1>3, <1>5 DEF TypeOK
  <2>2. IsLastWord(p, file, s)'
    BY <1>2, <1>3, <1>4, <2>1 DEF IsLastWord, Contents
  <2>3. IsUnderWay(p, file, s)'
    BY <1>2, <1>3, <1>5, <2>1 DEF IsUnderWay, IdMessage
  <2> QED
    BY <1>2, <1>3, <2>2, <2>3 DEF Lives
<1>6. CASE m.id = id
  <2> DEFINE new == [content |-> m.content, time |-> m.time]
             last == [content |-> file.text, time |-> s]
  <2>1. store'[id] = UpdateMetadata(new, store[id])
    BY <1>1, <1>3, <1>6 DEF TypeOK
  <2>2. /\ m.time <= s
        /\ m.content # Deleted /\ m.time = s => m.content = file.text
        /\ store[id] # Nothing => store[id].time <= s /\ store[id].time \in Nat
        /\ IsContent(store[id]) /\ store[id].time = s => store[id].content = file.text
    BY <1>1, <1>2, <1>6, MessageTypes DEF IsLastWord, Contents
  <2>3. store'[id] = store[id] \/ store'[id] = new
    BY <2>1 DEF UpdateMetadata
  <2>4. IsLastWord(p, file, s)'
    BY <1>2, <1>3, <1>4, <2>2, <2>3 DEF IsLastWord, Contents, IsContent
  <2>5. IsUnderWay(p, file, s)'
    <3>1. ASSUME m = IdMessage(id, file.text, s) PROVE store'[id] = last
      <4>1. new = last /\ m.content # Deleted /\ m.time = s
        BY <1>1, <3>1 DEF IdMessage
      <4> QED
        BY <1>3, <2>1, <2>2, <4>1 DEF UpdateMetadata
    <3>2. ASSUME store[id] = last PROVE store'[id] = last
      <4>1. store[id] # Nothing /\ store[id].time = s
        BY <1>1, <1>3, <3>2, NoneAssumption DEF Metadata
      <4>2. m.content # Deleted /\ m.time = s => new = last
        BY <2>2
      <4> QED
        BY <1>3, <2>1, <2>2, <3>2, <4>1, <4>2 DEF UpdateMetadata
    <3> HIDE DEF new, last
    <3> QED
      BY <1>2, <1>3, <3>1, <3>2 DEF IsUnderWay, last
  <2> QED
    BY <1>2, <1>3, <2>4, <2>5 DEF Lives
<1> QED
  BY <1>5, <1>6

LEMMA IdKeepsGoes ==
    ASSUME TypeOK, Patient = TRUE, NEW m \in idQueue, HandleId(m) \/ TellFails(m),
           NEW id \in Ids, Goes(id)
    PROVE  Goes(id)'
<1> DEFINE new == [content |-> m.content, time |-> m.time]
<1>1. /\ UNCHANGED <<now, pathQueue, late, table>> /\ Messages' = Messages
      /\ idQueue' = idQueue \/ idQueue' = idQueue \ {m}
      /\ m.id \in Ids /\ m.time \in Nat /\ now \in Nat
      /\ store' = [store EXCEPT ![m.id] = UpdateMetadata(new, @)]
  BY IdStep, MessageTypes DEF Messages
<1>2. store'[id] = IF m.id = id THEN UpdateMetadata(new, store[id]) ELSE store[id]
  BY <1>1 DEF TypeOK
<1>3. new # Nothing /\ (store[id] # Nothing => store[id].time \in Nat)
  BY MessageTypes, NoneAssumption DEF Metadata
<1>4. CASE NeverCame(id)
  <2>1. ChangesOf(id, Messages)' = {} /\ Contents(id)' = {}
    BY <1>1, <1>4 DEF NeverCame, ChangesOf, Changes, Contents
  <2>2. m.id = id => m.content = Deleted
    BY <1>4 DEF NeverCame, Contents
  <2>3. ~IsContent(store'[id])
    BY <1>2, <1>4, <2>2 DEF NeverCame, IsContent, UpdateMetadata
  <2> QED
    BY <2>1, <2>3 DEF NeverCame, Goes
<1>5. ASSUME NEW s \in 0..now, UpTo(id, s), IsDeletedAfter(id, s) PROVE Goes(id)'
  <2>1. UpTo(id, s)'
    BY <1>5, IdKeepsUpTo
  <2>2. m.id = id /\ m.content # Deleted => m.time <= s
    BY <1>5 DEF UpTo, Contents
  <2>3. IsContent(store[id]) => store[id].time <= s
    BY <1>5 DEF UpTo
  <2>4. IsDeletedAfter(id, s)'
    <3>1. CASE store[id] # Nothing /\ store[id].content = Deleted /\ s < store[id].time
      BY <1>1, <1>2, <1>3, <2>2, <3>1 DEF IsDeletedAfter, UpdateMetadata
    <3>2. CASE m.id = id /\ m.content = Deleted /\ s < m.time
      BY <1>1, <1>2, <1>3, <2>3, <3>2 DEF IsDeletedAfter, UpdateMetadata, IsContent
    <3> QED
      BY <1>1, <1>5, <3>1, <3>2 DEF IsDeletedAfter
  <2> QED
    BY <1>1, <2>1, <2>4 DEF Goes
<1>6. ASSUME NEW s \in 0..now, UpTo(id, s), NEW d \in pathQueue, WillDelete(d, id, s)
      PROVE  Goes(id)'
  <2>1. UpTo(id, s)' /\ WillDelete(d, id, s)'
    BY <1>1, <1>6, IdKeepsUpTo DEF WillDelete, ChangesOf, Changes
  <2> QED
    BY <1>1, <2>1 DEF Goes
<1> QED
  BY <1>4, <1>5, <1>6 DEF Goes

----------------------------------------------------------------------------
\* What a poll sends is later than everything before it.
LEMMA PollIsLatest ==
    ASSUME TypeOK, OrderInv, NEW sent, PollStep(sent)
    PROVE  /\ now \in Nat /\ now' = now + 1
           /\ Messages' = Messages \union sent
           /\ \A m \in sent : m.path \in Paths /\ m.file = tree[m.path] /\ m.time = now + 1
                  /\ tree[m.path] # saved[m.path]
           /\ \A m \in Messages : m.time \in Nat /\ m.time <= now
           /\ \A m \in idQueue : m.time \in Nat /\ m.time <= now
           /\ \A id \in Ids : store[id] # Nothing =>
                  store[id].time \in Nat /\ store[id].time <= now
<1>1. now \in Nat /\ TimesAreOfPolls
  BY MessageTypes DEF OrderInv
<1> QED
  BY <1>1, MessageTypes, DiffsOfPoll DEF PollStep, Messages, TimesAreOfPolls

\* It is news only of the manuscripts in its files.
LEMMA PollKeepsUpTo ==
    ASSUME TypeOK, NEW sent, PollStep(sent), NEW id \in Ids, NEW s, UpTo(id, s),
           ChangesOf(id, sent) = {}
    PROVE  UpTo(id, s)' /\ ChangesOf(id, Messages)' = ChangesOf(id, Messages)
<1>1. ChangesOf(id, Messages)' = ChangesOf(id, Messages) \union ChangesOf(id, sent)
  BY DEF PollStep, Messages, ChangesOf, Changes
<1> QED
  BY <1>1 DEF PollStep, UpTo, Contents

\* A file that is as it was, or of which nothing is sent, is not disturbed.
LEMMA PollKeepsLives ==
    ASSUME TypeOK, OrderInv, NEW sent, PollStep(sent),
           NEW p \in Paths, NEW file \in Files, Lives(p, file),
           ChangesOf(file.id, sent) = {}, \A m \in sent : m.path # p
    PROVE  Lives(p, file)'
<1>1. PICK s \in 0..now : IsLastWord(p, file, s) /\ IsUnderWay(p, file, s)
  BY DEF Lives
<1>2. s \in 0..now' /\ file.id \in Ids
  BY PollIsLatest DEF Files
<1>3. UpTo(file.id, s)'
  BY <1>1, <1>2, PollKeepsUpTo DEF IsLastWord
<1>4. IsLastWord(p, file, s)'
  BY <1>1, <1>3 DEF IsLastWord, PollStep, Messages, Contents
<1>5. IsUnderWay(p, file, s)'
  BY <1>1 DEF IsUnderWay, PollStep
<1> QED
  BY <1>2, <1>4, <1>5 DEF Lives

\* A file that has changed lives by what the poll sends.
LEMMA PollSendsLives ==
    ASSUME TypeOK, OrderInv, NEW sent, PollStep(sent),
           NEW p \in Paths, NEW file \in Files, NEW s, s = now + 1,
           PathMessage(p, file, s) \in sent
    PROVE  Lives(p, file)'
<1>1. /\ s \in Nat /\ now' = s /\ idQueue' = idQueue /\ store' = store
      /\ file.id \in Ids
  BY PollIsLatest DEF PollStep, Files
<1>2. /\ \A m \in idQueue : m.time \in Nat /\ m.time < s
      /\ store[file.id] # Nothing => store[file.id].time \in Nat /\ store[file.id].time < s
  BY <1>1, PollIsLatest
<1>3. \A m \in Messages' : m.time <= s
  BY <1>1, PollIsLatest
<1>4. UpTo(file.id, s)'
  BY <1>1, <1>2, <1>3 DEF UpTo, ChangesOf, Changes, Contents, IsContent
<1>5. IsLastWord(p, file, s)'
  BY <1>1, <1>2, <1>3, <1>4 DEF IsLastWord, Contents, IsContent
<1>6. IsUnderWay(p, file, s)'
  BY DEF IsUnderWay, PollStep
<1> QED
  BY <1>1, <1>5, <1>6 DEF Lives

\* A manuscript that goes, and of which the poll sees nothing, goes on going.
LEMMA PollKeepsGoes ==
    ASSUME TypeOK, OrderInv, NEW sent, PollStep(sent),
           NEW id \in Ids, Goes(id), ChangesOf(id, sent) = {}
    PROVE  Goes(id)'
<1>1. now \in Nat /\ now' = now + 1 /\ idQueue' = idQueue /\ store' = store
      /\ pathQueue \subseteq pathQueue' /\ table' = table
  BY PollIsLatest DEF PollStep
<1>2. CASE NeverCame(id)
  <2>1. ChangesOf(id, Messages)' = {} /\ Contents(id)' = {}
    BY <1>1, <1>2 DEF NeverCame, Contents, ChangesOf, Changes, Messages, PollStep
  <2> QED
    BY <1>1, <1>2, <2>1 DEF NeverCame, Goes
<1>3. ASSUME NEW s \in 0..now, UpTo(id, s),
             IsDeletedAfter(id, s) \/ \E m \in pathQueue : WillDelete(m, id, s)
      PROVE  Goes(id)'
  <2>1. UpTo(id, s)'
    BY <1>3, PollKeepsUpTo
  <2>2. IsDeletedAfter(id, s) => IsDeletedAfter(id, s)'
    BY <1>1 DEF IsDeletedAfter
  <2>3. \A m : WillDelete(m, id, s) => WillDelete(m, id, s)'
    BY <1>1 DEF WillDelete, ChangesOf, Changes
  <2>4. s \in 0..now'
    BY <1>1, <1>3
  <2> QED
    BY <1>1, <1>3, <2>1, <2>2, <2>3, <2>4 DEF Goes
<1> QED
  BY <1>2, <1>3 DEF Goes

\* A manuscript that lived, and that the poll does not see, goes by the message
\* of its path.
LEMMA PollSendsGoes ==
    ASSUME TypeOK, OrderInv, NEW sent, PollStep(sent),
           NEW p \in Paths, NEW file \in Files, Lives(p, file),
           ChangesOf(file.id, sent) = {}, NEW m \in sent, m.path = p
    PROVE  Goes(file.id)'
<1>1. PICK s \in 0..now : IsLastWord(p, file, s) /\ IsUnderWay(p, file, s)
  BY DEF Lives
<1>2. now \in Nat /\ now' = now + 1 /\ m.time = now + 1 /\ s < m.time
  BY <1>1, PollIsLatest
<1>3. file.id \in Ids /\ file # NoFile
  BY NoneAssumption DEF Files
<1>4. UpTo(file.id, s)'
  BY <1>1, <1>3, PollKeepsUpTo DEF IsLastWord
<1>5. IsWithout(m, file.id)
  BY DEF IsWithout, ChangesOf, Changes
<1>6. WillDelete(m, file.id, s)'
  <2>1. CASE PathMessage(p, file, s) \in pathQueue
    <3>1. PathMessage(p, file, s) \in ChangesOf(file.id, pathQueue)'
      BY <1>3, <2>1 DEF ChangesOf, Changes, PathMessage, PollStep
    <3>2. PathMessage(p, file, s).path = m.path /\ PathMessage(p, file, s).time = s
      BY DEF PathMessage
    <3> QED
      BY <1>2, <1>5, <3>1, <3>2 DEF WillDelete
  <2>2. CASE table[p] = PathId(file.id, s)
    BY <1>2, <1>5, <2>2 DEF WillDelete, PollStep
  <2> QED
    BY <1>1, <2>1, <2>2 DEF IsUnderWay
<1> QED
  BY <1>1, <1>2, <1>4, <1>6 DEF Goes, PollStep

\* Every file of a tree is of its id only, and ids that are not in it have none.
LEMMA FilesOfTrees ==
    ASSUME NEW files \in Trees, NEW p \in Paths, files[p] # NoFile
    PROVE  /\ files[p] \in Files /\ files[p].id \in Ids
           /\ files[p].id \in IdsIn(files)
           /\ \A q \in Paths : files[q] # NoFile /\ files[q].id = files[p].id => q = p
BY TreesAssumption DEF Files, IdsIn

LEMMA PollFollows ==
    ASSUME TypeOK, OrderInv, FollowsTree, Poll \/ PollFails
    PROVE  FollowsTree'
<1>1. PICK sent :
          /\ PollStep(sent)
          /\ \/ /\ sent = DiffTrees(saved, tree, now + 1) /\ saved' = tree
                /\ retry' = IF retry = "overtaken" THEN retry ELSE "none"
             \/ /\ saved' = saved
                /\ retry' = IF retry = "overtaken" THEN retry ELSE "pending"
  BY DEF Poll, PollFails, PollStep, TypeOK
<1>2. tree \in Trees /\ saved \in Trees /\ tree' = tree
      /\ retry \in {"none", "pending", "overtaken"}
  BY <1>1 DEF TypeOK, PollStep
<1>3. \A m \in sent : m.path \in Paths /\ m.file = tree[m.path] /\ m.time = now + 1
          /\ tree[m.path] # saved[m.path]
  BY <1>1, PollIsLatest
<1>4. ASSUME NEW p \in Paths, saved[p] # NoFile, tree[p] = saved[p], retry # "overtaken"
      PROVE  Lives(p, saved[p])'
  <2> DEFINE file == saved[p]
  <2>1. PICK f \in Files : f = saved[p] /\ Lives(p, f)
    BY <1>2, <1>4, FilesOfTrees DEF FollowsTree
  <2>2. \A m \in sent : m.path # p
    BY <1>3, <1>4
  <2>3. ChangesOf(f.id, sent) = {}
    BY <1>2, <1>3, <1>4, <2>1, <2>2, FilesOfTrees DEF ChangesOf, Changes
  <2>4. Lives(p, f)'
    BY <1>1, <2>1, <2>2, <2>3, PollKeepsLives
  <2>5. saved'[p] = f
    BY <1>1, <1>4, <2>1
  <2> QED
    BY <2>4, <2>5
\* Of a manuscript that is not in the tree the poll says nothing, or that its
\* file is gone.
<1>5. ASSUME NEW id \in Ids \ IdsIn(tree), retry # "overtaken"
      PROVE  /\ ChangesOf(id, sent) = {}
             /\ \/ Goes(id)
                \/ \E p \in Paths : saved[p] # NoFile /\ saved[p].id = id /\ Lives(p, saved[p])
  <2>1. ChangesOf(id, sent) = {}
    BY <1>3, <1>5 DEF ChangesOf, Changes, IdsIn
  <2> QED
    BY <1>2, <1>5, <2>1 DEF FollowsTree, IdsIn
<1>6. ASSUME NEW id \in Ids \ IdsIn(tree), retry # "overtaken"
      PROVE  \/ Goes(id)'
             \/ \E p \in Paths : /\ saved[p] # NoFile /\ saved[p].id = id
                                 /\ Lives(p, saved[p])' /\ saved' = saved
  <2>1. CASE Goes(id)
    BY <1>1, <1>5, <1>6, <2>1, PollKeepsGoes
  <2>2. ASSUME NEW p \in Paths, NEW f \in Files, f = saved[p], f.id = id, Lives(p, f)
        PROVE  Goes(id)' \/ (Lives(p, f)' /\ saved' = saved)
    <3>1. CASE \E m \in sent : m.path = p
      BY <1>1, <1>5, <1>6, <2>2, <3>1, PollSendsGoes
    <3>2. CASE \A m \in sent : m.path # p
      <4>1. Lives(p, f)'
        BY <1>1, <1>5, <1>6, <2>2, <3>2, PollKeepsLives
      <4>2. tree[p] # saved[p]
        BY <1>2, <1>6, <2>2, NoneAssumption DEF IdsIn
      <4>3. sent # DiffTrees(saved, tree, now + 1)
        <5>1. PathMessage(p, tree[p], now + 1) \in DiffTrees(saved, tree, now + 1)
          BY <4>2 DEF DiffTrees
        <5> QED
          BY <3>2, <5>1 DEF PathMessage
      <4> QED
        BY <1>1, <4>1, <4>3
    <3> QED
      BY <3>1, <3>2
  <2>3. CASE ~Goes(id)
    <3>1. PICK p \in Paths : saved[p] # NoFile /\ saved[p].id = id /\ Lives(p, saved[p])
      BY <1>5, <1>6, <2>3
    <3>2. PICK f \in Files : f = saved[p]
      BY <1>2, <3>1, FilesOfTrees
    <3>3. Goes(id)' \/ (Lives(p, f)' /\ saved' = saved)
      BY <2>2, <3>1, <3>2
    <3>4. saved' = saved => (Lives(p, f)' => Lives(p, saved[p])')
      BY <3>2
    <3> QED
      BY <3>1, <3>3, <3>4
  <2> QED
    BY <2>1, <2>3
<1>7. CASE /\ sent = DiffTrees(saved, tree, now + 1) /\ saved' = tree
           /\ retry' = IF retry = "overtaken" THEN retry ELSE "none"
  <2>1. ASSUME NEW p \in Paths, tree[p] # NoFile, retry # "overtaken"
        PROVE  Lives(p, saved[p])'
    <3>1. PICK f \in Files : f = tree[p]
      BY <1>2, <2>1, FilesOfTrees
    <3>2. PICK s : s = now + 1
      OBVIOUS
    <3>3. CASE tree[p] # saved[p]
      <4>1. PathMessage(p, f, s) \in sent
        BY <1>7, <3>1, <3>2, <3>3 DEF DiffTrees
      <4>2. Lives(p, f)'
        BY <1>1, <3>2, <4>1, PollSendsLives
      <4>3. saved'[p] = f
        BY <1>7, <3>1
      <4> QED
        BY <4>2, <4>3
    <3> QED
      BY <1>4, <2>1, <3>3
  <2>2. ASSUME NEW id \in Ids \ IdsIn(tree), retry # "overtaken" PROVE Goes(id)'
    <3>1. saved' # saved \/ ~\E p \in Paths : saved[p] # NoFile /\ saved[p].id = id
      BY <1>7, <2>2 DEF IdsIn
    <3> QED
      BY <1>6, <2>2, <3>1
  <2>3. IdsIn(saved)' = IdsIn(tree)
    BY <1>7 DEF IdsIn
  <2> QED
    BY <1>2, <1>7, <2>1, <2>2, <2>3 DEF FollowsTree
<1>8. CASE /\ saved' = saved
           /\ retry' = IF retry = "overtaken" THEN retry ELSE "pending"
  <2>1. IdsIn(tree)' = IdsIn(tree)
    BY <1>2 DEF IdsIn
  <2> QED
    BY <1>2, <1>4, <1>6, <1>8, <2>1 DEF FollowsTree
<1> QED
  BY <1>1, <1>7, <1>8

LEMMA InitFollows == Init => FollowsTree
<1> SUFFICES ASSUME Init PROVE FollowsTree
  OBVIOUS
<1>1. tree \in Trees /\ saved = tree /\ retry = "none" /\ now = 0
      /\ pathQueue = {} /\ late = {} /\ idQueue = {}
  BY DEF Init
<1>2. /\ Messages = {} /\ \A id : ChangesOf(id, Messages) = {} /\ Contents(id) = {}
  BY <1>1 DEF Messages, ChangesOf, Changes, Contents
<1>3. ASSUME NEW p \in Paths, tree[p] # NoFile PROVE Lives(p, tree[p])
  <2>1. PICK f \in Files : f = tree[p] /\ f.id \in Ids /\ f.id \in IdsIn(tree)
    BY <1>1, <1>3, FilesOfTrees
  <2>2. \A q \in Paths : tree[q] # NoFile /\ tree[q].id = f.id => q = p
    BY <1>1, <1>3, <2>1, FilesOfTrees
  <2>3. (CHOOSE q \in Paths : tree[q] # NoFile /\ tree[q].id = f.id) = p
    BY <1>3, <2>1, <2>2
  <2>4. store[f.id] = [content |-> f.text, time |-> 0]
    BY <2>1, <2>3 DEF Init
  <2>5. table[p] = PathId(f.id, 0)
    BY <1>3, <2>1 DEF Init
  <2>6. IsLastWord(p, f, 0)
    BY <1>1, <1>2, <2>4 DEF IsLastWord, UpTo
  <2>7. IsUnderWay(p, f, 0)
    BY <2>4, <2>5 DEF IsUnderWay
  <2> QED
    BY <1>1, <2>1, <2>6, <2>7 DEF Lives
<1>4. ASSUME NEW id \in Ids \ IdsIn(tree) PROVE Goes(id)
  <2>1. store[id] = Nothing
    BY <1>4 DEF Init
  <2> QED
    BY <1>2, <2>1 DEF Goes, NeverCame, IsContent
<1> QED
  BY <1>1, <1>3, <1>4 DEF FollowsTree

\* What handlers and pushes keep of every manuscript follows the tree still.
LEMMA KeepsFollowing ==
    ASSUME TypeOK, FollowsTree, saved' = saved,
           \/ UNCHANGED <<tree, retry>>
           \/ retry' = IF retry = "none" THEN "none" ELSE "overtaken",
           \A p \in Paths, f \in Files : Lives(p, f) => Lives(p, f)',
           \A id \in Ids : Goes(id) => Goes(id)'
    PROVE  FollowsTree'
<1>1. ASSUME NEW p \in Paths, saved[p] # NoFile, Lives(p, saved[p])
      PROVE  Lives(p, saved[p])'
  <2>1. PICK f \in Files : f = saved[p]
    BY <1>1, FilesOfTrees DEF TypeOK
  <2>2. Lives(p, f)' /\ saved'[p] = f
    BY <1>1, <2>1
  <2> QED
    BY <2>2
<1>2. IdsIn(saved)' = IdsIn(saved) /\ (tree' = tree => IdsIn(tree)' = IdsIn(tree))
  BY DEF IdsIn
<1>3. CASE retry' = "none"
  <2>1. retry = "none"
    BY <1>3
  <2> QED
    BY <1>1, <1>2, <1>3, <2>1 DEF FollowsTree
<1>4. CASE retry' = "pending"
  <2>1. retry = "pending" /\ tree' = tree
    BY <1>4
  <2> QED
    BY <1>1, <1>2, <1>4, <2>1 DEF FollowsTree
<1> QED
  BY <1>3, <1>4 DEF FollowsTree

LEMMA NextFollows ==
    ASSUME TypeOK, OrderInv, FollowsTree, Patient = TRUE, [Next]_vars
    PROVE  FollowsTree'
<1>1. ASSUME UNCHANGED <<now, pathQueue, late, table, idQueue, store>>
      PROVE  /\ \A p \in Paths, f \in Files : Lives(p, f) => Lives(p, f)'
             /\ \A id \in Ids : Goes(id) => Goes(id)'
  <2>1. Messages' = Messages
    BY <1>1 DEF Messages
  <2>2. \A id : Contents(id)' = Contents(id)
    BY <1>1 DEF Contents
  <2>3. \A id, s : UpTo(id, s)' <=> UpTo(id, s)
    BY <1>1, <2>1, <2>2 DEF UpTo, ChangesOf, Changes
  <2>4. \A p, f, s : (IsLastWord(p, f, s)' <=> IsLastWord(p, f, s))
                         /\ (IsUnderWay(p, f, s)' <=> IsUnderWay(p, f, s))
    BY <1>1, <2>1, <2>2, <2>3 DEF IsLastWord, IsUnderWay
  <2>5. \A id : NeverCame(id)' <=> NeverCame(id)
    BY <1>1, <2>1, <2>2 DEF NeverCame, ChangesOf, Changes
  <2>6. \A id, s : IsDeletedAfter(id, s)' <=> IsDeletedAfter(id, s)
    BY <1>1 DEF IsDeletedAfter
  <2>7. \A m, id, s : WillDelete(m, id, s)' <=> WillDelete(m, id, s)
    BY <1>1 DEF WillDelete, ChangesOf, Changes
  <2> QED
    BY <1>1, <2>3, <2>4, <2>5, <2>6, <2>7 DEF Lives, Goes
<1>2. CASE Push
  BY <1>1, <1>2, KeepsFollowing DEF Push
<1>3. CASE Poll \/ PollFails
  BY <1>3, PollFollows
<1>4. ASSUME NEW m \in Messages, HandlePath(m) \/ HandlePathFails(m)
      PROVE  FollowsTree'
  <2>1. /\ \A p \in Paths, f \in Files : Lives(p, f) => Lives(p, f)'
        /\ \A id \in Ids : Goes(id) => Goes(id)'
    BY <1>4, PathKeepsLives, PathKeepsGoes
  <2>2. UNCHANGED <<tree, saved, retry>>
    BY <1>4, PathStep
  <2> QED
    BY <2>1, <2>2, KeepsFollowing
<1>5. ASSUME NEW m \in idQueue, HandleId(m) \/ TellFails(m)
      PROVE  FollowsTree'
  <2>1. /\ \A p \in Paths, f \in Files : Lives(p, f) => Lives(p, f)'
        /\ \A id \in Ids : Goes(id) => Goes(id)'
    BY <1>5, IdKeepsLives, IdKeepsGoes
  <2>2. UNCHANGED <<tree, saved, retry>>
    BY <1>5, IdStep
  <2> QED
    BY <2>1, <2>2, KeepsFollowing
<1>6. CASE UNCHANGED vars
  BY <1>1, <1>6, KeepsFollowing DEF vars
<1> QED
  BY <1>2, <1>3, <1>4, <1>5, <1>6 DEF Next, Messages

\* When all is quiet, what is to come has come.
LEMMA QuietIsCurrent ==
    ASSUME TypeOK, FollowsTree, StoredIsToldOrPending, Quiet, retry # "overtaken"
    PROVE  Matches(tree)
<1>1. tree \in Trees /\ tree = saved /\ pathQueue = {} /\ late = {} /\ idQueue = {}
  BY DEF Quiet, TypeOK
<1>2. \A id \in Ids : told[id] = store[id]
  BY <1>1 DEF StoredIsToldOrPending
<1>3. ASSUME NEW p \in Paths, tree[p] # NoFile
      PROVE  LET id == tree[p].id
             IN  told[id] # Nothing /\ tree[p] = [id |-> id, text |-> told[id].content]
  <2>1. PICK f \in Files : f = tree[p] /\ f.id \in Ids
    BY <1>1, <1>3, FilesOfTrees
  <2>2. Lives(p, f)
    BY <1>1, <1>3, <2>1 DEF FollowsTree, TypeOK
  <2>3. PICK s \in 0..now : store[f.id] = [content |-> f.text, time |-> s]
    BY <1>1, <2>2 DEF Lives, IsUnderWay
  <2>4. store[f.id] # Nothing
    BY <2>1, <2>3, NoneAssumption, MessageTypes DEF Metadata, Files
  <2> QED
    BY <1>2, <2>1, <2>3, <2>4 DEF Files
<1>4. ASSUME NEW id \in Ids \ IdsIn(tree)
      PROVE  told[id] # Nothing => told[id].content = Deleted
  <2>1. Goes(id)
    BY <1>1, <1>4 DEF FollowsTree, IdsIn, TypeOK
  <2>2. ~IsContent(store[id])
    BY <1>1, <2>1, MessageTypes DEF Goes, NeverCame, IsDeletedAfter, IsContent
  <2> QED
    BY <1>2, <2>2 DEF IsContent
<1>5. ASSUME NEW id \in IdsIn(tree), id \in Ids
      PROVE  told[id] # Nothing /\
             \E p \in Paths : tree[p] = [id |-> id, text |-> told[id].content]
  <2>1. PICK p \in Paths : tree[p] # NoFile /\ tree[p].id = id
    BY DEF IdsIn
  <2> QED
    BY <1>3, <2>1
<1> QED
  BY <1>4, <1>5 DEF Matches

\* For any trees, any number of polls and any faults: when the delays are long
\* enough and nothing is left to be handled, the catalogue has the manuscripts of
\* the tree, whatever was delivered twice, rolled back after it was sent, or sent
\* by a poll that stopped.
THEOREM QuietCatalogueIsTheTree ==
    ASSUME Patient = TRUE
    PROVE  Spec => []QuietCatalogueMatchesTree
<1> DEFINE Inv == TypeOK /\ StoredIsToldOrPending /\ OrderInv /\ FollowsTree
<1>1. Init => Inv
  BY InitTypeOK, InitOrder, InitFollows DEF Init, StoredIsToldOrPending
<1>2. Inv /\ [Next]_vars => Inv'
  BY NextTypeOK, NextToldOrPending, NextOrder, NextFollows
<1>3. Inv => QuietCatalogueMatchesTree
  BY QuietIsCurrent DEF QuietCatalogueMatchesTree
<1> QED
  BY <1>1, <1>2, <1>3, PTL DEF Spec

----------------------------------------------------------------------------
(***************************************************************************)
(* Manuscripts that only move are never deleted.  A manuscript whose path  *)
(* is taken has a change of the same poll waiting, whose date keeps the    *)
(* deletion from having an effect.                                         *)
(***************************************************************************)

\* A deletion that is on its way will be too old.
DeletionsAreTooOld(id) ==
    \A m \in idQueue : m.id = id /\ m.content = Deleted =>
        \/ m.time <= store[id].time
        \/ \E c \in Contents(id) \union ChangesOf(id, pathQueue) : c.time = m.time

\* A message that could take the row of id comes no earlier than a change of id.
RowIsSpared(id) ==
    \A m \in Messages :
        /\ IsWithout(m, id) /\ table[m.path] # NoRow /\ table[m.path].id = id
        /\ table[m.path].time < m.time
        => \E c \in ChangesOf(id, pathQueue) : c.time <= m.time

\* Before something else comes to a path that id will have, id is to leave it.
LeavesInTime(id) ==
    \A m \in Messages, n \in ChangesOf(id, pathQueue) :
        IsWithout(m, id) /\ n.path = m.path /\ n.time < m.time =>
            \E c \in ChangesOf(id, pathQueue) : n.time < c.time /\ c.time <= m.time

\* What comes again of id is no newer than its row.
DuplicatesAreOld(id) ==
    \A n \in ChangesOf(id, late) :
        \E p \in Paths : table[p] # NoRow /\ table[p].id = id /\ n.time <= table[p].time

Stays(id) ==
    /\ retry = "none" /\ id \in IdsIn(tree) /\ id \in IdsIn(saved)
    /\ IsContent(store[id]) /\ IsContent(told[id])
    /\ DeletionsAreTooOld(id)
    /\ RowIsSpared(id)
    /\ LeavesInTime(id)
    /\ DuplicatesAreOld(id)

StaysInv == \A id \in Ids \ away : Stays(id)

\* Whoever takes the row of id has a change of id of the same poll behind him.
LEMMA TakenInTime ==
    ASSUME TypeOK, OrderInv, NEW m \in Messages, IsInOrder(m), IsEffective(m),
           NEW id \in Ids, RowIsSpared(id), IsWithout(m, id),
           table[m.path] # NoRow, table[m.path].id = id
    PROVE  /\ m.file # NoFile /\ table[m.path].time < m.time
           /\ \E c \in ChangesOf(id, pathQueue) : c # m /\ c.time = m.time
<1>1. m.path \in Paths /\ m.time \in Nat
  BY MessageTypes
<1>2. table[m.path].time < m.time
  BY <1>1 DEF IsEffective
<1>3. PICK c \in ChangesOf(id, pathQueue) : c.time <= m.time
  BY <1>2 DEF RowIsSpared
<1>4. c \in Changes(pathQueue) /\ c # m /\ c.time \in Nat
  BY MessageTypes DEF ChangesOf, Changes, IsWithout, Messages
<1>5. m.file # NoFile /\ c.time >= m.time
  BY <1>1, <1>3, <1>4 DEF IsInOrder
<1> QED
  BY <1>1, <1>2, <1>3, <1>4, <1>5

LEMMA PathKeepsStays ==
    ASSUME TypeOK, OrderInv, DuplicatesArePrompt', Patient = TRUE, NEW m \in Messages,
           HandlePath(m) \/ HandlePathFails(m),
           NEW id \in Ids, Stays(id)
    PROVE  Stays(id)'
<1>1. /\ m.path \in Paths /\ m.time \in Nat /\ IsInOrder(m)
      /\ UNCHANGED <<tree, saved, retry, store, told>>
      /\ idQueue \subseteq idQueue' /\ Messages' \subseteq Messages
  BY PathStep, MessageTypes DEF Messages
<1>2. /\ RowIsSpared(id) /\ LeavesInTime(id) /\ DuplicatesAreOld(id)
      /\ DeletionsAreTooOld(id)
  BY DEF Stays
<1>3. \A p \in Paths : table[p] # NoRow => table[p].id \in Ids /\ table[p].time \in Nat
  BY MessageTypes
<1>4. \A c \in ChangesOf(id, pathQueue) :
          /\ c \in Changes(pathQueue) /\ c \in Messages /\ c.file # NoFile
          /\ c.file.id = id /\ c.time \in Nat /\ c.file.text # Deleted
  BY MessageTypes, NoneAssumption DEF ChangesOf, Changes, Messages
\* A change of id that was waiting still is, or is in the table and sent on.
<1>5. ASSUME NEW c \in ChangesOf(id, pathQueue), c \notin ChangesOf(id, pathQueue)'
      PROVE  /\ c = m /\ IsEffective(m) /\ pathQueue' = pathQueue \ {m}
             /\ table' = [p \in Paths |-> RowAfter(m, p)]
             /\ \A n : Announces(m, n) => n \in idQueue'
  <2>1. c \in pathQueue \ pathQueue'
    BY <1>5 DEF ChangesOf, Changes
  <2>2. c = m /\ m \in Changes(pathQueue)
    BY <1>4, <2>1, PathStep
  <2> QED
    BY <2>1, <2>2, PendingIsEffective, PathStep
\* What is delivered again of id has no effect.
<1>6. ASSUME m.file # NoFile, m.file.id = id, IsEffective(m) PROVE m \notin late
  <2>1. SUFFICES ASSUME m \in late PROVE FALSE
    OBVIOUS
  <2>2. PICK p \in Paths : table[p] # NoRow /\ table[p].id = id /\ m.time <= table[p].time
    BY <1>2, <1>6, <2>1 DEF DuplicatesAreOld, ChangesOf, Changes
  <2>3. table[p].time < m.time
    BY <1>6, <2>2 DEF IsEffective
  <2> QED
    BY <1>1, <1>3, <2>2, <2>3
<1>7. DeletionsAreTooOld(id)'
  <2> SUFFICES ASSUME NEW n \in idQueue', n.id = id, n.content = Deleted
               PROVE  \/ n.time <= store[id].time
                      \/ \E c \in Contents(id)' \union ChangesOf(id, pathQueue)' : c.time = n.time
    BY <1>1 DEF DeletionsAreTooOld
  <2>1. ASSUME NEW c \in ChangesOf(id, pathQueue), c.time = n.time
        PROVE  \E d \in Contents(id)' \union ChangesOf(id, pathQueue)' : d.time = n.time
    <3>1. CASE c \notin ChangesOf(id, pathQueue)'
      <4> DEFINE d == IdMessage(id, m.file.text, m.time)
      <4>1. c = m /\ d \in idQueue'
        BY <1>4, <1>5, <3>1 DEF Announces
      <4>2. d \in Contents(id)' /\ d.time = n.time
        BY <1>4, <2>1, <4>1 DEF Contents, IdMessage
      <4> QED
        BY <4>2
    <3> QED
      BY <2>1, <3>1
  <2>2. CASE n \in idQueue
    <3>1. Contents(id) \subseteq Contents(id)'
      BY <1>1 DEF Contents
    <3> QED
      BY <1>2, <2>1, <2>2, <3>1 DEF DeletionsAreTooOld
  <2>3. CASE n \notin idQueue
    <3>1. IsEffective(m) /\ Announces(m, n)
      BY <2>3, PathStep
    <3>2. /\ table[m.path] # NoRow /\ IsWithout(m, id) /\ table[m.path].id = id
          /\ n.time = m.time
      BY <3>1, MessageTypes, NoneAssumption DEF Announces, IdMessage
    <3>3. \E c \in ChangesOf(id, pathQueue) : c.time = n.time
      BY <1>1, <1>2, <3>1, <3>2, TakenInTime
    <3> QED
      BY <2>1, <3>3
  <2> QED
    BY <2>2, <2>3
<1>8. ASSUME NEW n \in Messages', IsWithout(n, id), table'[n.path] # NoRow,
             table'[n.path].id = id, table'[n.path].time < n.time
      PROVE  \E c \in ChangesOf(id, pathQueue)' : c.time <= n.time
  <2>1. n \in Messages /\ n.path \in Paths /\ n.time \in Nat
    BY <1>1, <1>8, MessageTypes
  <2>2. CASE table'[n.path] = table[n.path] /\ ~(m.file # NoFile /\ m.file.id = id /\ IsEffective(m))
    <3>1. PICK c \in ChangesOf(id, pathQueue) : c.time <= n.time
      BY <1>2, <1>8, <2>1, <2>2 DEF RowIsSpared
    <3> QED
      BY <1>4, <1>5, <2>2, <3>1
  <2>3. ASSUME m.file # NoFile, m.file.id = id, n.path = m.path, m.time < n.time, IsEffective(m)
        PROVE  \E c \in ChangesOf(id, pathQueue)' : c.time <= n.time
    <3>1. m \in ChangesOf(id, pathQueue)
      BY <1>6, <2>3 DEF Messages, ChangesOf, Changes
    <3>2. PICK c \in ChangesOf(id, pathQueue) : m.time < c.time /\ c.time <= n.time
      BY <1>2, <1>8, <2>1, <2>3, <3>1 DEF LeavesInTime
    <3>3. c # m
      BY <1>1, <3>2
    <3> QED
      BY <1>5, <3>2, <3>3
  <2>4. CASE UNCHANGED table /\ m.file # NoFile /\ m.file.id = id /\ IsEffective(m)
    <3>1. m \in ChangesOf(id, pathQueue)
      BY <1>6, <2>4 DEF Messages, ChangesOf, Changes
    <3>2. PICK c \in ChangesOf(id, pathQueue) : c.time <= n.time
      BY <1>2, <1>8, <2>1, <2>4 DEF RowIsSpared
    <3>3. c \in ChangesOf(id, pathQueue)'
      <4>1. SUFFICES ASSUME c \notin ChangesOf(id, pathQueue)' PROVE FALSE
        BY <3>2
      <4>2. table'[m.path] = PathId(id, m.time)
        BY <1>1, <1>5, <2>4, <4>1 DEF RowAfter
      <4>3. table[m.path] # NoRow /\ table[m.path].time = m.time
        BY <1>1, <2>4, <4>2, NoneAssumption DEF PathId, Rows
      <4> QED
        BY <1>1, <2>4, <4>3 DEF IsEffective
    <3> QED
      BY <3>2, <3>3
  <2>5. CASE IsEffective(m) /\ table' = [p \in Paths |-> RowAfter(m, p)]
    BY <1>8, <2>1, <2>2, <2>3, <2>5, RowsAfter DEF PathId
  <2> QED
    BY <2>2, <2>4, <2>5, PathStep
<1>9. ASSUME NEW k \in Messages', NEW n \in ChangesOf(id, pathQueue)',
             IsWithout(k, id), n.path = k.path, n.time < k.time
      PROVE  \E c \in ChangesOf(id, pathQueue)' : n.time < c.time /\ c.time <= k.time
  <2>1. n \in ChangesOf(id, pathQueue) /\ n \in pathQueue'
    BY <1>9, PathStep DEF ChangesOf, Changes
  <2>2. PICK c \in ChangesOf(id, pathQueue) : n.time < c.time /\ c.time <= k.time
    BY <1>1, <1>2, <1>9, <2>1 DEF LeavesInTime
  <2>3. CASE c \notin ChangesOf(id, pathQueue)'
    <3>1. c = m /\ n # m
      BY <1>5, <2>1, <2>3
    <3>2. n.time >= m.time
      BY <1>1, <1>4, <2>1, <3>1 DEF IsInOrder
    <3> QED
      BY <1>4, <2>1, <2>2, <3>1, <3>2
  <2> QED
    BY <2>2, <2>3
<1>10. ASSUME NEW n \in ChangesOf(id, late)'
       PROVE  \E p \in Paths : table'[p] # NoRow /\ table'[p].id = id /\ n.time <= table'[p].time
  <2>1. /\ n \in late' /\ n \in Messages /\ n.time \in Nat /\ n.file # NoFile /\ n.file.id = id
        /\ n \in late \/ n = m
    BY <1>1, MessageTypes, PathStep DEF ChangesOf, Changes, Messages
  <2>2. ASSUME IsEffective(m), m.file # NoFile, m.file.id = id, n.time <= m.time,
               table' = [p \in Paths |-> RowAfter(m, p)]
        PROVE  \E p \in Paths : table'[p] # NoRow /\ table'[p].id = id /\ n.time <= table'[p].time
    <3>1. table'[m.path] = PathId(id, m.time)
      BY <1>1, <2>2 DEF RowAfter
    <3> QED
      BY <1>1, <2>2, <3>1, NoneAssumption DEF PathId, Rows
  <2>3. CASE n \in late
    <3>1. PICK p \in Paths : table[p] # NoRow /\ table[p].id = id /\ n.time <= table[p].time
      BY <1>2, <2>1, <2>3 DEF DuplicatesAreOld, ChangesOf, Changes
    <3>2. CASE table'[p] = table[p]
      BY <3>1, <3>2
    <3>3. CASE IsEffective(m) /\ table' = [q \in Paths |-> RowAfter(m, q)] /\ table'[p] # table[p]
      <4>1. CASE m.file # NoFile /\ m.file.id = id
        <5>1. table[p].time < m.time
          BY <3>1, <3>3, <4>1 DEF IsEffective
        <5> QED
          BY <1>1, <1>3, <2>1, <2>2, <3>1, <3>3, <4>1, <5>1
      <4>2. CASE IsWithout(m, id)
        <5>1. p = m.path
          BY <3>1, <3>3, <4>2 DEF RowAfter, IsWithout
        <5>2. m.file # NoFile /\ table[p].time < m.time
          BY <1>1, <1>2, <3>1, <3>3, <4>2, <5>1, TakenInTime
        <5>3. table'[p] = PathId(m.file.id, m.time)
          BY <3>3, <5>1, <5>2 DEF RowAfter
        <5>4. table'[p] # NoRow /\ table'[p].time = m.time
          BY <1>1, <5>2, <5>3, MessageTypes, NoneAssumption DEF PathId, Rows
        <5>5. m.time <= n.time
          BY <2>1, <5>4 DEF DuplicatesArePrompt
        <5> QED
          BY <1>1, <1>3, <2>1, <3>1, <5>2, <5>5
      <4> QED
        BY <4>1, <4>2 DEF IsWithout
    <3> QED
      BY <3>2, <3>3, PathStep
  <2>4. CASE n = m /\ n \notin late
    <3>1. m \in Changes(pathQueue)
      BY <2>1, <2>4 DEF Messages, Changes
    <3>2. IsEffective(m) /\ ~UNCHANGED late
      BY <2>1, <2>4, <3>1, PendingIsEffective
    <3>3. table' = [p \in Paths |-> RowAfter(m, p)]
      BY <3>2, PathStep
    <3> QED
      BY <1>1, <2>1, <2>2, <2>4, <3>2, <3>3
  <2> QED
    BY <2>1, <2>3, <2>4
<1>11. RowIsSpared(id)' /\ LeavesInTime(id)' /\ DuplicatesAreOld(id)'
  BY <1>8, <1>9, <1>10 DEF RowIsSpared, LeavesInTime, DuplicatesAreOld
<1>12. IdsIn(tree)' = IdsIn(tree) /\ IdsIn(saved)' = IdsIn(saved)
  BY <1>1 DEF IdsIn
<1> QED
  BY <1>1, <1>7, <1>11, <1>12 DEF Stays

LEMMA IdKeepsStays ==
    ASSUME TypeOK, Patient = TRUE, NEW m \in idQueue, HandleId(m) \/ TellFails(m),
           NEW id \in Ids, Stays(id)
    PROVE  Stays(id)'
<1> DEFINE new == [content |-> m.content, time |-> m.time]
<1>1. /\ UNCHANGED <<tree, saved, retry, pathQueue, late, table>> /\ Messages' = Messages
      /\ idQueue' = idQueue \/ idQueue' = idQueue \ {m}
      /\ m.time \in Nat /\ m.id \in Ids
      /\ told'[id] = told[id] \/ told'[id] = store'[id]
      /\ store' = [store EXCEPT ![m.id] = UpdateMetadata(new, @)]
      /\ m.content = Deleted =>
             /\ \A c \in Changes(pathQueue) : c.time > m.time
             /\ \A c \in idQueue : c.content # Deleted => c.time > m.time
  BY IdStep, MessageTypes DEF Messages
<1>2. store'[id] = IF m.id = id THEN UpdateMetadata(new, store[id]) ELSE store[id]
  BY <1>1 DEF TypeOK
<1>3. /\ IsContent(store[id]) /\ IsContent(told[id]) /\ DeletionsAreTooOld(id)
      /\ store[id].time \in Nat /\ new # Nothing
      /\ \A n \in idQueue : n.time \in Nat
      /\ \A c \in ChangesOf(id, pathQueue) : c.time \in Nat
  BY <1>1, MessageTypes, NoneAssumption
     DEF Stays, IsContent, Metadata, ChangesOf, Changes, Messages
\* The deletion that is due is too old.
<1>4. m.id = id /\ m.content = Deleted => m.time <= store[id].time
  <2> SUFFICES ASSUME m.id = id, m.content = Deleted PROVE m.time <= store[id].time
    OBVIOUS
  <2>1. ASSUME NEW c \in Contents(id) \union ChangesOf(id, pathQueue) PROVE c.time # m.time
    BY <1>1, <1>3, <2>1 DEF Contents, ChangesOf, Changes
  <2> QED
    BY <1>3, <2>1 DEF DeletionsAreTooOld
<1>5. /\ IsContent(store'[id]) /\ store'[id].time \in Nat
      /\ store[id].time <= store'[id].time
      /\ m.id = id => m.time <= store'[id].time
  <2>1. CASE m.id = id /\ m.content = Deleted
    BY <1>1, <1>2, <1>3, <1>4, <2>1 DEF IsContent, UpdateMetadata
  <2>2. CASE m.id = id /\ m.content # Deleted
    BY <1>1, <1>2, <1>3, <2>2 DEF IsContent, UpdateMetadata
  <2> QED
    BY <1>2, <1>3, <2>1, <2>2
<1>6. DeletionsAreTooOld(id)'
  <2> SUFFICES ASSUME NEW n \in idQueue', n.id = id, n.content = Deleted
               PROVE  \/ n.time <= store'[id].time
                      \/ \E c \in Contents(id)' \union ChangesOf(id, pathQueue)' : c.time = n.time
    BY DEF DeletionsAreTooOld
  <2>1. n \in idQueue /\ n.time \in Nat
    BY <1>1, <1>3
  <2>2. CASE n.time <= store[id].time
    BY <1>3, <1>5, <2>1, <2>2
  <2>3. ASSUME NEW c \in Contents(id), c.time = n.time
        PROVE  n.time <= store'[id].time \/ c \in Contents(id)'
    BY <1>1, <1>5, <2>3 DEF Contents
  <2>4. ChangesOf(id, pathQueue)' = ChangesOf(id, pathQueue)
    BY <1>1 DEF ChangesOf, Changes
  <2> QED
    BY <1>3, <2>1, <2>2, <2>3, <2>4 DEF DeletionsAreTooOld
<1>7. RowIsSpared(id)' /\ LeavesInTime(id)' /\ DuplicatesAreOld(id)'
  BY <1>1 DEF Stays, RowIsSpared, LeavesInTime, DuplicatesAreOld, ChangesOf, Changes
<1>8. IdsIn(tree)' = IdsIn(tree) /\ IdsIn(saved)' = IdsIn(saved)
  BY <1>1 DEF IdsIn
<1> QED
  BY <1>1, <1>3, <1>5, <1>6, <1>7, <1>8 DEF Stays

LEMMA PollKeepsStays ==
    ASSUME TypeOK, OrderInv, FollowsTree, Poll, NEW id \in Ids, id \in IdsIn(tree), Stays(id)
    PROVE  Stays(id)'
<1> DEFINE sent == DiffTrees(saved, tree, now + 1)
<1>1. PollStep(sent) /\ saved' = tree /\ tree' = tree /\ retry' = "none"
  BY DEF Poll, PollStep, Stays
<1>2. /\ now \in Nat /\ Messages' = Messages \union sent
      /\ \A m \in sent : m.path \in Paths /\ m.file = tree[m.path] /\ m.time = now + 1
             /\ tree[m.path] # saved[m.path]
      /\ \A m \in Messages : m.time \in Nat /\ m.time <= now
      /\ pathQueue' = pathQueue \union sent
      /\ UNCHANGED <<late, table, idQueue, store, told>>
  BY <1>1, PollIsLatest DEF PollStep
<1>3. tree \in Trees /\ saved \in Trees
  BY DEF TypeOK
<1>4. PICK p \in Paths, f \in Files : tree[p] = f /\ f.id = id
  BY <1>3, FilesOfTrees DEF IdsIn
<1>5. ChangesOf(id, pathQueue)' = ChangesOf(id, pathQueue) \union ChangesOf(id, sent)
  BY <1>2 DEF ChangesOf, Changes
\* The poll has a change of the manuscript, or finds it where it was.
<1>6. \/ \E c \in ChangesOf(id, sent) : c.time = now + 1
      \/ saved[p] = f /\ Lives(p, f)
  <2> DEFINE c == PathMessage(p, f, now + 1)
  <2>1. f # NoFile
    BY NoneAssumption
  <2>2. CASE saved[p] # f
    <3>1. c \in sent
      BY <1>4, <2>2 DEF DiffTrees
    <3>2. c \in ChangesOf(id, sent) /\ c.time = now + 1
      BY <1>4, <2>1, <3>1 DEF ChangesOf, Changes, PathMessage
    <3> QED
      BY <3>2
  <2>3. CASE saved[p] = f
    <3>1. Lives(p, saved[p])
      BY <2>1, <2>3 DEF FollowsTree, Stays
    <3> QED
      BY <2>3, <3>1
  <2> QED
    BY <2>2, <2>3
<1>7. ASSUME saved[p] = f, Lives(p, f), NEW m \in sent
      PROVE  /\ m.path # p
             /\ table[m.path] # NoRow /\ table[m.path].id = id
                    => \E c \in ChangesOf(id, pathQueue) : c.time <= now
             /\ \A n \in ChangesOf(id, pathQueue) : n.path = m.path =>
                    \E c \in ChangesOf(id, pathQueue) : n.time < c.time /\ c.time <= now
  <2>1. PICK s \in 0..now : IsLastWord(p, f, s) /\ IsUnderWay(p, f, s)
    BY <1>7 DEF Lives
  <2>2. m.path # p /\ s \in Nat /\ f # NoFile
    BY <1>2, <1>4, <1>7, NoneAssumption
  <2>3. ASSUME NEW n \in ChangesOf(id, pathQueue)
        PROVE  /\ n \in Changes(pathQueue) /\ n \in Messages /\ n.time \in Nat
               /\ n.file # NoFile /\ n.file.id = id /\ n.time <= s
    BY <1>2, <1>4, <2>1 DEF IsLastWord, UpTo, ChangesOf, Changes, Messages
  <2>4. CASE PathMessage(p, f, s) \in pathQueue
    <3>1. PICK c \in ChangesOf(id, pathQueue) : c.path = p /\ c.time = s
      BY <1>4, <2>2, <2>4 DEF ChangesOf, Changes, PathMessage
    <3>2. ASSUME NEW n \in ChangesOf(id, pathQueue), n.path = m.path PROVE n.time < s
      <4>1. n.time = s => n = c
        BY <2>3, <3>1 DEF OrderInv, OfOnePoll
      <4> QED
        BY <2>2, <2>3, <3>1, <3>2, <4>1
    <3> QED
      BY <2>1, <2>2, <3>1, <3>2
  <2>5. CASE table[p] = PathId(id, s)
    <3>1. table[p] # NoRow /\ table[p].id = id /\ table[p].time = s
      BY <2>2, <2>5, NoneAssumption DEF PathId, Rows
    <3>2. ~(table[m.path] # NoRow /\ table[m.path].id = id)
      BY <1>2, <2>2, <3>1 DEF TypeOK, IdsAreUnique
    <3>3. ChangesOf(id, pathQueue) = {}
      BY <2>3, <2>2, <3>1 DEF OrderInv, RowsAreOlder
    <3> QED
      BY <2>2, <3>2, <3>3
  <2> QED
    BY <1>4, <2>1, <2>4, <2>5 DEF IsUnderWay
<1>8. DeletionsAreTooOld(id)'
  BY <1>2, <1>5 DEF Stays, DeletionsAreTooOld, Contents
<1>9. RowIsSpared(id)'
  <2> SUFFICES ASSUME NEW m \in Messages', IsWithout(m, id), table[m.path] # NoRow,
                      table[m.path].id = id, table[m.path].time < m.time
               PROVE  \E c \in ChangesOf(id, pathQueue)' : c.time <= m.time
    BY <1>2 DEF RowIsSpared
  <2>1. CASE m \in Messages
    BY <1>5, <2>1 DEF Stays, RowIsSpared
  <2>2. CASE m \in sent
    <3>1. \A c \in ChangesOf(id, pathQueue)' : c.time <= m.time
      BY <1>2, <2>2 DEF ChangesOf, Changes, Messages
    <3> QED
      BY <1>5, <1>6, <1>7, <2>2, <3>1
  <2> QED
    BY <1>2, <2>1, <2>2
<1>10. LeavesInTime(id)'
  <2> SUFFICES ASSUME NEW m \in Messages', NEW n \in ChangesOf(id, pathQueue)',
                      IsWithout(m, id), n.path = m.path, n.time < m.time
               PROVE  \E c \in ChangesOf(id, pathQueue)' : n.time < c.time /\ c.time <= m.time
    BY DEF LeavesInTime
  <2>1. n \in ChangesOf(id, pathQueue) /\ n.time \in Nat /\ n.time <= now
    BY <1>2, <1>5 DEF ChangesOf, Changes, Messages
  <2>2. CASE m \in Messages
    BY <1>5, <2>1, <2>2 DEF Stays, LeavesInTime
  <2>3. CASE m \in sent
    <3>1. m.time = now + 1
      BY <1>2, <2>3
    <3>2. CASE \E c \in ChangesOf(id, sent) : c.time = now + 1
      <4>1. PICK c \in ChangesOf(id, sent) : c.time = now + 1
        BY <3>2
      <4>2. n.time < c.time /\ c.time <= m.time
        BY <1>2, <2>1, <3>1, <4>1
      <4> QED
        BY <1>5, <4>1, <4>2
    <3>3. CASE saved[p] = f /\ Lives(p, f)
      <4>1. PICK c \in ChangesOf(id, pathQueue) : n.time < c.time /\ c.time <= now
        BY <1>7, <2>1, <2>3, <3>3
      <4>2. c.time <= m.time
        BY <1>2, <3>1, <4>1 DEF ChangesOf, Changes, Messages
      <4> QED
        BY <1>5, <4>1, <4>2
    <3> QED
      BY <1>6, <3>2, <3>3
  <2> QED
    BY <1>2, <2>2, <2>3
<1>11. DuplicatesAreOld(id)'
  BY <1>2 DEF Stays, DuplicatesAreOld, ChangesOf, Changes
<1>12. IdsIn(tree)' = IdsIn(tree) /\ IdsIn(saved)' = IdsIn(tree)
  BY <1>1 DEF IdsIn
<1> QED
  BY <1>1, <1>2, <1>8, <1>9, <1>10, <1>11, <1>12 DEF Stays

LEMMA InitStays == Init => StaysInv
<1> SUFFICES ASSUME Init, NEW id \in Ids \ away PROVE Stays(id)
  BY DEF StaysInv
<1>1. tree \in Trees /\ saved = tree /\ retry = "none" /\ told = store
      /\ pathQueue = {} /\ late = {} /\ idQueue = {} /\ id \in IdsIn(tree)
  BY DEF Init
<1>2. Messages = {} /\ ChangesOf(id, late) = {}
  BY <1>1 DEF Messages, ChangesOf, Changes
<1>3. PICK p \in Paths : tree[p] # NoFile /\ tree[p].id = id
  BY <1>1 DEF IdsIn
<1> DEFINE q == CHOOSE q \in Paths : tree[q] # NoFile /\ tree[q].id = id
<1>4. q \in Paths /\ tree[q] # NoFile
  BY <1>3
<1>5. tree[q].text \in Texts
  BY <1>1, <1>4, FilesOfTrees DEF Files
<1>6. store[id] = [content |-> tree[q].text, time |-> 0]
  BY <1>1 DEF Init
<1> HIDE DEF q
<1>7. IsContent(store[id])
  BY <1>5, <1>6, NoneAssumption DEF IsContent, Metadata
<1> QED
  BY <1>1, <1>2, <1>7 DEF Stays, DeletionsAreTooOld, RowIsSpared, LeavesInTime,
                          DuplicatesAreOld

LEMMA NextStays ==
    ASSUME TypeOK, OrderInv, FollowsTree, StaysInv, DuplicatesArePrompt',
           Patient = TRUE, [Next]_vars
    PROVE  StaysInv'
<1> SUFFICES ASSUME NEW id \in Ids, id \notin away' PROVE Stays(id)'
  BY DEF StaysInv
<1>1. CASE PollFails
  BY <1>1 DEF PollFails
<1>2. id \notin away
  <2>1. away' = away \/ away \subseteq away' \/ away' = Ids
    BY DEF Next, vars, Push, Poll, PollFails, HandlePath, HandlePathFails, HandleId,
           TellFails
  <2> QED
    BY <2>1
<1>3. Stays(id)
  BY <1>1, <1>2 DEF StaysInv
<1>4. ASSUME UNCHANGED <<saved, pathQueue, late, table, idQueue, store, told>>,
             retry' = "none", id \in IdsIn(tree)'
      PROVE  Stays(id)'
  <2>1. Messages' = Messages /\ Contents(id)' = Contents(id) /\ IdsIn(saved)' = IdsIn(saved)
    BY <1>4 DEF Messages, Contents, IdsIn
  <2> QED
    BY <1>3, <1>4, <2>1 DEF Stays, DeletionsAreTooOld, RowIsSpared, LeavesInTime,
                            DuplicatesAreOld, ChangesOf, Changes
<1>5. CASE Push
  BY <1>3, <1>4, <1>5 DEF Push, Stays, IdsIn
<1>6. CASE Poll
  BY <1>3, <1>6, PollKeepsStays DEF Stays
<1>7. ASSUME NEW m \in Messages, HandlePath(m) \/ HandlePathFails(m) PROVE Stays(id)'
  BY <1>3, <1>7, PathKeepsStays
<1>8. ASSUME NEW m \in idQueue, HandleId(m) \/ TellFails(m) PROVE Stays(id)'
  BY <1>3, <1>8, IdKeepsStays
<1>9. CASE UNCHANGED vars
  BY <1>3, <1>4, <1>9 DEF vars, Stays, IdsIn
<1> QED
  BY <1>1, <1>5, <1>6, <1>7, <1>8, <1>9 DEF Next, Messages

\* For any trees and any number of polls: a manuscript that was in every tree is
\* in the catalogue all the time, however it moved and whoever took its path, if
\* the delays are long enough and what is delivered twice comes the second time
\* before a change of a later poll is in the table.
THEOREM MovedManuscriptsAreKept ==
    ASSUME Patient = TRUE
    PROVE  Spec /\ []DuplicatesArePrompt => []MovedManuscriptsStay
<1> DEFINE Inv == TypeOK /\ OrderInv /\ FollowsTree /\ StaysInv
<1>1. Init => Inv
  BY InitTypeOK, InitOrder, InitFollows, InitStays
<1>2. Inv /\ DuplicatesArePrompt' /\ [Next]_vars => Inv'
  BY NextTypeOK, NextOrder, NextFollows, NextStays
<1>3. Inv => MovedManuscriptsStay
  BY DEF StaysInv, Stays, IsContent, MovedManuscriptsStay
<1> QED
  BY <1>1, <1>2, <1>3, PTL DEF Spec
=============================================================================
