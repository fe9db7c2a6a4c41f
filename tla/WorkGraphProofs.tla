-------------------------- MODULE WorkGraphProofs --------------------------
(***************************************************************************)
(* What the pure functions of WorkGraph compute, for every set of works:   *)
(* well-formed rows, one for each id of the subgraph, that keep what the   *)
(* sources say, and components that are connected and cut off from the     *)
(* rest.                                                                   *)
(***************************************************************************)
EXTENDS WorkGraph, TLAPS

\* Every revision of a work is a work stub.
LEMMA RevisionType ==
    ASSUME NEW w \in Works, NEW i \in 1..Len(Revisions[w])
    PROVE  Revisions[w][i] \in WorkStub
BY RevisionsAssumption

\* A stub talks about works only.
LEMMA StubIdsType ==
    ASSUME NEW w \in Works, NEW stub \in WorkStub
    PROVE  /\ StubIds(w, stub) \subseteq Works
           /\ SourceData(w, stub) \in SourceWorkData
BY DEF StubIds, MergeCandidateIds, SourceData, SourceWorkData, WorkStub

\* The rows a match computes are rows of the graph table.
LEMMA AfterNodesType ==
    ASSUME NEW w \in Works, NEW stub \in WorkStub,
           NEW existing \in SUBSET WorkNode
    PROVE  AfterNodes(w, stub, existing) \subseteq WorkNode
<1> DEFINE sources == WithSource(AllWorks(w, stub, existing))
           ids     == WorkIds(sources)
           links   == UnsuppressedLinks(sources)
           source  == [i \in ids |->
                          IF \E n \in sources : n.id = i
                          THEN (CHOOSE n \in sources : n.id = i).sourceWork
                          ELSE NoSource]
<1>1. AllWorks(w, stub, existing) \subseteq WorkNode
    BY StubIdsType DEF AllWorks, WorkNode
<1>2. \A n \in sources : /\ n.id \in Works
                         /\ n.sourceWork \in SourceWorkData
                         /\ n.sourceWork.mergeCandidateIds \subseteq Works
    BY <1>1 DEF WithSource, WorkNode, SourceWorkData
<1>3. ids \subseteq Works
    BY <1>2 DEF WorkIds
<1>4. \A i \in ids : source[i] \in SourceWorkData \union {NoSource}
    BY <1>2
<1>5. \A i \in ids : Component(i, ids, links) \subseteq Works
    BY <1>3 DEF Component
<1>6. AfterNodes(w, stub, existing) =
          {[id |-> i, subgraphId |-> ids, componentIds |-> Component(i, ids, links),
            sourceWork |-> source[i]] : i \in ids}
    BY DEF AfterNodes
<1> HIDE DEF sources, ids, links, source
<1> QED
    BY <1>3, <1>4, <1>5, <1>6 DEF WorkNode

\* A put of one row keeps the table well-formed, one row for each id.
LEMMA PutOneType ==
    ASSUME NEW table \in SUBSET WorkNode, Keyed(table), NEW n \in WorkNode
    PROVE  PutAll(table, {n}) \subseteq WorkNode /\ Keyed(PutAll(table, {n}))
BY DEF PutAll, Keyed

\* A put of several rows does as well, when they have different ids.
LEMMA PutAllType ==
    ASSUME NEW table \in SUBSET WorkNode, Keyed(table),
           NEW nodes \in SUBSET WorkNode, Keyed(nodes)
    PROVE  PutAll(table, nodes) \subseteq WorkNode /\ Keyed(PutAll(table, nodes))
BY DEF PutAll, Keyed

----------------------------------------------------------------------------
(***************************************************************************)
(* The rows of an update: there is exactly one for each of its ids, and    *)
(* each has the source data the update started from.                       *)
(***************************************************************************)

\* The sources of an update: those of the existing rows, the updated work's
\* replaced by its new data.
LEMMA SourcesOfUpdate ==
    ASSUME NEW w \in Works, NEW stub \in WorkStub,
           NEW existing \in SUBSET WorkNode, Keyed(existing),
           NEW sources, sources = WithSource(AllWorks(w, stub, existing))
    PROVE  /\ Keyed(sources)
           /\ \A n \in sources : /\ n.id \in Works
                                 /\ n.sourceWork \in SourceWorkData
           /\ \E n \in sources : n.id = w /\ n.sourceWork = SourceData(w, stub)
           /\ \A n \in sources : n.id = w => n.sourceWork = SourceData(w, stub)
           /\ \A n \in sources : n.id # w => n \in WithSource(existing)
           /\ \A n \in WithSource(existing) : n.id # w => n \in sources
<1> DEFINE new == [id |-> w, subgraphId |-> {w}, componentIds |-> {w},
                   sourceWork |-> SourceData(w, stub)]
<1>1. AllWorks(w, stub, existing) = {n \in existing : n.id # w} \union {new}
    BY DEF AllWorks
<1>2. /\ new \in WorkNode
      /\ new.id = w
      /\ new.sourceWork = SourceData(w, stub)
      /\ new.sourceWork # NoSource
    BY StubIdsType, NoSourceAssumption DEF WorkNode
<1> HIDE DEF new
<1> QED
    BY <1>1, <1>2 DEF Keyed, WithSource, WorkNode

\* The rows of an update are those of the ids that its sources mention.
LEMMA RowsOfUpdate ==
    ASSUME NEW w \in Works, NEW stub \in WorkStub,
           NEW existing \in SUBSET WorkNode, Keyed(existing),
           NEW sources, sources = WithSource(AllWorks(w, stub, existing)),
           NEW ids, ids = WorkIds(sources),
           NEW after, after = AfterNodes(w, stub, existing)
    PROVE  /\ ids \subseteq Works
           /\ \A n \in sources : /\ n.id \in ids
                                 /\ n.sourceWork.mergeCandidateIds \subseteq ids
           /\ after \subseteq WorkNode
           /\ Keyed(after)
           /\ \A i \in ids : \E n \in after : n.id = i
           /\ \A n \in after :
                  /\ n.id \in ids
                  /\ n.subgraphId = ids
                  /\ n.componentIds =
                         Component(n.id, ids, UnsuppressedLinks(sources))
           /\ \A n \in WithSource(after) : \E s \in sources :
                  s.id = n.id /\ s.sourceWork = n.sourceWork
           /\ \A s \in sources : \E n \in WithSource(after) :
                  n.id = s.id /\ n.sourceWork = s.sourceWork
<1> DEFINE source == [i \in ids |->
                          IF \E n \in sources : n.id = i
                          THEN (CHOOSE n \in sources : n.id = i).sourceWork
                          ELSE NoSource]
           row(i) == [id |-> i, subgraphId |-> ids,
                      componentIds |->
                          Component(i, ids, UnsuppressedLinks(sources)),
                      sourceWork |-> source[i]]
<1>1. after = {row(i) : i \in ids}
    BY DEF AfterNodes
<1>2. \A i \in ids : /\ row(i).id = i
                     /\ row(i).subgraphId = ids
                     /\ row(i).componentIds =
                            Component(i, ids, UnsuppressedLinks(sources))
                     /\ row(i).sourceWork = source[i]
    OBVIOUS
<1>3. /\ Keyed(sources)
      /\ \A n \in sources : n.id \in Works /\ n.sourceWork \in SourceWorkData
    BY SourcesOfUpdate
<1>4. \A n \in sources : /\ n.id \in ids
                         /\ n.sourceWork.mergeCandidateIds \subseteq ids
    BY DEF WorkIds
<1>5. ids \subseteq Works
    BY <1>3 DEF WorkIds, SourceWorkData
<1>6. \A n \in sources : source[n.id] = n.sourceWork
    BY <1>3, <1>4 DEF Keyed
<1>7. \A i \in ids : source[i] # NoSource =>
          \E s \in sources : s.id = i /\ s.sourceWork = source[i]
    BY <1>6
<1>8. \A n \in sources : n.sourceWork # NoSource
    BY <1>3, NoSourceAssumption
<1>9. after \subseteq WorkNode
    BY AfterNodesType
<1> HIDE DEF source, row
<1>10. \A n \in after : \E i \in ids : n = row(i)
    BY <1>1
<1>11. /\ Keyed(after)
       /\ \A i \in ids : \E n \in after : n.id = i
       /\ \A n \in after :
              /\ n.id \in ids
              /\ n.subgraphId = ids
              /\ n.componentIds = Component(n.id, ids, UnsuppressedLinks(sources))
              /\ n.sourceWork = source[n.id]
    BY <1>1, <1>2, <1>10 DEF Keyed
<1>12. \A n \in WithSource(after) : \E s \in sources :
           s.id = n.id /\ s.sourceWork = n.sourceWork
    BY <1>7, <1>11 DEF WithSource
<1>13. ASSUME NEW s \in sources
       PROVE  \E n \in WithSource(after) :
                  n.id = s.id /\ n.sourceWork = s.sourceWork
    <2>1. PICK n \in after : n.id = s.id
        BY <1>4, <1>11
    <2>2. n.sourceWork = s.sourceWork /\ s.sourceWork # NoSource
        BY <1>6, <1>8, <1>11, <2>1
    <2> QED
        BY <2>1, <2>2 DEF WithSource
<1> QED
    BY <1>4, <1>5, <1>9, <1>11, <1>12, <1>13

\* An update gives its work the data of the stub, and copies that of the others.
LEMMA SourcesOfRows ==
    ASSUME NEW w \in Works, NEW stub \in WorkStub,
           NEW existing \in SUBSET WorkNode, Keyed(existing),
           NEW after, after = AfterNodes(w, stub, existing)
    PROVE  /\ \E n \in after : n.id = w
           /\ \A n \in after : n.id = w => n.sourceWork = SourceData(w, stub)
           /\ \A n \in WithSource(after) : n.id # w =>
                  \E m \in existing : m.id = n.id /\ m.sourceWork = n.sourceWork
           /\ \A m \in WithSource(existing), n \in after :
                  m.id # w /\ n.id = m.id => n.sourceWork = m.sourceWork
<1> DEFINE sources == WithSource(AllWorks(w, stub, existing))
<1>1. /\ \E n \in sources : n.id = w /\ n.sourceWork = SourceData(w, stub)
      /\ \A n \in sources : n.id # w => n \in WithSource(existing)
      /\ \A n \in WithSource(existing) : n.id # w => n \in sources
    BY SourcesOfUpdate
<1>2. /\ Keyed(after)
      /\ \A n \in WithSource(after) : \E s \in sources :
             s.id = n.id /\ s.sourceWork = n.sourceWork
      /\ \A s \in sources : \E n \in WithSource(after) :
             n.id = s.id /\ n.sourceWork = s.sourceWork
    BY RowsOfUpdate
<1> HIDE DEF sources
<1>3. \A n \in WithSource(after) : n \in after
    BY DEF WithSource
<1>4. \A s \in sources, n \in after : n.id = s.id => n.sourceWork = s.sourceWork
    BY <1>2, <1>3 DEF Keyed
<1>5. \E n \in after : n.id = w
    BY <1>1, <1>2, <1>3
<1>6. \A n \in after : n.id = w => n.sourceWork = SourceData(w, stub)
    BY <1>1, <1>4
<1>7. ASSUME NEW n \in WithSource(after), n.id # w
      PROVE  \E m \in existing : m.id = n.id /\ m.sourceWork = n.sourceWork
    BY <1>1, <1>2, <1>7 DEF WithSource
<1>8. \A m \in WithSource(existing), n \in after :
          m.id # w /\ n.id = m.id => n.sourceWork = m.sourceWork
    BY <1>1, <1>4
<1> QED
    BY <1>5, <1>6, <1>7, <1>8

----------------------------------------------------------------------------
(***************************************************************************)
(* A whole update of a table.  Because links stay in their subgraph, the   *)
(* rows that the update does not read are exactly those of other           *)
(* subgraphs: it writes to none of them, and they link to none of the rows *)
(* it writes.                                                              *)
(***************************************************************************)

\* Both ends of every link of the table are in one subgraph.
LinksClosed(table) ==
    \A n \in WithSource(table) : \A c \in n.sourceWork.mergeCandidateIds :
        \E m \in table : m.id = c /\ m.subgraphId = n.subgraphId

\* What an update of w reads and writes, and what it leaves alone.
UpdateOf(table, new, w, stub, before, sources, ids, after) ==
    /\ before = FindAffectedWorks(table, StubIds(w, stub))
    /\ sources = WithSource(AllWorks(w, stub, before))
    /\ ids = WorkIds(sources)
    /\ after = AfterNodes(w, stub, before)
    /\ new = PutAll(table, after)

\* An update writes rows of its ids only, and has read every row it replaces.
LEMMA WritesOfUpdate ==
    ASSUME NEW table \in SUBSET WorkNode, Keyed(table), LinksClosed(table),
           NEW w \in Works, NEW stub \in WorkStub,
           NEW new, NEW before, NEW sources, NEW ids, NEW after,
           UpdateOf(table, new, w, stub, before, sources, ids, after)
    PROVE  /\ before \in SUBSET WorkNode
           /\ before \subseteq table
           /\ Keyed(before)
           /\ \A n \in before, m \in table :
                  m.subgraphId = n.subgraphId => m \in before
           /\ \A m \in table : m.id \in ids => m \in before
           /\ \A n \in WithSource(before) : n.id \in ids
           /\ \A i \in ids : i \in StubIds(w, stub) \/ \E m \in before : m.id = i
           /\ after \subseteq new
           /\ \A n \in new : n.id \in ids => n \in after
           /\ \A n \in table : n.id \notin ids => n \in new
           /\ \A n \in new : n.id \notin ids => n \in table
<1>1. before \in SUBSET WorkNode /\ before \subseteq table /\ Keyed(before)
    BY DEF UpdateOf, FindAffectedWorks, Keyed
<1>2. \A n \in before, m \in table : m.subgraphId = n.subgraphId => m \in before
    BY DEF UpdateOf, FindAffectedWorks
<1>3. \A m \in table : m.id \in StubIds(w, stub) => m \in before
    BY DEF UpdateOf, FindAffectedWorks
<1>4. /\ \A n \in sources : n.id = w => n.sourceWork = SourceData(w, stub)
      /\ \A n \in sources : n.id # w => n \in WithSource(before)
      /\ \E n \in sources : n.id = w
      /\ \A n \in WithSource(before) : n.id # w => n \in sources
    BY <1>1, SourcesOfUpdate DEF UpdateOf
<1>5. /\ \A n \in sources : n.id \in ids
      /\ \A n \in after : n.id \in ids
      /\ \A k \in ids : \E n \in after : n.id = k
      /\ Keyed(after)
    BY <1>1, RowsOfUpdate DEF UpdateOf
\* An id of the update is one that the stub talks about, or has been read.
<1>6. ASSUME NEW i \in ids
      PROVE  i \in StubIds(w, stub) \/ \E m \in before : m.id = i
    <2>1. PICK s \in sources :
              i = s.id \/ i \in s.sourceWork.mergeCandidateIds
        BY <1>6 DEF UpdateOf, WorkIds
    <2>2. CASE s.id = w
        BY <1>4, <2>1, <2>2 DEF SourceData, StubIds
    <2>3. CASE s.id # w
        <3>1. s \in before /\ s \in WithSource(table)
            BY <1>1, <1>4, <2>3 DEF WithSource
        <3>2. CASE i \in s.sourceWork.mergeCandidateIds
            <4>1. PICK r \in table : r.id = i /\ r.subgraphId = s.subgraphId
                BY <3>1, <3>2 DEF LinksClosed
            <4> QED
                BY <1>2, <3>1, <4>1
        <3> QED
            BY <2>1, <3>1, <3>2
    <2> QED
        BY <2>2, <2>3
<1>7. ASSUME NEW m \in table, m.id \in ids PROVE m \in before
    <2>1. CASE m.id \in StubIds(w, stub)
        BY <1>3, <2>1
    <2>2. CASE \E r \in before : r.id = m.id
        BY <1>1, <2>2 DEF Keyed
    <2> QED
        BY <1>6, <1>7, <2>1, <2>2
<1>8. \A n \in WithSource(before) : n.id \in ids
    BY <1>4, <1>5
<1>9. new = {n \in table : \A m \in after : m.id # n.id} \union after
    BY DEF UpdateOf, PutAll
<1> QED
    BY <1>1, <1>2, <1>5, <1>6, <1>7, <1>8, <1>9

\* A row that an update does not read is not written, and neither are the rows
\* of its subgraph.
LEMMA UnreadByUpdate ==
    ASSUME NEW table \in SUBSET WorkNode, Keyed(table), LinksClosed(table),
           NEW w \in Works, NEW stub \in WorkStub,
           NEW new, NEW before, NEW sources, NEW ids, NEW after,
           UpdateOf(table, new, w, stub, before, sources, ids, after),
           NEW n \in table \ before
    PROVE  /\ n.id \notin ids
           /\ n \in new
           /\ \A m \in table : m.subgraphId = n.subgraphId =>
                  m \in table \ before /\ m \in new
<1>1. ASSUME NEW m \in table, m.subgraphId = n.subgraphId
      PROVE  m \in table \ before
    BY <1>1, WritesOfUpdate
<1> QED
    BY <1>1, WritesOfUpdate

\* An update leaves a table in which links stay in their subgraph.
LEMMA LinksOfUpdate ==
    ASSUME NEW table \in SUBSET WorkNode, Keyed(table), LinksClosed(table),
           NEW w \in Works, NEW stub \in WorkStub,
           NEW new, NEW before, NEW sources, NEW ids, NEW after,
           UpdateOf(table, new, w, stub, before, sources, ids, after)
    PROVE  LinksClosed(new)
<1> SUFFICES ASSUME NEW n \in WithSource(new),
                    NEW c \in n.sourceWork.mergeCandidateIds
             PROVE  \E m \in new : m.id = c /\ m.subgraphId = n.subgraphId
    BY DEF LinksClosed
<1>1. before \in SUBSET WorkNode /\ Keyed(before) /\ after \subseteq new
    BY WritesOfUpdate
<1>2. CASE n.id \in ids
    <2>1. n \in WithSource(after)
        BY <1>2, WritesOfUpdate DEF WithSource
    <2>2. c \in ids
        BY <1>1, <2>1, RowsOfUpdate DEF UpdateOf
    <2>3. PICK m \in after : m.id = c
        BY <1>1, <2>2, RowsOfUpdate DEF UpdateOf
    <2>4. n \in after /\ m.subgraphId = ids /\ n.subgraphId = ids
        BY <1>1, <2>1, <2>3, RowsOfUpdate DEF UpdateOf, WithSource
    <2> QED
        BY <1>1, <2>3, <2>4
<1>3. CASE n.id \notin ids
    <2>1. n \in WithSource(table) /\ n \notin before
        BY <1>3, WritesOfUpdate DEF WithSource
    <2>2. PICK m \in table : m.id = c /\ m.subgraphId = n.subgraphId
        BY <2>1 DEF LinksClosed
    <2>3. n \in table \ before
        BY <2>1 DEF WithSource
    <2> QED
        BY <2>2, <2>3, UnreadByUpdate
<1> QED
    BY <1>2, <1>3

----------------------------------------------------------------------------
(***************************************************************************)
(* Component(id, ids, links) is the connected component of id.             *)
(***************************************************************************)

\* A component holds its id, no link crosses its border, and each way to cut
\* it in two cuts a link.
LEMMA ComponentIsConnected ==
    ASSUME NEW ids, NEW id \in ids, NEW links,
           \A l \in links : l[1] \in ids /\ l[2] \in ids,
           NEW C, C = Component(id, ids, links)
    PROVE  /\ id \in C
           /\ C \subseteq ids
           /\ \A l \in links : l[1] \in C <=> l[2] \in C
           /\ \A S \in (SUBSET C) \ {{}, C} : \E l \in links :
                  \/ l[1] \in S /\ l[2] \in C \ S
                  \/ l[2] \in S /\ l[1] \in C \ S
<1> DEFINE Closed(S) == id \in S /\ \A l \in links : l[1] \in S <=> l[2] \in S
<1>1. \A m : m \in C <=> m \in ids /\ \A S \in SUBSET ids : Closed(S) => m \in S
    BY DEF Component
<1>2. id \in C /\ C \subseteq ids
    BY <1>1
<1>3. \A l \in links : l[1] \in C <=> l[2] \in C
    BY <1>1
<1>4. ASSUME NEW S \in (SUBSET C) \ {{}, C},
             \A l \in links : /\ l[1] \in S => l[2] \notin C \ S
                              /\ l[2] \in S => l[1] \notin C \ S
      PROVE  FALSE
    <2> HIDE DEF Closed
    <2>1. CASE id \in S
        <3>1. Closed(S)
            BY <1>3, <1>4, <2>1 DEF Closed
        <3>2. S \in SUBSET ids
            BY <1>2
        <3>3. C \subseteq S
            BY <1>1, <3>1, <3>2
        <3> QED
            BY <1>4, <3>3
    <2>2. CASE id \notin S
        <3>1. Closed(C \ S)
            BY <1>2, <1>3, <1>4, <2>2 DEF Closed
        <3>2. C \ S \in SUBSET ids
            BY <1>2
        <3>3. C \subseteq C \ S
            BY <1>1, <3>1, <3>2
        <3> QED
            BY <1>4, <3>3
    <2> QED
        BY <2>1, <2>2
<1> QED
    BY <1>2, <1>3, <1>4
=============================================================================
