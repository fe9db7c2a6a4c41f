------------------------ MODULE SerialMatcherProofs ------------------------
(***************************************************************************)
(* The promises of SerialMatcher hold for every set of works and for       *)
(* whatever revisions they have: subgraphs hold both ends of every link,   *)
(* an update changes one work only, and the stored components are the      *)
(* connected components of the live links.                                 *)
(***************************************************************************)
EXTENDS SerialMatcher, WorkGraphProofs, TLAPS

\* An update keeps the table well-formed, with one row for each id.
LEMMA MatchType ==
    ASSUME TypeOK, NEW w \in Works, NEW i \in 1..Len(Revisions[w]), Match(w, i)
    PROVE  TypeOK'
<1> DEFINE stub   == Revisions[w][i]
           before == FindAffectedWorks(graph, StubIds(w, stub))
           after  == AfterNodes(w, stub, before)
           sources == WithSource(AllWorks(w, stub, before))
           ids == WorkIds(sources)
<1>1. stub \in WorkStub
    BY RevisionType
<1>2. before \in SUBSET WorkNode /\ Keyed(before)
    BY DEF TypeOK, FindAffectedWorks, Keyed
<1>3. graph' = PutAll(graph, after)
    BY DEF Match
<1> HIDE DEF stub, before
<1>4. after \subseteq WorkNode /\ Keyed(after)
    BY <1>1, <1>2, RowsOfUpdate
<1> HIDE DEF after
<1> QED
    BY <1>3, <1>4, PutAllType DEF TypeOK

\* The graph table has one row for each id.
THEOREM SerialTypeCorrect == Spec => []TypeOK
<1>1. Init => TypeOK
    BY DEF Init, TypeOK, Keyed
<1>2. TypeOK /\ [Next]_graph => TypeOK'
    BY MatchType DEF Next, TypeOK, Keyed
<1> QED
    BY <1>1, <1>2, PTL DEF Spec

----------------------------------------------------------------------------
(***************************************************************************)
(* Links stay in their subgraph: a match is an update of the table.        *)
(***************************************************************************)

\* What an update of w reads and writes, and what it leaves alone.
Update(w, stub, before, sources, ids, after) ==
    /\ UpdateOf(graph, graph', w, stub, before, sources, ids, after)
    /\ ~VersionConflict(w, stub, before)

\* An update writes rows of its ids only, and has read every row it replaces.
LEMMA UpdateWrites ==
    ASSUME TypeOK, LinksStayInSubgraph,
           NEW w \in Works, NEW stub \in WorkStub,
           NEW before, NEW sources, NEW ids, NEW after,
           Update(w, stub, before, sources, ids, after)
    PROVE  /\ before \in SUBSET WorkNode
           /\ before \subseteq graph
           /\ Keyed(before)
           /\ \A n \in before, m \in graph :
                  m.subgraphId = n.subgraphId => m \in before
           /\ \A m \in graph : m.id \in ids => m \in before
           /\ \A n \in WithSource(before) : n.id \in ids
           /\ after \subseteq graph'
           /\ \A n \in graph' : n.id \in ids => n \in after
           /\ \A n \in graph : n.id \notin ids => n \in graph'
           /\ \A n \in graph' : n.id \notin ids => n \in graph
<1>1. graph \in SUBSET WorkNode /\ Keyed(graph) /\ LinksClosed(graph)
    BY DEF TypeOK, LinksStayInSubgraph, LinksClosed
<1>2. UpdateOf(graph, graph', w, stub, before, sources, ids, after)
    BY DEF Update
<1> QED
    BY <1>1, <1>2, WritesOfUpdate

\* A row that an update does not read is not written, and neither are the rows
\* of its subgraph.
LEMMA UnreadRows ==
    ASSUME TypeOK, LinksStayInSubgraph,
           NEW w \in Works, NEW stub \in WorkStub,
           NEW before, NEW sources, NEW ids, NEW after,
           Update(w, stub, before, sources, ids, after),
           NEW n \in graph \ before
    PROVE  /\ n.id \notin ids
           /\ n \in graph'
           /\ \A m \in graph : m.subgraphId = n.subgraphId =>
                  m \in graph \ before /\ m \in graph'
<1>1. graph \in SUBSET WorkNode /\ Keyed(graph) /\ LinksClosed(graph)
    BY DEF TypeOK, LinksStayInSubgraph, LinksClosed
<1>2. UpdateOf(graph, graph', w, stub, before, sources, ids, after)
    BY DEF Update
<1> QED
    BY <1>1, <1>2, UnreadByUpdate

\* A match is an update.
LEMMA MatchUpdates ==
    ASSUME NEW w \in Works, NEW i \in 1..Len(Revisions[w]), Match(w, i)
    PROVE  \E stub, before, sources, ids, after :
               stub \in WorkStub /\ Update(w, stub, before, sources, ids, after)
BY RevisionType DEF Match, Update, UpdateOf

\* An update keeps both ends of every link together.
LEMMA UpdateKeepsLinks ==
    ASSUME TypeOK, LinksStayInSubgraph,
           NEW w \in Works, NEW stub \in WorkStub,
           NEW before, NEW sources, NEW ids, NEW after,
           Update(w, stub, before, sources, ids, after)
    PROVE  LinksStayInSubgraph'
<1>1. graph \in SUBSET WorkNode /\ Keyed(graph) /\ LinksClosed(graph)
    BY DEF TypeOK, LinksStayInSubgraph, LinksClosed
<1>2. UpdateOf(graph, graph', w, stub, before, sources, ids, after)
    BY DEF Update
<1>3. LinksClosed(graph')
    BY <1>1, <1>2, LinksOfUpdate
<1> QED
    BY <1>3 DEF LinksStayInSubgraph, LinksClosed, WithSource

\* Both ends of every link are in one subgraph, so that reading the subgraphs
\* of the ids of an update is reading everything the update can touch.
THEOREM SubgraphsHoldTheirLinks == Spec => []LinksStayInSubgraph
<1>1. Init => LinksStayInSubgraph
    BY DEF Init, LinksStayInSubgraph, WithSource
<1>2. TypeOK /\ LinksStayInSubgraph /\ [Next]_graph => LinksStayInSubgraph'
    <2> SUFFICES ASSUME TypeOK, LinksStayInSubgraph, [Next]_graph
                 PROVE  LinksStayInSubgraph'
        OBVIOUS
    <2>1. CASE UNCHANGED graph
        BY <2>1 DEF LinksStayInSubgraph, WithSource
    <2>2. ASSUME NEW w \in Works, NEW i \in 1..Len(Revisions[w]), Match(w, i)
          PROVE  LinksStayInSubgraph'
        BY <2>2, MatchUpdates, UpdateKeepsLinks
    <2> QED
        BY <2>1, <2>2 DEF Next
<1> QED
    BY <1>1, <1>2, SerialTypeCorrect, PTL DEF Spec

----------------------------------------------------------------------------
(***************************************************************************)
(* An update changes what the table knows of one work, to something that   *)
(* is not older.                                                           *)
(***************************************************************************)

\* What the table says of a work other than w survives an update of w.
LEMMA UpdateKeepsOthers ==
    ASSUME TypeOK, LinksStayInSubgraph,
           NEW w \in Works, NEW stub \in WorkStub,
           NEW before, NEW sources, NEW ids, NEW after,
           Update(w, stub, before, sources, ids, after),
           NEW n \in WithSource(graph), n.id # w
    PROVE  \E p \in graph' : p.id = n.id /\ p.sourceWork = n.sourceWork
<1>1. before \in SUBSET WorkNode /\ Keyed(before) /\ after \subseteq graph'
    BY UpdateWrites
<1>2. CASE n \in before
    <2>1. n \in sources
        BY <1>1, <1>2, SourcesOfUpdate DEF Update, UpdateOf, WithSource
    <2>2. \E p \in WithSource(after) : p.id = n.id /\ p.sourceWork = n.sourceWork
        BY <1>1, <2>1, RowsOfUpdate DEF Update, UpdateOf
    <2> QED
        BY <1>1, <2>2 DEF WithSource
<1>3. CASE n \notin before
    BY <1>3, UnreadRows DEF WithSource
<1> QED
    BY <1>2, <1>3

\* No update ever takes back, or changes in passing, what another update has
\* stored.
THEOREM UpdatesAreIndependent == Spec => OnlyTheMatchedWorkChanges
<1> DEFINE Keeps(n, m) ==
        \/ m.sourceWork = n.sourceWork
        \/ /\ m.sourceWork # NoSource
           /\ m.sourceWork.version >= n.sourceWork.version
           /\ \A o \in WithSource(graph) \ {n} :
                  \E p \in graph' : p.id = o.id /\ p.sourceWork = o.sourceWork
           Step == \A n \in WithSource(graph) :
                       \A m \in {r \in graph' : r.id = n.id} : Keeps(n, m)
<1>1. ASSUME TypeOK, LinksStayInSubgraph,
             NEW w \in Works, NEW i \in 1..Len(Revisions[w]), Match(w, i)
      PROVE  Step
    <2>1. PICK stub, before, sources, ids, after :
              stub \in WorkStub /\ Update(w, stub, before, sources, ids, after)
        BY <1>1, MatchUpdates
    <2> SUFFICES ASSUME NEW n \in WithSource(graph), NEW m \in graph', m.id = n.id
                 PROVE  Keeps(n, m)
        OBVIOUS
    <2>2. TypeOK' /\ n \in graph /\ n.sourceWork # NoSource /\ n \in WorkNode
        BY <1>1, MatchType DEF TypeOK, WithSource
    <2>3. CASE n.id # w
        <3>1. PICK p \in graph' : p.id = n.id /\ p.sourceWork = n.sourceWork
            BY <1>1, <2>1, <2>3, UpdateKeepsOthers
        <3> QED
            BY <2>2, <3>1 DEF TypeOK, Keyed
    <2>4. CASE n.id = w
        <3>1. \A o \in WithSource(graph) \ {n} :
                  \E p \in graph' : p.id = o.id /\ p.sourceWork = o.sourceWork
            <4>1. \A o \in WithSource(graph) \ {n} : o.id # w
                BY <1>1, <2>2, <2>4 DEF TypeOK, Keyed, WithSource
            <4> QED
                BY <1>1, <2>1, <4>1, UpdateKeepsOthers
        <3>2. before \in SUBSET WorkNode /\ Keyed(before)
            BY <1>1, <2>1, UpdateWrites
        <3>3. \E s \in sources : s.id = w /\ s.sourceWork = SourceData(w, stub)
            BY <2>1, <3>2, SourcesOfUpdate DEF Update, UpdateOf
        <3>4. PICK q \in WithSource(after) :
                  q.id = w /\ q.sourceWork = SourceData(w, stub)
            BY <2>1, <3>2, <3>3, RowsOfUpdate DEF Update, UpdateOf
        <3>5. m.sourceWork = SourceData(w, stub)
            <4>1. q \in graph'
                BY <1>1, <2>1, <3>4, UpdateWrites DEF WithSource
            <4> QED
                BY <2>2, <2>4, <3>4, <4>1 DEF TypeOK, Keyed
        <3>6. n \in WithSource(before)
            <4>1. w \in ids
                BY <2>1, <3>2, <3>3, RowsOfUpdate DEF Update, UpdateOf
            <4>2. n \in before
                BY <1>1, <2>1, <2>2, <2>4, <4>1, UpdateWrites
            <4> QED
                BY <2>2, <4>2 DEF WithSource
        <3>7. ~(n.sourceWork.version > stub.version)
            BY <2>1, <2>4, <3>6 DEF Update, UpdateOf, VersionConflict
        <3>8. n.sourceWork.version \in Nat /\ stub.version \in Nat
            BY <2>1, <2>2 DEF WorkNode, SourceWorkData, WorkStub
        <3>9. m.sourceWork # NoSource /\ m.sourceWork.version = stub.version
            BY <3>4, <3>5 DEF SourceData, WithSource
        <3> QED
            BY <3>1, <3>7, <3>8, <3>9
    <2> QED
        BY <2>3, <2>4
<1>2. TypeOK /\ LinksStayInSubgraph /\ [Next]_graph => [Step]_graph
    BY <1>1 DEF Next
<1> QED
    BY <1>2, SerialTypeCorrect, SubgraphsHoldTheirLinks, PTL
    DEF Spec, OnlyTheMatchedWorkChanges

----------------------------------------------------------------------------
(***************************************************************************)
(* Components are connections.  Of the rows that an update writes, the     *)
(* live links of the whole table are the links the update computed with;   *)
(* for the others, nothing has changed.                                    *)
(***************************************************************************)

\* A component does not reach beyond its subgraph.
ComponentsStayInSubgraph ==
    \A n \in WithSource(graph) : \A c \in n.componentIds :
        \E m \in graph : m.id = c /\ m.subgraphId = n.subgraphId

\* An update leaves the live links of the subgraphs it does not read alone.
LEMMA UnreadLinks ==
    ASSUME TypeOK, LinksStayInSubgraph,
           NEW w \in Works, NEW stub \in WorkStub,
           NEW before, NEW sources, NEW ids, NEW after,
           Update(w, stub, before, sources, ids, after),
           NEW r \in graph \ before, NEW b \in Works
    PROVE  /\ LiveLink(r.id, b)' <=> LiveLink(r.id, b)
           /\ LiveLink(b, r.id)' <=> LiveLink(b, r.id)
<1>1. /\ TypeOK'
      /\ before \in SUBSET WorkNode /\ Keyed(before) /\ after \subseteq graph'
    <2>1. after \subseteq WorkNode /\ Keyed(after)
        BY UpdateWrites, RowsOfUpdate DEF Update, UpdateOf
    <2> QED
        BY <2>1, UpdateWrites, PutAllType DEF Update, UpdateOf, TypeOK
\* A row that is not read is the only row of its id, before and after.
<1>2. ASSUME NEW n \in graph \ before
      PROVE  /\ n \in graph'
             /\ \A m \in graph : m.id = n.id => m = n
             /\ \A m \in graph' : m.id = n.id => m = n
    BY <1>1, UnreadRows DEF TypeOK, Keyed
<1>3. ASSUME NEW n \in graph \ before
      PROVE  Suppressed(n.id)' <=> Suppressed(n.id)
    BY <1>2, <1>3 DEF Suppressed, WithSource
\* Both ends of a live link of an unread row are unread.
<1>4. ASSUME r \in WithSource(graph), b \in r.sourceWork.mergeCandidateIds
      PROVE  \E m \in graph \ before : m.id = b
    <2>1. PICK m \in graph : m.id = b /\ m.subgraphId = r.subgraphId
        BY <1>4 DEF LinksStayInSubgraph
    <2> QED
        BY <2>1, UnreadRows
<1>5. ASSUME NEW n \in WithSource(graph), r.id \in n.sourceWork.mergeCandidateIds
      PROVE  n \in graph \ before
    <2>1. PICK m \in graph : m.id = r.id /\ m.subgraphId = n.subgraphId
        BY <1>5 DEF LinksStayInSubgraph
    <2>2. m = r
        BY <1>2, <2>1
    <2> QED
        BY <2>1, <2>2, UnreadRows DEF WithSource
<1>6. ASSUME NEW n \in WithSource(graph'), r.id \in n.sourceWork.mergeCandidateIds
      PROVE  n \in graph \ before
    <2>1. CASE n.id \in ids
        <3>1. n \in WithSource(after)
            BY <2>1, UpdateWrites DEF WithSource
        <3>2. r.id \in ids
            BY <1>1, <1>6, <3>1, RowsOfUpdate DEF Update, UpdateOf
        <3> QED
            BY <3>2, UnreadRows
    <2>2. CASE n.id \notin ids
        BY <1>5, <1>6, <2>2, UpdateWrites DEF WithSource
    <2> QED
        BY <2>1, <2>2
<1>7. LiveLink(r.id, b)' <=> LiveLink(r.id, b)
    <2>1. ASSUME b \in r.sourceWork.mergeCandidateIds, r.sourceWork # NoSource
          PROVE  LiveLink(r.id, b)' <=> LiveLink(r.id, b)
        <3>1. PICK m \in graph \ before : m.id = b
            BY <1>4, <2>1 DEF WithSource
        <3>2. Suppressed(b)' <=> Suppressed(b)
            BY <1>3, <3>1
        <3> QED
            BY <1>2, <1>3, <3>2 DEF LiveLink, WithSource
    <2>2. ASSUME ~(b \in r.sourceWork.mergeCandidateIds /\ r.sourceWork # NoSource)
          PROVE  ~LiveLink(r.id, b)' /\ ~LiveLink(r.id, b)
        BY <1>2, <2>2 DEF LiveLink, WithSource
    <2> QED
        BY <2>1, <2>2
<1>8. LiveLink(b, r.id)' <=> LiveLink(b, r.id)
    <2>1. ASSUME NEW m \in graph \ before, m.id = b
          PROVE  LiveLink(b, r.id)' <=> LiveLink(b, r.id)
        BY <1>2, <1>3, <2>1 DEF LiveLink, WithSource
    <2>2. ASSUME \A m \in graph \ before : m.id # b
          PROVE  ~LiveLink(b, r.id)' /\ ~LiveLink(b, r.id)
        BY <1>5, <1>6, <2>2 DEF LiveLink
    <2> QED
        BY <2>1, <2>2
<1> QED
    BY <1>7, <1>8

\* Of an id that an update writes, the live links are those of the update.
LEMMA WrittenLinks ==
    ASSUME TypeOK, LinksStayInSubgraph,
           NEW w \in Works, NEW stub \in WorkStub,
           NEW before, NEW sources, NEW ids, NEW after,
           Update(w, stub, before, sources, ids, after),
           NEW a \in Works, NEW b \in Works, a \in ids \/ b \in ids
    PROVE  /\ LiveLink(a, b)' <=> <<a, b>> \in UnsuppressedLinks(sources)
           /\ LiveLink(a, b)' => a \in ids /\ b \in ids
<1>1. before \in SUBSET WorkNode /\ Keyed(before) /\ after \subseteq graph'
    BY UpdateWrites
\* What the new table says of the ids is what the sources say.
<1>2. \A n \in WithSource(graph') : n.id \in ids =>
          \E s \in sources : s.id = n.id /\ s.sourceWork = n.sourceWork
    <2>1. \A n \in WithSource(graph') : n.id \in ids => n \in WithSource(after)
        BY UpdateWrites DEF WithSource
    <2> QED
        BY <1>1, <2>1, RowsOfUpdate DEF Update, UpdateOf
<1>3. \A s \in sources : \E n \in WithSource(graph') :
          n.id = s.id /\ s.sourceWork = n.sourceWork
    <2>1. \A n \in WithSource(after) : n \in WithSource(graph')
        BY <1>1 DEF WithSource
    <2> QED
        BY <1>1, <2>1, RowsOfUpdate DEF Update, UpdateOf
<1>4. \A s \in sources : s.id \in ids /\ s.sourceWork.mergeCandidateIds \subseteq ids
    BY <1>1, RowsOfUpdate DEF Update, UpdateOf
<1>5. \A k \in ids : Suppressed(k)' <=> IsSuppressed(k, sources)
    BY <1>2, <1>3 DEF Suppressed, IsSuppressed
\* A link of a row that is not written leads to no id.
<1>6. ASSUME NEW n \in WithSource(graph'), n.id \notin ids,
             b \in n.sourceWork.mergeCandidateIds
      PROVE  b \notin ids
    <2>1. n \in WithSource(graph) /\ n \in graph \ before
        BY <1>6, UpdateWrites DEF WithSource
    <2>2. PICK m \in graph : m.id = b /\ m.subgraphId = n.subgraphId
        BY <1>6, <2>1 DEF LinksStayInSubgraph
    <2> QED
        BY <2>1, <2>2, UnreadRows
<1>7. LiveLink(a, b)' => a \in ids /\ b \in ids
    BY <1>2, <1>4, <1>6 DEF LiveLink
<1>8. ASSUME a \in ids, b \in ids
      PROVE  LiveLink(a, b)' <=> <<a, b>> \in UnsuppressedLinks(sources)
    <2>1. <<a, b>> \in UnsuppressedLinks(sources) <=>
              /\ \E s \in sources : s.id = a /\ b \in s.sourceWork.mergeCandidateIds
              /\ ~IsSuppressed(a, sources)
              /\ ~IsSuppressed(b, sources)
        BY DEF UnsuppressedLinks
    <2>2. LiveLink(a, b)' <=>
              /\ \E n \in WithSource(graph') :
                     n.id = a /\ b \in n.sourceWork.mergeCandidateIds
              /\ ~Suppressed(a)'
              /\ ~Suppressed(b)'
        BY DEF LiveLink
    <2> QED
        BY <1>2, <1>3, <1>5, <1>8, <2>1, <2>2
<1>9. <<a, b>> \in UnsuppressedLinks(sources) => a \in ids /\ b \in ids
    BY <1>4 DEF UnsuppressedLinks
<1> QED
    BY <1>7, <1>8, <1>9

\* The component of a row is connected by live links, which do not leave it.
Connected(n) ==
    LET component == n.componentIds
    IN  /\ n.id \in component
        /\ \A a \in component, b \in Works \ component :
               ~LiveLink(a, b) /\ ~LiveLink(b, a)
        /\ \A S \in (SUBSET component) \ {{}, component} :
               \E a \in S, b \in component \ S :
                   LiveLink(a, b) \/ LiveLink(b, a)

\* The component of a row that an update writes is the one it computed.
LEMMA WrittenComponent ==
    ASSUME TypeOK, LinksStayInSubgraph,
           NEW w \in Works, NEW stub \in WorkStub,
           NEW before, NEW sources, NEW ids, NEW after,
           Update(w, stub, before, sources, ids, after),
           NEW n \in after
    PROVE  /\ Connected(n)'
           /\ \A c \in n.componentIds :
                  \E m \in graph' : m.id = c /\ m.subgraphId = n.subgraphId
<1> DEFINE links == UnsuppressedLinks(sources)
           C == n.componentIds
<1>1. before \in SUBSET WorkNode /\ Keyed(before) /\ after \subseteq graph'
    BY UpdateWrites
<1>2. /\ ids \subseteq Works
      /\ \A s \in sources : s.id \in ids /\ s.sourceWork.mergeCandidateIds \subseteq ids
      /\ \A k \in ids : \E m \in after : m.id = k
      /\ \A m \in after : m.subgraphId = ids
      /\ n.id \in ids
      /\ C = Component(n.id, ids, links)
    BY <1>1, RowsOfUpdate DEF Update, UpdateOf
<1>3. \A l \in links : /\ l \in Works \X Works
                       /\ l[1] \in ids /\ l[2] \in ids
                       /\ l = <<l[1], l[2]>>
    BY <1>2 DEF UnsuppressedLinks
<1> HIDE DEF links
<1>4. /\ n.id \in C
      /\ C \subseteq ids
      /\ \A l \in links : l[1] \in C <=> l[2] \in C
      /\ \A S \in (SUBSET C) \ {{}, C} : \E l \in links :
             \/ l[1] \in S /\ l[2] \in C \ S
             \/ l[2] \in S /\ l[1] \in C \ S
    BY <1>2, <1>3, ComponentIsConnected
<1>5. ASSUME NEW a \in Works, NEW b \in Works, a \in ids \/ b \in ids
      PROVE  LiveLink(a, b)' <=> <<a, b>> \in links
    BY <1>5, WrittenLinks DEF links
<1>6. ASSUME NEW a \in C, NEW b \in Works \ C
      PROVE  ~LiveLink(a, b)' /\ ~LiveLink(b, a)'
    <2>1. a \in ids /\ a \in Works
        BY <1>2, <1>4
    <2>2. <<a, b>> \notin links
        <3>1. <<a, b>>[1] = a /\ <<a, b>>[2] = b
            OBVIOUS
        <3> QED
            BY <1>4, <1>6, <3>1
    <2>3. <<b, a>> \notin links
        <3>1. <<b, a>>[1] = b /\ <<b, a>>[2] = a
            OBVIOUS
        <3> QED
            BY <1>4, <1>6, <3>1
    <2> QED
        BY <1>5, <2>1, <2>2, <2>3
<1>7. ASSUME NEW S \in (SUBSET C) \ {{}, C}
      PROVE  \E a \in S, b \in C \ S : LiveLink(a, b)' \/ LiveLink(b, a)'
    <2>1. PICK l \in links : \/ l[1] \in S /\ l[2] \in C \ S
                             \/ l[2] \in S /\ l[1] \in C \ S
        BY <1>4
    <2>2. LiveLink(l[1], l[2])'
        BY <1>2, <1>3, <1>5, <2>1
    <2> QED
        BY <2>1, <2>2
<1>8. Connected(n)'
    BY <1>4, <1>6, <1>7 DEF Connected
<1>9. \A c \in C : \E m \in graph' : m.id = c /\ m.subgraphId = n.subgraphId
    BY <1>1, <1>2, <1>4
<1> QED
    BY <1>8, <1>9

\* A row that an update does not read keeps its component.
LEMMA UnreadComponent ==
    ASSUME TypeOK, LinksStayInSubgraph, ComponentsStayInSubgraph,
           NEW w \in Works, NEW stub \in WorkStub,
           NEW before, NEW sources, NEW ids, NEW after,
           Update(w, stub, before, sources, ids, after),
           NEW n \in graph \ before, n \in WithSource(graph), Connected(n)
    PROVE  /\ Connected(n)'
           /\ \A c \in n.componentIds :
                  \E m \in graph' : m.id = c /\ m.subgraphId = n.subgraphId
<1> DEFINE C == n.componentIds
<1>1. ASSUME NEW c \in C
      PROVE  \E m \in graph \ before :
                 m.id = c /\ m.subgraphId = n.subgraphId /\ m \in graph'
    <2>1. PICK m \in graph : m.id = c /\ m.subgraphId = n.subgraphId
        BY DEF ComponentsStayInSubgraph
    <2> QED
        BY <2>1, UnreadRows
<1>2. ASSUME NEW a \in C, NEW b \in Works
      PROVE  /\ LiveLink(a, b)' <=> LiveLink(a, b)
             /\ LiveLink(b, a)' <=> LiveLink(b, a)
    <2>1. PICK r \in graph \ before : r.id = a
        BY <1>1
    <2> QED
        BY <2>1, UnreadLinks
<1>3. C \subseteq Works
    BY DEF TypeOK, WorkNode
<1>4. Connected(n)'
    BY <1>2, <1>3 DEF Connected
<1> QED
    BY <1>1, <1>4

\* An update keeps the components connected, and inside their subgraphs.
LEMMA UpdateKeepsComponents ==
    ASSUME TypeOK, LinksStayInSubgraph,
           ComponentsStayInSubgraph, ComponentsAreConnections,
           NEW w \in Works, NEW stub \in WorkStub,
           NEW before, NEW sources, NEW ids, NEW after,
           Update(w, stub, before, sources, ids, after)
    PROVE  ComponentsStayInSubgraph' /\ ComponentsAreConnections'
<1>1. ASSUME NEW n \in WithSource(graph')
      PROVE  /\ Connected(n)'
             /\ \A c \in n.componentIds :
                    \E m \in graph' : m.id = c /\ m.subgraphId = n.subgraphId
    <2>1. CASE n.id \in ids
        <3>1. n \in after
            BY <2>1, UpdateWrites DEF WithSource
        <3> QED
            BY <3>1, WrittenComponent
    <2>2. CASE n.id \notin ids
        <3>1. n \in WithSource(graph) /\ n \in graph \ before
            BY <2>2, UpdateWrites DEF WithSource
        <3>2. Connected(n)
            BY <3>1 DEF ComponentsAreConnections, Connected
        <3> QED
            BY <3>1, <3>2, UnreadComponent
    <2> QED
        BY <2>1, <2>2
<1>2. \A n \in WithSource(graph') : Connected(n)'
    BY <1>1
<1>3. ComponentsAreConnections'
    BY <1>2 DEF ComponentsAreConnections, Connected, WithSource
<1> QED
    BY <1>1, <1>3 DEF ComponentsStayInSubgraph, WithSource

\* The groups that the matcher stores, and reports to the merger, are the
\* connected components of the works' own links, whatever the order of the
\* updates, and however often groups were joined and split.
THEOREM GroupsAreConnections == Spec => []ComponentsAreConnections
<1> DEFINE Components == ComponentsStayInSubgraph /\ ComponentsAreConnections
<1>1. Init => Components
    BY DEF Init, ComponentsStayInSubgraph, ComponentsAreConnections, WithSource
<1>2. TypeOK /\ LinksStayInSubgraph /\ Components /\ [Next]_graph => Components'
    <2> SUFFICES ASSUME TypeOK, LinksStayInSubgraph, Components, [Next]_graph
                 PROVE  Components'
        OBVIOUS
    <2>1. CASE UNCHANGED graph
        <3>1. ComponentsStayInSubgraph'
            BY <2>1 DEF ComponentsStayInSubgraph, WithSource
        <3>2. ASSUME NEW a, NEW b PROVE LiveLink(a, b)' <=> LiveLink(a, b)
            BY <2>1 DEF LiveLink, Suppressed, WithSource
        <3>3. \A n \in WithSource(graph) : Connected(n)
            BY DEF ComponentsAreConnections, Connected
        <3>4. \A n \in WithSource(graph) : Connected(n)'
            BY <3>2, <3>3 DEF Connected
        <3>5. WithSource(graph)' = WithSource(graph)
            BY <2>1 DEF WithSource
        <3>6. ComponentsAreConnections'
            BY <3>4, <3>5 DEF ComponentsAreConnections, Connected
        <3> QED
            BY <3>1, <3>6
    <2>2. ASSUME NEW w \in Works, NEW i \in 1..Len(Revisions[w]), Match(w, i)
          PROVE  Components'
        <3>1. PICK stub, before, sources, ids, after :
                  stub \in WorkStub /\ Update(w, stub, before, sources, ids, after)
            BY <2>2, MatchUpdates
        <3> QED
            BY <3>1, UpdateKeepsComponents
    <2> QED
        BY <2>1, <2>2 DEF Next
<1> QED
    BY <1>1, <1>2, SerialTypeCorrect, SubgraphsHoldTheirLinks, PTL DEF Spec
=============================================================================
