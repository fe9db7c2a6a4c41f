--------------------------- MODULE SerialMatcher ---------------------------
(***************************************************************************)
(* What the matcher promises: the graph table is always the result of      *)
(* whole updates applied one after another, as if there were one matcher   *)
(* and nothing ever happened between its reads and its writes.             *)
(***************************************************************************)
EXTENDS WorkGraph

VARIABLE graph      \* the rows of the graph table

\* The whole of WorkMatcher.matchWork, at once, for the i-th revision of w.
Match(w, i) ==
    LET stub   == Revisions[w][i]
        before == FindAffectedWorks(graph, StubIds(w, stub))
    IN  /\ ~VersionConflict(w, stub, before)
        /\ graph' = PutAll(graph, AfterNodes(w, stub, before))

Init == graph = {}

Next == \E w \in Works : \E i \in 1..Len(Revisions[w]) : Match(w, i)

Spec == Init /\ [][Next]_graph

----------------------------------------------------------------------------
TypeOK == graph \subseteq WorkNode /\ Keyed(graph)

Suppressed(id) ==
    \E n \in WithSource(graph) : n.id = id /\ n.sourceWork.suppressed

\* a names b as a merge candidate, and neither is suppressed.
LiveLink(a, b) ==
    /\ \E n \in WithSource(graph) :
           n.id = a /\ b \in n.sourceWork.mergeCandidateIds
    /\ ~Suppressed(a)
    /\ ~Suppressed(b)

\* Every work a stored work links to has a row in the same subgraph, so that
\* one lookup by subgraph finds both ends of every link: what
\* findAffectedWorks and the shared subgraphId of WorkGraphUpdater rely on.
LinksStayInSubgraph ==
    \A n \in WithSource(graph) : \A c \in n.sourceWork.mergeCandidateIds :
        \E m \in graph : m.id = c /\ m.subgraphId = n.subgraphId

\* The stored components are the connected components of the live links of the
\* whole table, whichever way the links point: no link leaves a component, and
\* every way of cutting a component in two cuts a link.  They depend only on
\* what each work says of itself, not on the order in which the updates came
\* (matcher README: "a single graph, regardless of which one of the three
\* documents is currently being processed").
ComponentsAreConnections ==
    \A n \in WithSource(graph) :
        LET component == n.componentIds
        IN  /\ n.id \in component
            /\ \A a \in component, b \in Works \ component :
                   ~LiveLink(a, b) /\ ~LiveLink(b, a)
            /\ \A S \in (SUBSET component) \ {{}, component} :
                   \E a \in S, b \in component \ S :
                       LiveLink(a, b) \/ LiveLink(b, a)

\* An update of one work never changes what the table knows of another, and
\* never puts back an older version: WorkGraphUpdater rewrites every row of
\* the subgraph, and checkVersionConflicts refuses older updates.
OnlyTheMatchedWorkChanges ==
    [][\A n \in WithSource(graph) : \A m \in {r \in graph' : r.id = n.id} :
          \/ m.sourceWork = n.sourceWork
          \/ /\ m.sourceWork # NoSource
             /\ m.sourceWork.version >= n.sourceWork.version
             /\ \A o \in WithSource(graph) \ {n} :
                    \E p \in graph' : p.id = o.id /\ p.sourceWork = o.sourceWork
      ]_graph
=============================================================================
