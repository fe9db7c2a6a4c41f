----------------------------- MODULE WorkGraph -----------------------------
(***************************************************************************)
(* The matcher's graph of works: what one update does to the nodes it      *)
(* affects (workgraph/WorkGraphUpdater.scala), and the groups of works     *)
(* that are reported to the merger (WorkMatcher.toMatchedIdentifiers).     *)
(* Everything here is a pure function of its arguments.                    *)
(*                                                                         *)
(* A subgraph id is the SHA-256 of the sorted ids of its works; the model  *)
(* keeps the set of ids itself, which the hash identifies.  Lists that the *)
(* code keeps sorted (componentIds, mergeCandidateIds) are sets.           *)
(***************************************************************************)
EXTENDS Naturals, Sequences

CONSTANTS
    Works,      \* the canonical ids
    NoSource,   \* "sourceWork = None": the work has been linked to, not seen
    Revisions   \* Revisions[w]: the successive contents of work w

\* What the matcher fetches from works-identified for one work.  "other" is
\* all of the document's state that matching does not look at.
WorkStub == [version : Nat, suppressed : BOOLEAN,
             mergeCandidates : SUBSET Works, other : Nat]

ASSUME RevisionsAssumption ==
    /\ Revisions \in [Works -> Seq(WorkStub)]
    \* A work's version follows its source's modified time, and the sink never
    \* replaces a document by one with an earlier such time.
    /\ \A w \in Works : \A i, j \in 1..Len(Revisions[w]) :
           i < j => Revisions[w][i].version <= Revisions[w][j].version

SourceWorkData == [version : Nat, suppressed : BOOLEAN,
                   mergeCandidateIds : SUBSET Works]

\* A row of the graph table.
WorkNode == [id : Works, subgraphId : SUBSET Works,
             componentIds : SUBSET Works,
             sourceWork : SourceWorkData \union {NoSource}]

\* A work that names itself as a merge candidate is not linked to itself.
MergeCandidateIds(w, stub) == stub.mergeCandidates \ {w}

\* The ids a stub talks about: its own and its merge candidates'.
StubIds(w, stub) == MergeCandidateIds(w, stub) \union {w}

SourceData(w, stub) ==
    [version |-> stub.version, suppressed |-> stub.suppressed,
     mergeCandidateIds |-> MergeCandidateIds(w, stub)]

ASSUME NoSourceAssumption == NoSource \notin SourceWorkData

WithSource(nodes) == {n \in nodes : n.sourceWork # NoSource}

\* A row's id is its key in the table.
Keyed(table) == \A m, n \in table : m.id = n.id => m = n

----------------------------------------------------------------------------
\* Mutant: only the rows of the ids themselves, not their subgraphs.
FindOnlyTheIds(table, ids) == {n \in table : n.id \in ids}

\* WorkGraphStore.findAffectedWorks: every row of the subgraphs the ids are in.
FindAffectedWorks(table, ids) ==
    {n \in table : \E m \in table : m.id \in ids /\ m.subgraphId = n.subgraphId}

\* Mutant: a put adds a row beside the one it should replace.
PutBeside(table, nodes) == table \union nodes

\* WorkNodeDao.put: a row replaces the row with its id.
PutAll(table, nodes) ==
    {n \in table : \A m \in nodes : m.id # n.id} \union nodes

----------------------------------------------------------------------------
(***************************************************************************)
(* WorkGraphUpdater.update                                                 *)
(***************************************************************************)

\* Mutant: versions are not compared.
NeverAConflict(w, stub, existing) == FALSE

\* An update that is older than the data already in the graph is refused; an
\* equal version is accepted whatever it says (last write wins).
VersionConflict(w, stub, existing) ==
    \E n \in WithSource(existing) :
        n.id = w /\ n.sourceWork.version > stub.version

\* The nodes the update starts from: the existing ones, the updated work's
\* own node replaced by its new data.
AllWorks(w, stub, existing) ==
    {n \in existing : n.id # w}
        \union {[id |-> w, subgraphId |-> {w}, componentIds |-> {w},
                 sourceWork |-> SourceData(w, stub)]}

IsSuppressed(id, sources) ==
    \E n \in sources : n.id = id /\ n.sourceWork.suppressed

\* Mutant: links to a suppressed work are kept.
LinksFromUnsuppressed(sources) ==
    {l \in Works \X Works :
        /\ \E n \in sources : /\ n.id = l[1]
                              /\ l[2] \in n.sourceWork.mergeCandidateIds
        /\ ~IsSuppressed(l[1], sources)}

\* Links are dropped when either end is suppressed, so that nothing is matched
\* "through" a suppressed work.
UnsuppressedLinks(sources) ==
    {l \in Works \X Works :
        /\ \E n \in sources : /\ n.id = l[1]
                              /\ l[2] \in n.sourceWork.mergeCandidateIds
        /\ ~IsSuppressed(l[1], sources)
        /\ ~IsSuppressed(l[2], sources)}

\* Every work of the subgraph: those with source data and those they link to.
WorkIds(sources) ==
    {n.id : n \in sources}
        \union UNION {n.sourceWork.mergeCandidateIds : n \in sources}

\* The connected component of id: the smallest set of ids that holds it and
\* that no link enters or leaves.
Component(id, ids, links) ==
    {m \in ids : \A S \in SUBSET ids :
        (id \in S /\ \A l \in links : l[1] \in S <=> l[2] \in S) => m \in S}

\* WorkSubgraph.create.  A work no source links to any more is not in the
\* result: its old row stays in the table as it was.
AfterNodes(w, stub, existing) ==
    LET sources == WithSource(AllWorks(w, stub, existing))
        ids     == WorkIds(sources)
        links   == UnsuppressedLinks(sources)
        source  == [i \in ids |->
                       IF \E n \in sources : n.id = i
                       THEN (CHOOSE n \in sources : n.id = i).sourceWork
                       ELSE NoSource]
    IN  {[id |-> i, subgraphId |-> ids,
          componentIds |-> Component(i, ids, links),
          sourceWork |-> source[i]] : i \in ids}

----------------------------------------------------------------------------
(***************************************************************************)
(* WorkMatcher.toMatchedIdentifiers: the nodes grouped by component, the   *)
(* placeholders left out, the empty groups dropped.                        *)
(***************************************************************************)
WorkIdentifiers(nodes) ==
    {<<n.id, n.sourceWork.version>> : n \in WithSource(nodes)}

MatchedIdentifiers(nodes) ==
    {WorkIdentifiers({n \in nodes : n.componentIds = c}) :
        c \in {n.componentIds : n \in nodes}} \ {{}}
=============================================================================
