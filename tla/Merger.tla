------------------------------- MODULE Merger -------------------------------
(***************************************************************************)
(* The merger behind the matcher: lambdas take batches of matcher results  *)
(* from a queue that neither keeps their order nor delivers them once,     *)
(* fetch the works of every group as they are by then, merge them          *)
(* (MergeRules), index works and images under the creation time of the     *)
(* result, and announce the images (MergerSQSLambda, MergeProcessor,       *)
(* IdentifiedWorkLookup, EitherIndexer, ElasticIndexer).                   *)
(*                                                                         *)
(* The matcher is what SerialMatcher promises: its matches happen one      *)
(* after another, and results are created in that order.                   *)
(***************************************************************************)
EXTENDS WorkGraph, MergeRules

CONSTANTS
    Contents,   \* Contents[w]: the successive works that w is, as merged
    Scenarios,  \* which works are published, how large a batch may be, and the
                \* orders in which a message may have the works of its groups,
                \* which are sets
    Lambdas,
    MaxFaults,
    FaultKinds

\* The stub that the matcher makes of a work.
StubOf(work) ==
    [version |-> work.version, suppressed |-> Deleted(work),
     mergeCandidates |-> Ids(ToSet(work.candidates)), other |-> 0]

\* The ids of the documents that are made of w: its own, and those of its parts,
\* the inner works.
PartsOf(w) ==
    {w} \union UNION {Contents[w][i].stubs \union Contents[w][i].removed :
                          i \in DOMAIN Contents[w]}

ASSUME ContentsAssumption ==
    /\ \A w \in Works :
           /\ Contents[w] \in Seq(ToSet(Contents[w]))
           /\ \A c \in ToSet(Contents[w]) :
                  /\ {"id", "place", "status", "stubs", "removed"} \subseteq DOMAIN c
                  /\ c.id = w /\ c.status # "redirected"
                  /\ w \notin c.stubs \union c.removed
                  \* See TeiTransformer.scala:76.
                  /\ c.stubs \intersect c.removed = {}
    /\ Revisions =
           [w \in Works |-> [i \in DOMAIN Contents[w] |-> StubOf(Contents[w][i])]]
ASSUME MergerAssumption ==
    /\ \A s \in Scenarios :
           /\ s.works \subseteq Works /\ IsFiniteSet(s.works)
           \* Parts do not move from one work to another (see Merger.scala:281).
           /\ \A v, w \in s.works : PartsOf(v) \intersect PartsOf(w) # {} => v = w
           /\ s.maxBatch \in Nat \ {0}
           /\ \A order \in s.orders : \A ids \in SUBSET s.works :
                  order[ids] \in SetToSeqs(ids)
    /\ MaxFaults \in Nat
    /\ FaultKinds \subseteq
           {"fetch",       \* the multiget of a group fails
            "document",    \* Elasticsearch refuses a document
            "call",        \* a bulk call fails as a whole, or the lambda dies
            "redelivery",  \* SQS delivers a message twice
            "notify"}      \* SNS does not take the notification of an image

VARIABLES
    scenario,   \* the one of Scenarios that is played
    index,      \* index[w]: the revision of w in works-identified, 0 if none
    graph,      \* the matcher's table
    unmatched,  \* the works that wait for the matcher
    clock,      \* the creation time of the last result
    queue,      \* the messages with a result in the queue
    lambda,     \* the state of every lambda
    stored,     \* the documents of works-denormalised and images-initial
    untold,     \* the images stored since they were last announced
    unheard,    \* whether a notification was refused
    faults      \* how many faults there have been

vars ==
    <<scenario, index, graph, unmatched, clock, queue, lambda, stored, untold,
      unheard, faults>>

IdleLambda == [batch |-> {}, toFetch |-> {}, docs |-> {}, toIndex |-> {},
               refused |-> {}, unmerged |-> {}]

Init ==
    /\ scenario \in Scenarios
    /\ index = [w \in Works |-> 0]
    /\ graph = {}
    /\ unmatched = {}
    /\ clock = 0
    /\ queue = {}
    /\ lambda = [l \in Lambdas |-> IdleLambda]
    /\ stored = {}
    /\ untold = {}
    /\ unheard = FALSE
    /\ faults = 0

----------------------------------------------------------------------------
\* A document as the indexer gets it; its version is the time of its result.
Document(kind, id, version, doc) ==
    [kind |-> kind, id |-> id, version |-> version, doc |-> doc]

Documents(outcome, time) ==
    {Document("work", d.id, time, d) : d \in outcome.works}
        \union {Document("image", i.image, time, i) : i \in outcome.images}

\* The works with these ids, at the given revisions, in this order.
WorksAt(order, revision) ==
    {[Contents[order[k]][revision[order[k]]] EXCEPT !.place = k] : k \in DOMAIN order}

IdsOf(group) == {i[1] : i \in group}

\* Merge, for every group there can be: a constant, that TLC computes once.
Merged ==
    [works \in UNION {{WorksAt(order, revision) : order \in SetToSeqs(ids), revision \in
                  {r \in [ids -> UNION {DOMAIN Contents[w] : w \in ids}] :
                      \A w \in ids : r[w] \in DOMAIN Contents[w]}} :
                  ids \in (UNION {SUBSET s.works : s \in Scenarios}) \ {{}}} |-> Merge(works)]

SameKey(d, e) == d.kind = e.kind /\ d.id = e.id

\* Mutant: a document is stored beside the one it should replace.
PutBesideIt(docs, d) == docs \union {d}

\* Mutant: the last write wins.
PutAlways(docs, d) == {e \in docs : ~SameKey(d, e)} \union {d}

\* External_gte versions: a document never replaces one of a later time, and
\* the conflict counts as a success.
PutDocument(docs, d) ==
    IF \E e \in docs : SameKey(d, e) /\ e.version > d.version THEN docs
    ELSE {e \in docs : ~SameKey(d, e)} \union {d}

----------------------------------------------------------------------------
\* The id minter writes the next revision of w and sends its id.
Publish(w) ==
    /\ w \in scenario.works
    /\ index[w] < Len(Contents[w])
    /\ index' = [index EXCEPT ![w] = @ + 1]
    /\ unmatched' = unmatched \union {w}
    /\ UNCHANGED <<scenario, graph, clock, queue, lambda, stored, untold, unheard, faults>>

\* The message with a result that is created at time t.  Its groups stay in this
\* order when it is delivered again.
MatcherResult(groups, order, t) ==
    [createdTime |-> t, works |-> {order[IdsOf(g)] : g \in groups}]

\* The matcher matches w as it is now, and sends the result.
Match(w) ==
    /\ w \in unmatched
    /\ clock' = clock + 1
    /\ LET stub   == Revisions[w][index[w]]
           before == FindAffectedWorks(graph, StubIds(w, stub))
           after  == AfterNodes(w, stub, before)
       IN  /\ ~VersionConflict(w, stub, before)
           /\ graph' = PutAll(graph, after)
           /\ \E order \in scenario.orders :
                  queue' = queue \union
                      {MatcherResult(MatchedIdentifiers(after), order, clock')}
    /\ unmatched' = unmatched \ {w}
    /\ UNCHANGED <<scenario, index, lambda, stored, untold, unheard, faults>>

\* A lambda takes a batch of messages, as SQS pleases.
Receive(l, batch) ==
    /\ lambda[l] = IdleLambda
    /\ batch # {}
    /\ Cardinality(batch) <= scenario.maxBatch
    /\ queue' = queue \ batch
    /\ lambda' = [lambda EXCEPT ![l] = [IdleLambda EXCEPT
           !.batch = batch,
           !.toFetch = UNION {{m.createdTime} \X m.works : m \in batch}]]
    /\ UNCHANGED <<scenario, index, graph, unmatched, clock, stored, untold, unheard, faults>>

\* getWorkSets and applyMerge for one group of one message: the works are merged
\* even when their versions are no longer the matched ones.
FetchAndMerge(l) ==
    /\ \E f \in lambda[l].toFetch :
           \E docs \in {Documents(Merged[WorksAt(f[2], index)], f[1])} :
               lambda' = [lambda EXCEPT ![l].toFetch = @ \ {f},
                                        ![l].docs = @ \union docs,
                                        ![l].toIndex = @ \union docs]
    /\ UNCHANGED <<scenario, index, graph, unmatched, clock, queue, stored, untold, unheard, faults>>

\* Mutant: the images wait for all works to be indexed.
ImagesWait(l) ==
    LET works == {d \in lambda[l].toIndex : d.kind = "work"}
    IN  IF works # {} THEN works
        ELSE {d \in lambda[l].toIndex : lambda[l].refused = {}}

\* The works of the batch are indexed before the images, each in any order
\* (the halves of a request that is too large are sent at the same time).
NextDocuments(l) ==
    LET works == {d \in lambda[l].toIndex : d.kind = "work"}
    IN  IF works # {} THEN works ELSE lambda[l].toIndex

IndexDocument(l) ==
    /\ lambda[l].toFetch = {}
    /\ \E d \in NextDocuments(l) :
           /\ stored' = PutDocument(stored, d)
           /\ untold' = IF d.kind = "image" /\ stored' # stored
                        THEN untold \union {d.id} ELSE untold
           /\ lambda' = [lambda EXCEPT ![l].toIndex = @ \ {d}]
    /\ UNCHANGED <<scenario, index, graph, unmatched, clock, queue, unheard, faults>>

\* The messages of a batch to try again: their own fetch failed, or a document
\* with one of their keys was refused.
Failed(l) ==
    {m \in lambda[l].batch :
        \/ m.createdTime \in lambda[l].unmerged
        \/ \E d \in lambda[l].docs :
               d.version = m.createdTime /\ <<d.kind, d.id>> \in lambda[l].refused}

\* Mutant: a batch is announced only when all of it was indexed.
AnnouncedIfNoneFailed(l) ==
    {d.id : d \in {e \in lambda[l].docs : e.kind = "image" /\ Failed(l) = {}}}

\* The images of the messages that are done with.
Announced(l) ==
    {d.id : d \in {e \in lambda[l].docs :
        e.kind = "image" /\ \A m \in Failed(l) : e.version # m.createdTime}}

\* The failed messages go back to the queue, the others are deleted.
EndBatch(l) ==
    /\ queue' = queue \union Failed(l)
    /\ lambda' = [lambda EXCEPT ![l] = IdleLambda]

Indexed(l) ==
    lambda[l].batch # {} /\ lambda[l].toFetch = {} /\ lambda[l].toIndex = {}

Finish(l) ==
    /\ Indexed(l)
    /\ EndBatch(l)
    /\ untold' = untold \ Announced(l)
    /\ UNCHANGED <<scenario, index, graph, unmatched, clock, stored, unheard, faults>>

----------------------------------------------------------------------------
Fault(kind) ==
    /\ kind \in FaultKinds
    /\ faults < MaxFaults
    /\ faults' = faults + 1

\* A failed fetch fails its own message only.
FetchFails(l) ==
    /\ Fault("fetch")
    /\ \E t \in {f[1] : f \in lambda[l].toFetch} :
           lambda' = [lambda EXCEPT
               ![l].toFetch = {f \in @ : f[1] # t},
               ![l].docs = {d \in @ : d.version # t},
               ![l].toIndex = {d \in @ : d.version # t},
               ![l].unmerged = @ \union {t}]
    /\ UNCHANGED <<scenario, index, graph, unmatched, clock, queue, stored, untold, unheard>>

\* Elasticsearch does not take a document (too large, or it has no room).
RefuseDocument(l) ==
    /\ Fault("document")
    /\ lambda[l].toFetch = {}
    /\ \E d \in NextDocuments(l) :
           lambda' = [lambda EXCEPT ![l].toIndex = @ \ {d},
                                    ![l].refused = @ \union {<<d.kind, d.id>>}]
    /\ UNCHANGED <<scenario, index, graph, unmatched, clock, queue, stored, untold, unheard>>

\* The call throws or the lambda dies, whatever has been indexed by then: every
\* message comes back.
CallFails(l) ==
    /\ Fault("call")
    /\ lambda[l].batch # {}
    /\ queue' = queue \union lambda[l].batch
    /\ lambda' = [lambda EXCEPT ![l] = IdleLambda]
    /\ UNCHANGED <<scenario, index, graph, unmatched, clock, stored, untold, unheard>>

\* A message is delivered again while the first delivery is still handled.
Redeliver(l) ==
    /\ Fault("redelivery")
    /\ \E m \in lambda[l].batch \ queue : queue' = queue \union {m}
    /\ UNCHANGED <<scenario, index, graph, unmatched, clock, lambda, stored, untold, unheard>>

\* What SNS answers is not looked at: the message is done with all the same.
NotifyFails(l) ==
    /\ Fault("notify")
    /\ Indexed(l)
    /\ EndBatch(l)
    /\ \E image \in Announced(l) : untold' = untold \ (Announced(l) \ {image})
    /\ unheard' = TRUE
    /\ UNCHANGED <<scenario, index, graph, unmatched, clock, stored>>

----------------------------------------------------------------------------
ReceiveAny(l) == \E batch \in SUBSET queue : Receive(l, batch)

LambdaStep(l) == FetchAndMerge(l) \/ IndexDocument(l) \/ Finish(l)

Next ==
    \/ \E w \in Works : Publish(w) \/ Match(w)
    \/ \E l \in Lambdas :
           \/ ReceiveAny(l)
           \/ LambdaStep(l)
           \/ FetchFails(l)
           \/ RefuseDocument(l)
           \/ CallFails(l)
           \/ Redeliver(l)
           \/ NotifyFails(l)

Spec == Init /\ [][Next]_vars

\* The most results there can be.
MaxResults ==
    Max({FoldSet(LAMBDA w, n : n + Len(Contents[w]), 0, s.works) : s \in Scenarios})

\* The matcher gets round to every work (a match is what takes a work from
\* unmatched), a message that stays in the queue is
\* received again and again, and a lambda goes on with what it has.
Fairness ==
    /\ \A w \in Works : WF_unmatched(unmatched' = unmatched \ {w})
    /\ \A l \in Lambdas : WF_vars(LambdaStep(l))
    /\ \A t \in 1..MaxResults :
           SF_vars(\E l \in Lambdas :
               ReceiveAny(l) /\ \E m \in lambda'[l].batch : m.createdTime = t)

FairSpec == Spec /\ Fairness

----------------------------------------------------------------------------
TypeOK ==
    /\ \A w \in Works : index[w] \in 0..Len(Contents[w])
    /\ graph \subseteq WorkNode
    /\ unmatched \subseteq {w \in Works : index[w] > 0}
    /\ clock \in Nat
    /\ \A m \in queue : m.createdTime \in 1..clock
    /\ \A l \in Lambdas :
           /\ \A m \in lambda[l].batch : m.createdTime \in 1..clock
           /\ lambda[l].toIndex \subseteq lambda[l].docs
    /\ \A d, e \in stored : SameKey(d, e) => d = e
    /\ untold \subseteq {d.id : d \in {e \in stored : e.kind = "image"}}
    /\ unheard \in BOOLEAN
    /\ faults \in 0..MaxFaults

\* The images and the works that a merge makes are stored.
IsStored(outcome) ==
    \A d \in Documents(outcome, 0) : \E e \in stored : SameKey(d, e) /\ e.doc = d.doc

\* The merge of the works of a group as they are now.
Current(order) == Merged[WorksAt(order, index)]

\* The stored documents are what the works as they are now, grouped as the
\* matcher groups them, merge to.
DocumentsAreCurrent ==
    \A group \in MatchedIdentifiers(graph) : \E order \in SetToSeqs(IdsOf(group)) :
        IsStored(Current(order))

Settled ==
    unmatched = {} /\ queue = {} /\ \A l \in Lambdas : lambda[l] = IdleLambda

\* Once there is nothing left to do, works-denormalised and images-initial hold
\* the merge of the current works in their current groups: however results were
\* reordered, repeated, merged from newer works than were matched, or half
\* indexed (MergeProcessor.scala: the result's time, as "we cannot rely on the
\* modified times of the individual works -- this may cause us to drop updates
\* if works get unlinked").
SettledDocumentsAreCurrent == Settled => DocumentsAreCurrent

\* Once there is nothing left to do, no part of a work that has lost it, or that
\* was deleted with it, is still visible (Merger.scala: both ways "leave a work
\* behind that has to be deleted explicitly").
LostPartsAreDeleted ==
    Settled => \A w \in {v \in Works : index[v] > 0} :
        \A d \in stored : d.kind = "work" /\ d.doc.status = "visible" =>
            d.id \notin LostParts(Contents[w][index[w]])

\* Once there is nothing left to do, every image of the current works has been
\* announced since it was last stored, unless a notification was refused.  (An
\* image that its works have lost meanwhile may stay stored and unannounced: its
\* message is merged again without it.)
ImagesAreAnnounced ==
    Settled /\ ~unheard =>
        \A group \in MatchedIdentifiers(graph) : \E order \in SetToSeqs(IdsOf(group)) :
            /\ IsStored(Current(order))
            /\ \A i \in Current(order).images : i.image \notin untold

\* The same, whatever SNS answered (merger README: "Images (-> notify Inferrence
\* Manager)").
EveryImageIsAnnounced == Settled => untold = {}

\* The indexes catch up with works-identified for good once nothing more is
\* published.
IndexesCatchUp == <>[](unmatched = {} /\ DocumentsAreCurrent)
=============================================================================
