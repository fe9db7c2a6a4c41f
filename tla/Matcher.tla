------------------------------ MODULE Matcher ------------------------------
(***************************************************************************)
(* Concurrent matches over one graph table (WorkMatcher.matchWork).        *)
(*                                                                         *)
(* Each thread matches one work at a time: it locks the ids the work talks *)
(* about, checks that its copy of the work is current, reads the affected  *)
(* rows one DynamoDB call at a time, computes the new rows, and, if they   *)
(* differ, locks the subgraphs, reads again, compares and writes the rows  *)
(* one by one.  Locks never block: a lock that is taken fails the match,   *)
(* and the queue tries again later (module MatcherLambda).                 *)
(***************************************************************************)
EXTENDS WorkGraph

CONSTANTS
    Threads,
    Nobody,     \* the owner of a free lock
    Orphan,     \* the owner of a lock whose holder died without unlocking it
    NoWork,     \* the work of an idle thread
    MaxFaults,  \* how many faults there may be in a behaviour
    FaultKinds  \* which kinds of them

ASSUME OwnersAssumption ==
    Nobody \notin Threads /\ Orphan \notin Threads /\ Nobody # Orphan
ASSUME FaultsAssumption ==
    /\ MaxFaults \in Nat
    /\ FaultKinds \subseteq
           {"call",        \* a call to Elasticsearch or DynamoDB fails
            "death",       \* the lambda dies
            "torn",        \* either of these can come between two rows of a put
            "unreadable",  \* the check's own multiget fails for the one work
            "redelivery"}  \* SQS delivers a message twice

VARIABLES
    index,      \* index[w]: the revision of w in works-identified, 0 if none
    graph,      \* the rows of the graph table
    locks,      \* the lock table
    thread,     \* the state of every match
    latest,     \* latest[w]: the group of w in the newest result that has it
    faults      \* how many faults there have been

vars == <<index, graph, locks, thread, latest, faults>>

LockIds == Works \union SUBSET Works
Owners == Threads \union {Nobody, Orphan}
WorkIdentifier == Works \X Nat

\* The states of a match, in the order of WorkMatcher.matchWork.
FirstReading  == {"current", "reading"}
SecondReading == {"relocked", "rereading"}
HoldingSubgraphs == SecondReading \union {"putting"}
HoldingIds == {"locked", "updated"} \union FirstReading \union HoldingSubgraphs
Running == {"starting"} \union HoldingIds
Ended == {"failed", "matched"}

MatchState ==
    [state : {"idle"} \union Running \union Ended,
     work : Works \union {NoWork},
     rev : Nat,                       \* the revision of work it was given
     toRead : SUBSET SUBSET Works,    \* subgraph ids still to query
     before : SUBSET WorkNode,        \* beforeNodes
     reread : SUBSET WorkNode,        \* refreshedBeforeNodes
     after : SUBSET WorkNode,         \* afterNodes
     toPut : SUBSET WorkNode]         \* rows still to write

IdleThread ==
    [state |-> "idle", work |-> NoWork, rev |-> 0, toRead |-> {},
     before |-> {}, reread |-> {}, after |-> {}, toPut |-> {}]

Init ==
    /\ index = [w \in Works |-> 0]
    /\ graph = {}
    /\ locks = [k \in LockIds |-> Nobody]
    /\ thread = [t \in Threads |-> IdleThread]
    /\ latest = [w \in Works |-> {}]
    /\ faults = 0

----------------------------------------------------------------------------
\* The copy of its work that thread t was given.
Stub(t) == Revisions[thread[t].work][thread[t].rev]

Ids(t) == StubIds(thread[t].work, Stub(t))

AffectedSubgraphIds(t) ==
    {n.subgraphId : n \in thread[t].before \union thread[t].after}

\* The locks that t is trying to take.
Wanted(t) ==
    CASE thread[t].state = "starting" -> Ids(t)
      [] thread[t].state = "updated"  -> AffectedSubgraphIds(t)
      [] OTHER                        -> {}

Goto(t, state) == thread' = [thread EXCEPT ![t].state = state]

Release(t) ==
    locks' = [k \in LockIds |-> IF locks[k] = t THEN Nobody ELSE locks[k]]

\* The threads ts never unlock what they have locked, some of what they were
\* about to lock included.
Abandon(ts) ==
    \E taken \in SUBSET {k \in UNION {Wanted(t) : t \in ts} : locks[k] = Nobody} :
        locks' = [k \in LockIds |-> IF locks[k] \in ts \/ k \in taken
                                    THEN Orphan ELSE locks[k]]

EndInFailure(t) ==
    /\ thread' = [thread EXCEPT ![t] = [IdleThread EXCEPT
                     !.state = "failed", !.work = thread[t].work,
                     !.rev = thread[t].rev]]
    /\ UNCHANGED <<index, graph, latest>>

\* The match ends with an exception: withLocks gives back what it locked.
Fail(t) == EndInFailure(t) /\ Release(t)

\* The match ends with a MatcherResult for the given rows, created now.
Succeed(t, nodes) ==
    LET result == MatchedIdentifiers(nodes)
        mentions(w) == {g \in result : \E i \in g : i[1] = w}
    IN  /\ thread' = [thread EXCEPT ![t] = [IdleThread EXCEPT
                         !.state = "matched", !.work = thread[t].work,
                         !.rev = thread[t].rev, !.after = nodes]]
        /\ latest' = [w \in Works |-> IF mentions(w) # {}
                                      THEN UNION mentions(w) ELSE latest[w]]
        /\ Release(t)

----------------------------------------------------------------------------
\* The id minter writes the next revision of w to works-identified.
Publish(w) ==
    /\ index[w] < Len(Revisions[w])
    /\ index' = [index EXCEPT ![w] = @ + 1]
    /\ UNCHANGED <<graph, locks, thread, latest, faults>>

\* Mutant: a work that was not found is matched all the same.
StartMatchNotFound(t, w) ==
    /\ thread[t].state = "idle"
    /\ thread' = [thread EXCEPT ![t] = [IdleThread EXCEPT
                     !.state = "starting", !.work = w, !.rev = index[w]]]
    /\ UNCHANGED <<index, graph, locks, latest, faults>>

\* StoredWorksMatcher.retrieveWorks fetches the work, before any lock is taken.
StartMatch(t, w) ==
    /\ thread[t].state = "idle"
    /\ index[w] > 0
    /\ thread' = [thread EXCEPT ![t] = [IdleThread EXCEPT
                     !.state = "starting", !.work = w, !.rev = index[w]]]
    /\ UNCHANGED <<index, graph, locks, latest, faults>>

\* LockingService.withLocks, when every lock is free.
TakeLocks(t, next) ==
    /\ \A k \in Wanted(t) : locks[k] = Nobody
    /\ locks' = [k \in LockIds |-> IF k \in Wanted(t) THEN t ELSE locks[k]]
    /\ Goto(t, next)
    /\ UNCHANGED <<index, graph, latest, faults>>

LockWorkIds(t) ==
    /\ thread[t].state = "starting"
    /\ TakeLocks(t, "locked")

LockSubgraphs(t) ==
    /\ thread[t].state = "updated"
    /\ TakeLocks(t, "relocked")

\* A lock is taken, or another thread is taking it at the same time: locks are
\* taken one by one, so that two threads can each get in the other's way.
LockingFails(t) ==
    /\ \E k \in Wanted(t) : \/ locks[k] # Nobody
                            \/ \E u \in Threads \ {t} : k \in Wanted(u)
    /\ Fail(t)
    /\ UNCHANGED faults

\* Mutant: the copy of the work is taken to be current.
SkipTheCheck(t) ==
    /\ thread[t].state = "locked"
    /\ Goto(t, "current")
    /\ UNCHANGED <<index, graph, locks, latest, faults>>

\* The work may have been replaced in works-identified since it was fetched.
CheckWorkIsCurrent(t) ==
    /\ thread[t].state = "locked"
    /\ IF Revisions[thread[t].work][index[thread[t].work]] = Stub(t)
       THEN Goto(t, "current") /\ UNCHANGED <<index, graph, locks, latest>>
       ELSE Fail(t)
    /\ UNCHANGED faults

\* The first half of findAffectedWorks: the rows of the ids themselves.
GetDirectlyAffected(t) ==
    /\ thread[t].state \in {"current", "relocked"}
    /\ thread' = [thread EXCEPT
           ![t].toRead = {n.subgraphId : n \in {m \in graph : m.id \in Ids(t)}},
           ![t].state = IF @ = "current" THEN "reading" ELSE "rereading"]
    /\ UNCHANGED <<index, graph, locks, latest, faults>>

\* The second half: the rows of one of their subgraphs, by the index on
\* subgraphId; the queries run in any order.
QuerySubgraph(t) ==
    /\ thread[t].state \in {"reading", "rereading"}
    /\ \E s \in thread[t].toRead :
           LET found == {n \in graph : n.subgraphId = s}
           IN  thread' = [thread EXCEPT
                   ![t].toRead = @ \ {s},
                   ![t].before = IF thread[t].state = "reading"
                                 THEN @ \union found ELSE @,
                   ![t].reread = IF thread[t].state = "rereading"
                                 THEN @ \union found ELSE @]
    /\ UNCHANGED <<index, graph, locks, latest, faults>>

\* beforeNodes as a map by id: two queries may have seen a row before and
\* after it moved, and the map keeps one of the two.
ById(nodes) ==
    {S \in SUBSET nodes : \A n \in nodes : \E m \in S :
        m.id = n.id /\ \A o \in S : o.id = n.id => o = m}

\* WorkGraphUpdater.update.  When no row changes, there is nothing to write
\* and the result is made of what was read.
UpdateGraph(t) ==
    /\ thread[t].state = "reading"
    /\ thread[t].toRead = {}
    /\ \E existing \in ById(thread[t].before) :
           LET w     == thread[t].work
               after == AfterNodes(w, Stub(t), existing)
           IN  \/ /\ VersionConflict(w, Stub(t), existing)
                  /\ Fail(t)
               \/ /\ ~VersionConflict(w, Stub(t), existing)
                  /\ after \subseteq thread[t].before
                  /\ Succeed(t, after)
                  /\ UNCHANGED <<index, graph>>
               \/ /\ ~VersionConflict(w, Stub(t), existing)
                  /\ ~(after \subseteq thread[t].before)
                  /\ thread' = [thread EXCEPT ![t].after = after,
                                              ![t].state = "updated"]
                  /\ UNCHANGED <<index, graph, locks, latest>>
    /\ UNCHANGED faults

\* Mutant: the second read is not compared with the first.
SkipTheComparison(t) ==
    /\ thread[t].state = "rereading"
    /\ thread[t].toRead = {}
    /\ thread' = [thread EXCEPT ![t].toPut = thread[t].after,
                                ![t].state = "putting"]
    /\ UNCHANGED <<index, graph, locks, latest, faults>>

\* Another thread may have changed a part of the graph that the first locks do
\* not cover.
CompareReads(t) ==
    /\ thread[t].state = "rereading"
    /\ thread[t].toRead = {}
    /\ IF thread[t].reread = thread[t].before
       THEN /\ thread' = [thread EXCEPT ![t].toPut = thread[t].after,
                                        ![t].state = "putting"]
            /\ UNCHANGED <<index, graph, locks, latest>>
       ELSE Fail(t)
    /\ UNCHANGED faults

\* One row of the batch write, which is not atomic.
PutNode(t) ==
    /\ thread[t].state = "putting"
    /\ \E n \in thread[t].toPut :
           /\ graph' = PutAll(graph, {n})
           /\ thread' = [thread EXCEPT ![t].toPut = @ \ {n}]
    /\ UNCHANGED <<index, locks, latest, faults>>

FinishPut(t) ==
    /\ thread[t].state = "putting"
    /\ thread[t].toPut = {}
    /\ Succeed(t, thread[t].after)
    /\ UNCHANGED <<index, graph, faults>>

\* The caller takes the outcome.
Collect(t) ==
    /\ thread[t].state \in Ended
    /\ thread' = [thread EXCEPT ![t] = IdleThread]
    /\ UNCHANGED <<index, graph, locks, latest, faults>>

----------------------------------------------------------------------------
Fault(kind) ==
    /\ kind \in FaultKinds
    /\ faults < MaxFaults
    /\ faults' = faults + 1

Interruptible(t) ==
    /\ thread[t].state \in Running
    /\ \/ "torn" \in FaultKinds
       \/ thread[t].state = "putting" => thread[t].toPut = {}

\* A call to Elasticsearch or DynamoDB fails.  When it is an unlock, the locks
\* stay in the table.
CallFails(t) ==
    /\ Fault("call")
    /\ Interruptible(t)
    /\ EndInFailure(t)
    /\ Release(t) \/ Abandon({t})

\* The multiget of checkWorkIsCurrent succeeds, but not for this work:
\* ElasticRetriever has it among those it did not find, and the match goes on
\* with the copy it has.
CheckIsUnreadable(t) ==
    /\ Fault("unreadable")
    /\ thread[t].state = "locked"
    /\ Goto(t, "current")
    /\ UNCHANGED <<index, graph, locks, latest>>

\* The lambda dies.
Die(t) ==
    /\ Fault("death")
    /\ Interruptible(t)
    /\ Abandon({t})
    /\ thread' = [thread EXCEPT ![t] = IdleThread]
    /\ UNCHANGED <<index, graph, latest>>

\* Mutant: a lock may time out while its holder goes on.
ExpireAnyLock(k) ==
    /\ locks[k] # Nobody
    /\ locks' = [locks EXCEPT ![k] = Nobody]
    /\ UNCHANGED <<index, graph, thread, latest, faults>>

\* Mutant: a lock stays until its holder unlocks it.
NeverExpire(k) ==
    /\ locks[k] = Orphan
    /\ UNCHANGED vars

\* A lock outlives the lambda that took it (the lock timeout is the lambda's),
\* so that only the locks of a dead one expire.
ExpireLock(k) ==
    /\ locks[k] = Orphan
    /\ locks' = [locks EXCEPT ![k] = Nobody]
    /\ UNCHANGED <<index, graph, thread, latest, faults>>

MatchStep(t) ==
    \/ LockWorkIds(t)
    \/ LockingFails(t)
    \/ CheckWorkIsCurrent(t)
    \/ GetDirectlyAffected(t)
    \/ QuerySubgraph(t)
    \/ UpdateGraph(t)
    \/ LockSubgraphs(t)
    \/ CompareReads(t)
    \/ PutNode(t)
    \/ FinishPut(t)

Next ==
    \/ \E w \in Works : Publish(w)
    \/ \E t \in Threads, w \in Works : StartMatch(t, w)
    \/ \E t \in Threads : \/ MatchStep(t)
                          \/ Collect(t)
                          \/ CallFails(t)
                          \/ CheckIsUnreadable(t)
                          \/ Die(t)
    \/ \E k \in LockIds : ExpireLock(k)

Spec == Init /\ [][Next]_vars

----------------------------------------------------------------------------
TypeOK ==
    /\ index \in [Works -> Nat]
    /\ \A w \in Works : index[w] <= Len(Revisions[w])
    /\ graph \subseteq WorkNode
    /\ Keyed(graph)
    /\ locks \in [LockIds -> Owners]
    /\ thread \in [Threads -> MatchState]
    /\ \A t \in Threads : thread[t].state \in Running =>
           thread[t].work \in Works /\ thread[t].rev \in 1..index[thread[t].work]
    /\ latest \in [Works -> SUBSET WorkIdentifier]
    /\ faults \in 0..MaxFaults

\* The table as it is once the puts under way are done.
CommittedGraph ==
    PutAll(graph, UNION {thread[t].toPut : t \in Threads})

\* The commit point of a match is its second read: from there on its rows are
\* as good as written, all at once, and nothing happened since its reads.
Serial == INSTANCE SerialMatcher WITH graph <- CommittedGraph
SerialSpec == Serial!Spec

\* A second read that is going to be taken for a confirmation of the first has
\* found the present row of every id (WorkMatcher.scala: "check our graph store
\* data is still correct").  A row that is moved to another subgraph between
\* the two halves of findAffectedWorks is in neither.
RereadsFindTheirIds ==
    \A t \in Threads :
        (/\ thread[t].state = "rereading"
         /\ thread[t].toRead = {}
         /\ thread[t].reread = thread[t].before) =>
            \A n \in graph : n.id \in Ids(t) =>
                \E m \in thread[t].reread : m.id = n.id

\* A thread that reached the step where it writes holds every lock that its
\* match needs (WorkMatcher.scala: "lock over all the subgraphs we're
\* modifying"), and no other thread writes to one of its subgraphs.
WritersHoldTheirLocks ==
    \A t \in Threads :
        /\ thread[t].state \in HoldingIds => \A k \in Ids(t) : locks[k] = t
        /\ thread[t].state \in HoldingSubgraphs =>
               \A k \in AffectedSubgraphIds(t) : locks[k] = t

\* What the table says of a work only ever gives way to a later revision of it
\* (checkWorkIsCurrent: "we'd accept it as a last-write-wins update and
\* quietly revert the corrected graph").
GraphNeverReverts ==
    [][\A n \in WithSource(graph) : \E m \in WithSource(graph') :
          /\ m.id = n.id
          /\ m.sourceWork # n.sourceWork =>
                 \E i, j \in 1..index[n.id] :
                     /\ i < j
                     /\ n.sourceWork = SourceData(n.id, Revisions[n.id][i])
                     /\ m.sourceWork = SourceData(n.id, Revisions[n.id][j])
      ]_graph

\* A row without source data stands for a work never matched (WorkMatcher.scala:
\* "nodes for Works it hasn't seen yet, or which don't exist"): source data
\* once stored is never replaced by a placeholder.
PlaceholdersAreUnseenWorks ==
    [][\A n \in WithSource(graph) : \E m \in WithSource(graph') : m.id = n.id
      ]_graph

\* While nobody is writing, the newest result that mentions a work has the
\* group the table has for it: its creation time, which the merger takes for
\* the time "the matcher inspected the connections between these works", is
\* the newest.
NewestResultReflectsGraph ==
    (\A t \in Threads : thread[t].state # "putting") =>
        \A n \in WithSource(graph) :
            latest[n.id] = WorkIdentifiers(
                               {m \in graph : m.componentIds = n.componentIds})
=============================================================================
