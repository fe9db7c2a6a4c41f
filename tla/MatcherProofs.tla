--------------------------- MODULE MatcherProofs ---------------------------
(***************************************************************************)
(* What is true of Matcher and MatcherLambda for every set of works, of    *)
(* lambdas and of revisions: types and locks; that matches happen as if    *)
(* one after another, and never take a work back to an earlier revision;   *)
(* that no update and no news of a row is lost.                            *)
(***************************************************************************)
EXTENDS MatcherLambda, WorkGraphProofs, TLAPS

----------------------------------------------------------------------------
\* Groups are made of the ids and versions of rows.
LEMMA MatchedIdentifiersType ==
    ASSUME NEW nodes \in SUBSET WorkNode
    PROVE  \A g \in MatchedIdentifiers(nodes) : g \subseteq WorkIdentifier
<1>1. ASSUME NEW some \in SUBSET WorkNode
      PROVE  WorkIdentifiers(some) \subseteq WorkIdentifier
    BY DEF WorkIdentifiers, WithSource, WorkIdentifier, WorkNode, SourceWorkData
<1> QED
    BY <1>1 DEF MatchedIdentifiers

----------------------------------------------------------------------------
(***************************************************************************)
(* Type correctness.  A step changes the record of one thread, so that     *)
(* what has to be shown is that the new record is a state of a match.      *)
(***************************************************************************)

\* A running match has a work, and a revision of it that was published.
LEMMA RunningType ==
    ASSUME TypeOK, NEW t \in Threads, thread[t].state \in Running
    PROVE  /\ thread[t].work \in Works
           /\ Stub(t) \in WorkStub
           /\ Ids(t) \subseteq Works
<1>1. thread[t].work \in Works /\ thread[t].rev \in 1..index[thread[t].work]
    BY DEF TypeOK
<1>2. thread[t].rev \in 1..Len(Revisions[thread[t].work])
    <2>1. /\ index[thread[t].work] \in Nat
          /\ index[thread[t].work] <= Len(Revisions[thread[t].work])
        BY <1>1 DEF TypeOK
    <2>2. Len(Revisions[thread[t].work]) \in Nat
        BY <1>1, RevisionsAssumption
    <2> QED
        BY <1>1, <2>1, <2>2
<1>3. Stub(t) \in WorkStub
    BY <1>1, <1>2, RevisionType DEF Stub
<1> QED
    BY <1>1, <1>3, StubIdsType DEF Ids

\* A step that gives one thread a well-formed record, of the same match or of
\* none, and leaves the rest of the threads alone, keeps the threads typed.
LEMMA ThreadType ==
    ASSUME TypeOK, NEW t \in Threads, NEW r \in MatchState,
           thread' = [thread EXCEPT ![t] = r],
           r.state \in Running => /\ r.work \in Works
                                  /\ r.rev \in 1..index[r.work],
           UNCHANGED index
    PROVE  /\ thread' \in [Threads -> MatchState]
           /\ \A u \in Threads : thread'[u].state \in Running =>
                  /\ thread'[u].work \in Works
                  /\ thread'[u].rev \in 1..index'[thread'[u].work]
BY DEF TypeOK

\* Unlocking leaves a table of locks, and so does not unlocking.
LEMMA ReleaseType ==
    ASSUME TypeOK, NEW t \in Threads, Release(t) \/ Abandon({t})
    PROVE  locks' \in [LockIds -> Owners]
<1>1. CASE Release(t)
    BY <1>1 DEF TypeOK, Release, Owners
<1>2. CASE Abandon({t})
    BY <1>2 DEF TypeOK, Abandon, Owners
<1> QED
    BY <1>1, <1>2

\* A match that ends in failure leaves the state well-formed.
LEMMA FailType ==
    ASSUME TypeOK, NEW t \in Threads, EndInFailure(t),
           Release(t) \/ Abandon({t}), faults' \in 0..MaxFaults
    PROVE  TypeOK'
<1> DEFINE r == [IdleThread EXCEPT !.state = "failed", !.work = thread[t].work,
                                   !.rev = thread[t].rev]
<1>1. r \in MatchState /\ r.state \notin Running
    BY DEF TypeOK, MatchState, IdleThread, Ended, Running, HoldingIds,
           HoldingSubgraphs, FirstReading, SecondReading
<1>2. thread' = [thread EXCEPT ![t] = r] /\ UNCHANGED index
    BY DEF EndInFailure
<1> HIDE DEF r
<1>3. /\ thread' \in [Threads -> MatchState]
      /\ \A u \in Threads : thread'[u].state \in Running =>
             /\ thread'[u].work \in Works
             /\ thread'[u].rev \in 1..index'[thread'[u].work]
    BY <1>1, <1>2, ThreadType
<1>4. locks' \in [LockIds -> Owners]
    BY ReleaseType
<1> QED
    BY <1>3, <1>4 DEF TypeOK, EndInFailure, Keyed

\* So does a match that ends with a result.
LEMMA SucceedType ==
    ASSUME TypeOK, NEW t \in Threads, NEW nodes \in SUBSET WorkNode,
           Succeed(t, nodes), UNCHANGED <<index, graph, faults>>
    PROVE  TypeOK'
<1> DEFINE r == [IdleThread EXCEPT !.state = "matched", !.work = thread[t].work,
                                   !.rev = thread[t].rev, !.after = nodes]
<1>1. r \in MatchState /\ r.state \notin Running
    BY DEF TypeOK, MatchState, IdleThread, Ended, Running, HoldingIds,
           HoldingSubgraphs, FirstReading, SecondReading
<1>2. thread' = [thread EXCEPT ![t] = r]
    BY DEF Succeed
<1> HIDE DEF r
<1>3. /\ thread' \in [Threads -> MatchState]
      /\ \A u \in Threads : thread'[u].state \in Running =>
             /\ thread'[u].work \in Works
             /\ thread'[u].rev \in 1..index'[thread'[u].work]
    BY <1>1, <1>2, ThreadType
<1>4. locks' \in [LockIds -> Owners]
    BY ReleaseType DEF Succeed
<1>5. latest' \in [Works -> SUBSET WorkIdentifier]
    <2> DEFINE mentions(w) ==
            {g \in MatchedIdentifiers(nodes) : \E i \in g : i[1] = w}
    <2>1. latest' = [w \in Works |-> IF mentions(w) # {}
                                     THEN UNION mentions(w) ELSE latest[w]]
        BY DEF Succeed
    <2>2. \A w \in Works : UNION mentions(w) \subseteq WorkIdentifier
        BY MatchedIdentifiersType
    <2>3. \A w \in Works : latest[w] \subseteq WorkIdentifier
        BY DEF TypeOK
    <2> HIDE DEF mentions
    <2> QED
        BY <2>1, <2>2, <2>3
<1> QED
    BY <1>3, <1>4, <1>5 DEF TypeOK, Keyed

\* Taking locks leaves a table of locks, and goes on with the match.
LEMMA TakeLocksType ==
    ASSUME TypeOK, NEW t \in Threads, NEW next \in Running, TakeLocks(t, next),
           thread[t].state \in Running
    PROVE  TypeOK'
<1> DEFINE r == [thread[t] EXCEPT !.state = next]
<1>1. thread[t] \in MatchState
    BY DEF TypeOK
<1>2. r \in MatchState
    BY <1>1 DEF MatchState
<1>3. r.work = thread[t].work /\ r.rev = thread[t].rev
    BY <1>1 DEF MatchState
<1>4. thread' = [thread EXCEPT ![t] = r] /\ UNCHANGED index
    BY DEF TakeLocks, Goto
<1>5. r.work \in Works /\ r.rev \in 1..index[r.work]
    BY <1>3 DEF TypeOK
<1> HIDE DEF r
<1>6. /\ thread' \in [Threads -> MatchState]
      /\ \A u \in Threads : thread'[u].state \in Running =>
             /\ thread'[u].work \in Works
             /\ thread'[u].rev \in 1..index'[thread'[u].work]
    BY <1>2, <1>4, <1>5, ThreadType
<1>7. locks' \in [LockIds -> Owners]
    BY DEF TypeOK, TakeLocks, Owners
<1> QED
    BY <1>6, <1>7 DEF TypeOK, TakeLocks, Keyed

\* A step of a match that changes only its own record, and leaves its work
\* and its revision alone, keeps the state well-formed.
LEMMA OwnStepType ==
    ASSUME TypeOK, NEW t \in Threads, NEW r \in MatchState,
           thread' = [thread EXCEPT ![t] = r],
           thread[t].state \in Running,
           r.work = thread[t].work, r.rev = thread[t].rev,
           UNCHANGED <<index, graph, locks, latest, faults>>
    PROVE  TypeOK'
<1>1. r.work \in Works /\ r.rev \in 1..index[r.work]
    BY DEF TypeOK
<1>2. /\ thread' \in [Threads -> MatchState]
      /\ \A u \in Threads : thread'[u].state \in Running =>
             /\ thread'[u].work \in Works
             /\ thread'[u].rev \in 1..index'[thread'[u].work]
    BY <1>1, ThreadType
<1> QED
    BY <1>2 DEF TypeOK, Keyed

\* Each step of a match keeps the state well-formed.
LEMMA MatchStepType ==
    ASSUME TypeOK, NEW t \in Threads, MatchStep(t)
    PROVE  TypeOK'
<1> USE DEF Running, HoldingIds, HoldingSubgraphs, FirstReading, SecondReading
<1>1. thread[t] \in MatchState /\ faults \in 0..MaxFaults
    BY DEF TypeOK
<1>2. CASE LockWorkIds(t)
    BY <1>2, TakeLocksType DEF LockWorkIds
<1>3. CASE LockSubgraphs(t)
    BY <1>3, TakeLocksType DEF LockSubgraphs
<1>4. CASE LockingFails(t)
    BY <1>1, <1>4, FailType DEF LockingFails, Fail
<1>5. CASE CheckWorkIsCurrent(t)
    <2>1. CASE Fail(t)
        BY <1>1, <1>5, <2>1, FailType DEF CheckWorkIsCurrent, Fail
    <2>2. CASE Goto(t, "current") /\ UNCHANGED <<index, graph, locks, latest>>
        <3> DEFINE r == [thread[t] EXCEPT !.state = "current"]
        <3>1. r \in MatchState /\ r.work = thread[t].work /\ r.rev = thread[t].rev
            BY <1>1 DEF MatchState
        <3>2. thread' = [thread EXCEPT ![t] = r]
            BY <2>2 DEF Goto
        <3>3. thread[t].state \in Running /\ UNCHANGED faults
            BY <1>5 DEF CheckWorkIsCurrent
        <3> HIDE DEF r
        <3> QED
            BY <2>2, <3>1, <3>2, <3>3, OwnStepType
    <2> QED
        BY <1>5, <2>1, <2>2 DEF CheckWorkIsCurrent
<1>6. CASE GetDirectlyAffected(t)
    <2> DEFINE found == {n.subgraphId : n \in {m \in graph : m.id \in Ids(t)}}
               next  == IF thread[t].state = "current"
                        THEN "reading" ELSE "rereading"
               r     == [thread[t] EXCEPT !.toRead = found, !.state = next]
    <2>1. found \subseteq SUBSET Works
        BY DEF TypeOK, WorkNode
    <2>2. r \in MatchState /\ r.work = thread[t].work /\ r.rev = thread[t].rev
        BY <1>1, <2>1 DEF MatchState
    <2>3. thread' = [thread EXCEPT ![t] = r]
        BY <1>1, <1>6 DEF GetDirectlyAffected, MatchState, TypeOK
    <2>4. /\ thread[t].state \in Running
          /\ UNCHANGED <<index, graph, locks, latest, faults>>
        BY <1>6 DEF GetDirectlyAffected
    <2> HIDE DEF r
    <2> QED
        BY <2>2, <2>3, <2>4, OwnStepType
<1>7. CASE QuerySubgraph(t)
    <2>1. PICK s \in thread[t].toRead :
              LET found == {n \in graph : n.subgraphId = s}
              IN  thread' = [thread EXCEPT
                      ![t].toRead = @ \ {s},
                      ![t].before = IF thread[t].state = "reading"
                                    THEN @ \union found ELSE @,
                      ![t].reread = IF thread[t].state = "rereading"
                                    THEN @ \union found ELSE @]
        BY <1>7 DEF QuerySubgraph
    <2> DEFINE found == {n \in graph : n.subgraphId = s}
               b == IF thread[t].state = "reading"
                    THEN thread[t].before \union found ELSE thread[t].before
               a == IF thread[t].state = "rereading"
                    THEN thread[t].reread \union found ELSE thread[t].reread
               r == [thread[t] EXCEPT !.toRead = thread[t].toRead \ {s},
                                      !.before = b, !.reread = a]
    <2>2. found \subseteq WorkNode
        BY DEF TypeOK
    <2>3. thread' = [thread EXCEPT ![t] = r]
        BY <1>1, <2>1 DEF MatchState, TypeOK
    <2>4. b \subseteq WorkNode /\ a \subseteq WorkNode
        BY <1>1, <2>2 DEF MatchState
    <2> HIDE DEF a, b
    <2>5. r \in MatchState /\ r.work = thread[t].work /\ r.rev = thread[t].rev
        BY <1>1, <2>4 DEF MatchState
    <2>6. /\ thread[t].state \in Running
          /\ UNCHANGED <<index, graph, locks, latest, faults>>
        BY <1>7 DEF QuerySubgraph
    <2> HIDE DEF r
    <2> QED
        BY <2>3, <2>5, <2>6, OwnStepType
<1>8. CASE UpdateGraph(t)
    <2>1. PICK existing \in ById(thread[t].before) :
              LET w     == thread[t].work
                  after == AfterNodes(w, Stub(t), existing)
              IN  \/ Fail(t)
                  \/ /\ Succeed(t, after)
                     /\ UNCHANGED <<index, graph>>
                  \/ /\ thread' = [thread EXCEPT ![t].after = after,
                                                 ![t].state = "updated"]
                     /\ UNCHANGED <<index, graph, locks, latest>>
        BY <1>8 DEF UpdateGraph
    <2> DEFINE after == AfterNodes(thread[t].work, Stub(t), existing)
    <2>2. thread[t].state \in Running /\ UNCHANGED faults
        BY <1>8 DEF UpdateGraph
    <2>3. existing \in SUBSET WorkNode
        BY <1>1 DEF ById, MatchState
    <2>4. after \in SUBSET WorkNode
        BY <2>2, <2>3, RunningType, AfterNodesType
    <2> HIDE DEF after
    <2>5. CASE Fail(t)
        BY <1>1, <2>2, <2>5, FailType DEF Fail
    <2>6. CASE Succeed(t, after) /\ UNCHANGED <<index, graph>>
        BY <2>2, <2>4, <2>6, SucceedType
    <2>7. CASE /\ thread' = [thread EXCEPT ![t].after = after,
                                           ![t].state = "updated"]
               /\ UNCHANGED <<index, graph, locks, latest>>
        <3> DEFINE r == [thread[t] EXCEPT !.after = after, !.state = "updated"]
        <3>1. r \in MatchState /\ r.work = thread[t].work /\ r.rev = thread[t].rev
            BY <1>1, <2>4 DEF MatchState
        <3>2. thread' = [thread EXCEPT ![t] = r]
            BY <1>1, <2>7 DEF MatchState, TypeOK
        <3> HIDE DEF r
        <3> QED
            BY <2>2, <2>7, <3>1, <3>2, OwnStepType
    <2> QED
        BY <2>1, <2>5, <2>6, <2>7 DEF after
<1>9. CASE CompareReads(t)
    <2>1. CASE Fail(t)
        BY <1>1, <1>9, <2>1, FailType DEF CompareReads, Fail
    <2>2. CASE /\ thread' = [thread EXCEPT ![t].toPut = thread[t].after,
                                           ![t].state = "putting"]
               /\ UNCHANGED <<index, graph, locks, latest>>
        <3> DEFINE r == [thread[t] EXCEPT !.toPut = thread[t].after,
                                          !.state = "putting"]
        <3>1. r \in MatchState /\ r.work = thread[t].work /\ r.rev = thread[t].rev
            BY <1>1 DEF MatchState
        <3>2. thread' = [thread EXCEPT ![t] = r]
            BY <1>1, <2>2 DEF MatchState, TypeOK
        <3>3. thread[t].state \in Running /\ UNCHANGED faults
            BY <1>9 DEF CompareReads
        <3> HIDE DEF r
        <3> QED
            BY <2>2, <3>1, <3>2, <3>3, OwnStepType
    <2> QED
        BY <1>9, <2>1, <2>2 DEF CompareReads
<1>10. CASE PutNode(t)
    <2>1. PICK n \in thread[t].toPut :
              /\ graph' = PutAll(graph, {n})
              /\ thread' = [thread EXCEPT ![t].toPut = @ \ {n}]
        BY <1>10 DEF PutNode
    <2>2. graph' \in SUBSET WorkNode /\ Keyed(graph')
        BY <1>1, <2>1, PutOneType DEF MatchState, TypeOK
    <2> DEFINE r == [thread[t] EXCEPT !.toPut = thread[t].toPut \ {n}]
    <2>3. r \in MatchState /\ r.work = thread[t].work /\ r.rev = thread[t].rev
        BY <1>1 DEF MatchState
    <2>4. thread' = [thread EXCEPT ![t] = r]
        BY <1>1, <2>1 DEF MatchState, TypeOK
    <2>5. thread[t].state \in Running /\ UNCHANGED <<index, locks, latest, faults>>
        BY <1>10 DEF PutNode
    <2>6. r.work \in Works /\ r.rev \in 1..index[r.work]
        BY <2>3, <2>5 DEF TypeOK
    <2> HIDE DEF r
    <2>7. /\ thread' \in [Threads -> MatchState]
          /\ \A u \in Threads : thread'[u].state \in Running =>
                 /\ thread'[u].work \in Works
                 /\ thread'[u].rev \in 1..index'[thread'[u].work]
        BY <2>3, <2>4, <2>5, <2>6, ThreadType
    <2> QED
        BY <2>2, <2>5, <2>7 DEF TypeOK, Keyed
<1>11. CASE FinishPut(t)
    BY <1>1, <1>11, SucceedType DEF FinishPut, MatchState
<1> QED
    BY <1>2, <1>3, <1>4, <1>5, <1>6, <1>7, <1>8, <1>9, <1>10, <1>11 DEF MatchStep

\* The initial state is well-formed.
LEMMA InitType == Init => TypeOK
<1> SUFFICES ASSUME Init PROVE TypeOK
    OBVIOUS
<1>1. IdleThread \in MatchState /\ IdleThread.state \notin Running
    BY DEF IdleThread, MatchState, Running, HoldingIds, HoldingSubgraphs,
           FirstReading, SecondReading
<1>2. ASSUME NEW w \in Works PROVE 0 <= Len(Revisions[w])
    <2>1. Len(Revisions[w]) \in Nat
        BY RevisionsAssumption
    <2> QED
        BY <2>1
<1> QED
    BY <1>1, <1>2, FaultsAssumption DEF Init, TypeOK, Owners, Keyed

\* Every step, of a match or of its surroundings, keeps the state well-formed.
LEMMA NextType == TypeOK /\ [Next]_vars => TypeOK'
<1> SUFFICES ASSUME TypeOK, [Next]_vars PROVE TypeOK'
    OBVIOUS
<1>1. IdleThread \in MatchState /\ IdleThread.state \notin Running
    BY DEF IdleThread, MatchState, Running, HoldingIds, HoldingSubgraphs,
           FirstReading, SecondReading
<1>2. ASSUME NEW w \in Works, Publish(w) PROVE TypeOK'
    <2>1. index[w] \in Nat /\ index[w] < Len(Revisions[w])
        BY <1>2 DEF Publish, TypeOK
    <2>2. Len(Revisions[w]) \in Nat
        BY RevisionsAssumption
    <2>3. /\ index' \in [Works -> Nat]
          /\ \A v \in Works : /\ index'[v] <= Len(Revisions[v])
                              /\ index[v] <= index'[v]
        BY <1>2, <2>1, <2>2 DEF Publish, TypeOK
    <2>4. \A u \in Threads : thread'[u].state \in Running =>
              /\ thread'[u].work \in Works
              /\ thread'[u].rev \in 1..index'[thread'[u].work]
        BY <1>2, <2>3 DEF Publish, TypeOK
    <2> QED
        BY <1>2, <2>3, <2>4 DEF Publish, TypeOK, Keyed
<1>3. ASSUME NEW t \in Threads, NEW w \in Works, StartMatch(t, w) PROVE TypeOK'
    <2> DEFINE r == [IdleThread EXCEPT !.state = "starting", !.work = w,
                                       !.rev = index[w]]
    <2>1. r \in MatchState /\ r.work = w /\ r.rev = index[w]
        BY DEF TypeOK, MatchState, IdleThread, Running
    <2>2. w \in Works /\ index[w] \in 1..index[w]
        BY <1>3 DEF StartMatch, TypeOK
    <2>3. thread' = [thread EXCEPT ![t] = r] /\ UNCHANGED index
        BY <1>3 DEF StartMatch
    <2> HIDE DEF r
    <2>4. /\ thread' \in [Threads -> MatchState]
          /\ \A u \in Threads : thread'[u].state \in Running =>
                 /\ thread'[u].work \in Works
                 /\ thread'[u].rev \in 1..index'[thread'[u].work]
        BY <2>1, <2>2, <2>3, ThreadType
    <2> QED
        BY <1>3, <2>4 DEF StartMatch, TypeOK, Keyed
<1>4. ASSUME NEW t \in Threads, Collect(t) PROVE TypeOK'
    <2>1. thread' = [thread EXCEPT ![t] = IdleThread] /\ UNCHANGED index
        BY <1>4 DEF Collect
    <2>2. /\ thread' \in [Threads -> MatchState]
          /\ \A u \in Threads : thread'[u].state \in Running =>
                 /\ thread'[u].work \in Works
                 /\ thread'[u].rev \in 1..index'[thread'[u].work]
        BY <1>1, <2>1, ThreadType
    <2> QED
        BY <1>4, <2>2 DEF Collect, TypeOK, Keyed
<1>5. ASSUME NEW t \in Threads, CallFails(t) PROVE TypeOK'
    <2>1. faults' \in 0..MaxFaults
        BY <1>5, FaultsAssumption DEF CallFails, Fault, TypeOK
    <2> QED
        BY <1>5, <2>1, FailType DEF CallFails
<1>6. ASSUME NEW t \in Threads, Die(t) PROVE TypeOK'
    <2>1. thread' = [thread EXCEPT ![t] = IdleThread] /\ UNCHANGED index
        BY <1>6 DEF Die
    <2>2. /\ thread' \in [Threads -> MatchState]
          /\ \A u \in Threads : thread'[u].state \in Running =>
                 /\ thread'[u].work \in Works
                 /\ thread'[u].rev \in 1..index'[thread'[u].work]
        BY <1>1, <2>1, ThreadType
    <2>3. locks' \in [LockIds -> Owners]
        BY <1>6, ReleaseType DEF Die
    <2>4. faults' \in 0..MaxFaults
        BY <1>6, FaultsAssumption DEF Die, Fault, TypeOK
    <2> QED
        BY <1>6, <2>2, <2>3, <2>4 DEF Die, TypeOK, Keyed
<1>7. ASSUME NEW k \in LockIds, ExpireLock(k) PROVE TypeOK'
    BY <1>7 DEF ExpireLock, TypeOK, Owners, Keyed
<1>8. CASE UNCHANGED vars
    BY <1>8 DEF vars, TypeOK, Keyed
<1>9. ASSUME NEW t \in Threads, CheckIsUnreadable(t) PROVE TypeOK'
    <2> DEFINE r == [thread[t] EXCEPT !.state = "current"]
    <2>1. thread[t] \in MatchState
        BY DEF TypeOK
    <2>2. r \in MatchState /\ r.work = thread[t].work /\ r.rev = thread[t].rev
        BY <2>1 DEF MatchState, Running, HoldingIds, FirstReading
    <2>3. thread' = [thread EXCEPT ![t] = r] /\ UNCHANGED <<index, graph, locks, latest>>
        BY <1>9 DEF CheckIsUnreadable, Goto
    <2>4. r.work \in Works /\ r.rev \in 1..index[r.work]
        BY <1>9, <2>2 DEF CheckIsUnreadable, TypeOK, Running, HoldingIds
    <2>5. faults' \in 0..MaxFaults
        BY <1>9, FaultsAssumption DEF CheckIsUnreadable, Fault, TypeOK
    <2> HIDE DEF r
    <2>6. /\ thread' \in [Threads -> MatchState]
          /\ \A u \in Threads : thread'[u].state \in Running =>
                 /\ thread'[u].work \in Works
                 /\ thread'[u].rev \in 1..index'[thread'[u].work]
        BY <2>2, <2>3, <2>4, ThreadType
    <2> QED
        BY <2>3, <2>5, <2>6 DEF TypeOK, Keyed
<1> QED
    BY <1>2, <1>3, <1>4, <1>5, <1>6, <1>7, <1>8, <1>9, MatchStepType DEF Next

\* Every reachable state is well-formed: each match runs on a published
\* revision of its work, and the table has one row for each id.
THEOREM TypeCorrect == Spec => []TypeOK
<1>1. Init => TypeOK
    BY InitType
<1>2. TypeOK /\ [Next]_vars => TypeOK'
    BY NextType
<1> QED
    BY <1>1, <1>2, PTL DEF Spec

----------------------------------------------------------------------------
(***************************************************************************)
(* The lock discipline.  WritersHoldTheirLocks is inductive with TypeOK:   *)
(* a thread only ever takes locks that nobody has and gives back its own,  *)
(* and what it needs to hold is fixed from the moment it takes it.         *)
(***************************************************************************)

\* What thread t has to hold in its state.
Holds(t) ==
    /\ thread[t].state \in HoldingIds => \A k \in Ids(t) : locks[k] = t
    /\ thread[t].state \in HoldingSubgraphs =>
           \A k \in AffectedSubgraphIds(t) : locks[k] = t

\* The keys a thread needs are keys of the lock table.
LEMMA KeysType ==
    ASSUME TypeOK, NEW t \in Threads
    PROVE  /\ thread[t].state \in Running => Ids(t) \subseteq LockIds
           /\ AffectedSubgraphIds(t) \subseteq LockIds
<1>1. thread[t] \in MatchState
    BY DEF TypeOK
<1> QED
    BY <1>1, RunningType DEF LockIds, AffectedSubgraphIds, MatchState, WorkNode

\* A thread that a step does not touch goes on holding its locks, as long as
\* the step changes no lock of its.
LEMMA OthersHold ==
    ASSUME TypeOK, NEW u \in Threads, Holds(u), thread'[u] = thread[u],
           \A k \in LockIds : locks[k] = u => locks'[k] = u
    PROVE  Holds(u)'
<1>1. Ids(u)' = Ids(u) /\ AffectedSubgraphIds(u)' = AffectedSubgraphIds(u)
    BY DEF Ids, Stub, AffectedSubgraphIds
<1>2. thread[u].state \in HoldingIds \union HoldingSubgraphs =>
          thread[u].state \in Running
    BY DEF Running, HoldingIds
<1> QED
    BY <1>1, <1>2, KeysType DEF Holds

\* A thread in none of the holding states needs no locks.
LEMMA NothingToHold ==
    ASSUME NEW t \in Threads, thread[t].state \notin HoldingIds
    PROVE  Holds(t)
BY DEF Holds, HoldingIds

\* A step of a match keeps what every thread holds.
LEMMA MatchStepHolds ==
    ASSUME TypeOK, WritersHoldTheirLocks, NEW t \in Threads, MatchStep(t)
    PROVE  WritersHoldTheirLocks'
<1> USE DEF Running, HoldingIds, HoldingSubgraphs, FirstReading, SecondReading
<1>1. thread[t] \in MatchState /\ \A u \in Threads : Holds(u)
    BY DEF TypeOK, WritersHoldTheirLocks, Holds
<1>2. ASSUME Release(t) PROVE \A u \in Threads \ {t} : \A k \in LockIds :
                                  locks[k] = u => locks'[k] = u
    BY <1>2 DEF Release
<1>3. ASSUME Fail(t) PROVE Holds(t)' /\ \A u \in Threads \ {t} : Holds(u)'
    <2>1. thread'[t].state = "failed" /\ \A u \in Threads \ {t} : thread'[u] = thread[u]
        BY <1>3 DEF Fail, EndInFailure, IdleThread, TypeOK
    <2> QED
        BY <1>1, <1>2, <1>3, <2>1, OthersHold DEF Fail, Holds
<1>4. ASSUME NEW nodes, Succeed(t, nodes)
      PROVE  Holds(t)' /\ \A u \in Threads \ {t} : Holds(u)'
    <2>1. thread'[t].state = "matched" /\ \A u \in Threads \ {t} : thread'[u] = thread[u]
        BY <1>4 DEF Succeed, IdleThread, TypeOK
    <2> QED
        BY <1>1, <1>2, <1>4, <2>1, OthersHold DEF Succeed, Holds
<1>5. ASSUME NEW next, TakeLocks(t, next)
      PROVE  \A u \in Threads \ {t} : Holds(u)'
    <2>1. \A u \in Threads \ {t} : thread'[u] = thread[u]
        BY <1>5 DEF TakeLocks, Goto, TypeOK
    <2>2. \A u \in Threads \ {t} : \A k \in LockIds : locks[k] = u => locks'[k] = u
        BY <1>5, OwnersAssumption DEF TakeLocks
    <2> QED
        BY <1>1, <2>1, <2>2, OthersHold

\* A step that leaves the locks, the work and the subgraphs alone.
<1>6. ASSUME \A u \in Threads \ {t} : thread'[u] = thread[u],
             UNCHANGED locks,
             thread[t].state \in HoldingIds,
             thread'[t].work = thread[t].work, thread'[t].rev = thread[t].rev,
             thread'[t].state \in HoldingSubgraphs =>
                 /\ thread[t].state \in HoldingSubgraphs
                 /\ thread'[t].before = thread[t].before
                 /\ thread'[t].after = thread[t].after
      PROVE  Holds(t)' /\ \A u \in Threads \ {t} : Holds(u)'
    <2>1. Ids(t)' = Ids(t)
        BY <1>6 DEF Ids, Stub
    <2>2. thread'[t].state \in HoldingSubgraphs =>
              AffectedSubgraphIds(t)' = AffectedSubgraphIds(t)
        BY <1>6 DEF AffectedSubgraphIds
    <2> QED
        BY <1>1, <1>6, <2>1, <2>2, OthersHold DEF Holds
<1>7. ASSUME \A u \in Threads : Holds(u)' PROVE WritersHoldTheirLocks'
    BY <1>7 DEF WritersHoldTheirLocks, Holds
<1>8. CASE LockWorkIds(t)
    <2>1. TakeLocks(t, "locked") /\ thread[t].state = "starting"
        BY <1>8 DEF LockWorkIds
    <2>2. \A k \in Ids(t) : locks'[k] = t
        BY <2>1, KeysType DEF TakeLocks, Wanted
    <2>3. thread'[t].state = "locked" /\ Ids(t)' = Ids(t)
        BY <1>1, <2>1 DEF TakeLocks, Goto, TypeOK, MatchState, Ids, Stub
    <2> QED
        BY <1>5, <1>7, <2>1, <2>2, <2>3 DEF Holds
<1>9. CASE LockSubgraphs(t)
    <2>1. TakeLocks(t, "relocked") /\ thread[t].state = "updated"
        BY <1>9 DEF LockSubgraphs
    <2>2. \A k \in AffectedSubgraphIds(t) : locks'[k] = t
        BY <2>1, KeysType DEF TakeLocks, Wanted
    <2>3. \A k \in Ids(t) : locks'[k] = t
        BY <1>1, <2>1, KeysType, OwnersAssumption DEF TakeLocks, Holds
    <2>4. /\ thread'[t].state = "relocked" /\ Ids(t)' = Ids(t)
          /\ AffectedSubgraphIds(t)' = AffectedSubgraphIds(t)
        BY <1>1, <2>1 DEF TakeLocks, Goto, TypeOK, MatchState, Ids, Stub,
                          AffectedSubgraphIds
    <2> QED
        BY <1>5, <1>7, <2>1, <2>2, <2>3, <2>4 DEF Holds
<1>10. CASE LockingFails(t)
    BY <1>3, <1>7, <1>10 DEF LockingFails
<1>11. CASE CheckWorkIsCurrent(t)
    <2>1. CASE Fail(t)
        BY <1>3, <1>7, <2>1
    <2>2. CASE Goto(t, "current") /\ UNCHANGED locks
        BY <1>1, <1>6, <1>7, <1>11, <2>2
        DEF CheckWorkIsCurrent, Goto, TypeOK, MatchState
    <2> QED
        BY <1>11, <2>1, <2>2 DEF CheckWorkIsCurrent
<1>12. CASE GetDirectlyAffected(t)
    <2>1. /\ thread'[t].work = thread[t].work /\ thread'[t].rev = thread[t].rev
          /\ thread'[t].before = thread[t].before
          /\ thread'[t].after = thread[t].after
          /\ thread'[t].state = IF thread[t].state = "current"
                                THEN "reading" ELSE "rereading"
          /\ \A u \in Threads \ {t} : thread'[u] = thread[u]
        BY <1>1, <1>12 DEF GetDirectlyAffected, TypeOK, MatchState
    <2>2. thread[t].state \in {"current", "relocked"} /\ UNCHANGED locks
        BY <1>12 DEF GetDirectlyAffected
    <2> QED
        BY <1>6, <1>7, <2>1, <2>2
<1>13. CASE QuerySubgraph(t)
    <2>1. PICK toRead, before, reread :
              /\ thread' = [thread EXCEPT ![t].toRead = toRead,
                                          ![t].before = before,
                                          ![t].reread = reread]
              /\ thread[t].state = "rereading" => before = thread[t].before
        BY <1>13 DEF QuerySubgraph
    <2>2. /\ thread'[t].work = thread[t].work /\ thread'[t].rev = thread[t].rev
          /\ thread'[t].before = before
          /\ thread'[t].after = thread[t].after
          /\ thread'[t].state = thread[t].state
          /\ \A u \in Threads \ {t} : thread'[u] = thread[u]
        BY <1>1, <2>1 DEF TypeOK, MatchState
    <2>3. thread[t].state \in {"reading", "rereading"} /\ UNCHANGED locks
        BY <1>13 DEF QuerySubgraph
    <2> QED
        BY <1>6, <1>7, <2>1, <2>2, <2>3
<1>14. CASE UpdateGraph(t)
    <2>1. PICK after :
              \/ Fail(t)
              \/ Succeed(t, after)
              \/ /\ thread' = [thread EXCEPT ![t].after = after,
                                             ![t].state = "updated"]
                 /\ UNCHANGED locks
        BY <1>14 DEF UpdateGraph
    <2>2. CASE Fail(t)
        BY <1>3, <1>7, <2>2
    <2>3. CASE Succeed(t, after)
        BY <1>4, <1>7, <2>3
    <2>4. CASE /\ thread' = [thread EXCEPT ![t].after = after,
                                           ![t].state = "updated"]
               /\ UNCHANGED locks
        <3>1. /\ thread'[t].work = thread[t].work /\ thread'[t].rev = thread[t].rev
              /\ thread'[t].state = "updated"
              /\ \A u \in Threads \ {t} : thread'[u] = thread[u]
            BY <1>1, <2>4 DEF TypeOK, MatchState
        <3> QED
            BY <1>6, <1>7, <1>14, <2>4, <3>1 DEF UpdateGraph
    <2> QED
        BY <2>1, <2>2, <2>3, <2>4
<1>15. CASE CompareReads(t)
    <2>1. CASE Fail(t)
        BY <1>3, <1>7, <2>1
    <2>2. CASE /\ thread' = [thread EXCEPT ![t].toPut = thread[t].after,
                                           ![t].state = "putting"]
               /\ UNCHANGED locks
        BY <1>1, <1>6, <1>7, <1>15, <2>2 DEF CompareReads, TypeOK, MatchState
    <2> QED
        BY <1>15, <2>1, <2>2 DEF CompareReads
<1>16. CASE PutNode(t)
    BY <1>1, <1>6, <1>7, <1>16 DEF PutNode, TypeOK, MatchState
<1>17. CASE FinishPut(t)
    BY <1>4, <1>7, <1>17 DEF FinishPut
<1> QED
    BY <1>8, <1>9, <1>10, <1>11, <1>12, <1>13, <1>14, <1>15, <1>16, <1>17
    DEF MatchStep

\* Every step keeps what every thread holds; a death or an expiry frees only
\* the locks of the dead.
LEMMA NextHolds ==
    TypeOK /\ WritersHoldTheirLocks /\ [Next]_vars => WritersHoldTheirLocks'
<1> SUFFICES ASSUME TypeOK, WritersHoldTheirLocks, [Next]_vars
             PROVE  WritersHoldTheirLocks'
    OBVIOUS
<1> USE DEF Running, HoldingIds, HoldingSubgraphs, FirstReading, SecondReading
<1>1. \A u \in Threads : Holds(u)
    BY DEF WritersHoldTheirLocks, Holds
<1>2. ASSUME \A u \in Threads : Holds(u)' PROVE WritersHoldTheirLocks'
    BY <1>2 DEF WritersHoldTheirLocks, Holds

\* A step that takes one thread out of its match, or into one.
<1>3. ASSUME NEW t \in Threads, thread'[t].state \notin HoldingIds,
             \A u \in Threads \ {t} : thread'[u] = thread[u],
             \A u \in Threads \ {t} : \A k \in LockIds :
                 locks[k] = u => locks'[k] = u
      PROVE  WritersHoldTheirLocks'
    <2>1. Holds(t)'
        BY <1>3 DEF Holds
    <2> QED
        BY <1>1, <1>2, <1>3, <2>1, OthersHold
<1>11. ASSUME NEW t \in Threads, Abandon({t})
       PROVE  \A u \in Threads \ {t} : \A k \in LockIds :
                  locks[k] = u => locks'[k] = u
    BY <1>11, OwnersAssumption DEF Abandon
<1>4. ASSUME NEW w \in Works, Publish(w) PROVE WritersHoldTheirLocks'
    BY <1>1, <1>2, <1>4, OthersHold DEF Publish
<1>5. ASSUME NEW t \in Threads, NEW w \in Works, StartMatch(t, w)
      PROVE  WritersHoldTheirLocks'
    BY <1>3, <1>5 DEF StartMatch, IdleThread, TypeOK
<1>6. ASSUME NEW t \in Threads, Collect(t) PROVE WritersHoldTheirLocks'
    BY <1>3, <1>6 DEF Collect, IdleThread, TypeOK
<1>7. ASSUME NEW t \in Threads, CallFails(t) PROVE WritersHoldTheirLocks'
    <2>1. \A u \in Threads \ {t} : \A k \in LockIds : locks[k] = u => locks'[k] = u
        BY <1>7, <1>11 DEF CallFails, Release
    <2> QED
        BY <1>3, <1>7, <2>1 DEF CallFails, EndInFailure, IdleThread, TypeOK
<1>8. ASSUME NEW t \in Threads, Die(t) PROVE WritersHoldTheirLocks'
    BY <1>3, <1>8, <1>11 DEF Die, IdleThread, TypeOK
<1>9. ASSUME NEW k \in LockIds, ExpireLock(k) PROVE WritersHoldTheirLocks'
    BY <1>1, <1>2, <1>9, OthersHold, OwnersAssumption DEF ExpireLock
<1>10. CASE UNCHANGED vars
    BY <1>1, <1>2, <1>10, OthersHold DEF vars
<1>12. ASSUME NEW t \in Threads, CheckIsUnreadable(t)
       PROVE  WritersHoldTheirLocks'
    <2>1. thread[t] \in MatchState
        BY DEF TypeOK
    <2>2. /\ thread'[t].state = "current"
          /\ thread'[t].work = thread[t].work /\ thread'[t].rev = thread[t].rev
          /\ \A u \in Threads \ {t} : thread'[u] = thread[u]
        BY <1>12, <2>1 DEF CheckIsUnreadable, Goto, TypeOK, MatchState
    <2>3. UNCHANGED locks /\ thread[t].state = "locked" /\ Ids(t)' = Ids(t)
        BY <1>12, <2>2 DEF CheckIsUnreadable, Ids, Stub
    <2>4. Holds(t)'
        BY <1>1, <2>2, <2>3 DEF Holds
    <2> QED
        BY <1>1, <1>2, <2>2, <2>3, <2>4, OthersHold
<1> QED
    BY <1>4, <1>5, <1>6, <1>7, <1>8, <1>9, <1>10, <1>12, MatchStepHolds DEF Next

\* From the first read to the last write a match holds the lock of every id it
\* talks about, and from the second read on that of every subgraph it changes,
\* whatever fails, dies and expires around it.
THEOREM LockDiscipline == Spec => []WritersHoldTheirLocks
<1>1. Init => WritersHoldTheirLocks
    BY DEF Init, IdleThread, WritersHoldTheirLocks, HoldingIds, HoldingSubgraphs,
           FirstReading, SecondReading
<1>2. TypeOK /\ WritersHoldTheirLocks /\ [Next]_vars => WritersHoldTheirLocks'
    BY NextHolds
<1> QED
    BY <1>1, <1>2, TypeCorrect, PTL DEF Spec

----------------------------------------------------------------------------
(***************************************************************************)
(* Matches happen one after another.                                       *)
(***************************************************************************)

\* What a match is going to write was computed from its first read, which may
\* have two rows of one id.
IsComputed(t) ==
    thread[t].state \in {"updated"} \union HoldingSubgraphs =>
        \E existing \in ById(thread[t].before) :
            /\ ~VersionConflict(thread[t].work, Stub(t), existing)
            /\ thread[t].after = AfterNodes(thread[t].work, Stub(t), existing)

\* Only a match that writes has rows to write, and only one that has read
\* twice has something to compare.
HasNothingYet(t) ==
    /\ thread[t].state # "putting" => thread[t].toPut = {}
    /\ thread[t].state \notin {"rereading", "putting"} => thread[t].reread = {}

\* In the subgraphs that t has locked, the second read finds whole subgraphs
\* of the ids of t, as they are and as they stay.
RereadsAreCurrent(t) ==
    thread[t].state = "rereading" =>
        /\ \A s \in thread[t].toRead : s \in AffectedSubgraphIds(t) =>
               \E m \in CommittedGraph : m.id \in Ids(t) /\ m.subgraphId = s
        /\ \A n \in thread[t].reread : n.subgraphId \in AffectedSubgraphIds(t) =>
               /\ n \in CommittedGraph
               /\ \E m \in CommittedGraph :
                      m.id \in Ids(t) /\ m.subgraphId = n.subgraphId
               /\ \A m \in CommittedGraph :
                      m.subgraphId = n.subgraphId => m \in thread[t].reread

\* The rows of a match that writes are all in the committed graph, and each
\* replaces a row of a subgraph that t has locked, or is the first of its id.
WritesAreCommitted(t) ==
    thread[t].state = "putting" =>
        /\ thread[t].toPut \subseteq thread[t].after
        /\ thread[t].after \subseteq CommittedGraph
        /\ \A m \in thread[t].toPut :
               /\ m.id \in Ids(t) \/ \E n \in graph : n.id = m.id
               /\ \A n \in graph : n.id = m.id =>
                      n.subgraphId \in AffectedSubgraphIds(t)

Matches(t) ==
    /\ IsComputed(t)
    /\ HasNothingYet(t)
    /\ RereadsAreCurrent(t)
    /\ WritesAreCommitted(t)

CommitInv ==
    /\ Keyed(CommittedGraph)
    /\ LinksClosed(CommittedGraph)
    /\ \A t \in Threads : Matches(t)

SerialInv == TypeOK /\ WritersHoldTheirLocks /\ CommitInv

\* A row of the committed graph is about to be written, or is in the table and
\* not about to be replaced.
LEMMA CommittedRows ==
    ASSUME NEW n
    PROVE  n \in CommittedGraph <=>
               \/ \E t \in Threads : n \in thread[t].toPut
               \/ /\ n \in graph
                  /\ \A t \in Threads : \A m \in thread[t].toPut : m.id # n.id
BY DEF CommittedGraph, PutAll

LEMMA CommittedRowsPrime ==
    ASSUME NEW n
    PROVE  n \in CommittedGraph' <=>
               \/ \E t \in Threads : n \in thread'[t].toPut
               \/ /\ n \in graph'
                  /\ \A t \in Threads : \A m \in thread'[t].toPut : m.id # n.id
BY DEF CommittedGraph, PutAll

\* The committed graph is a set of rows.
LEMMA CommittedType ==
    ASSUME TypeOK
    PROVE  CommittedGraph \in SUBSET WorkNode
<1>1. graph \subseteq WorkNode /\ \A t \in Threads : thread[t].toPut \subseteq WorkNode
    BY DEF TypeOK, MatchState
<1> QED
    BY <1>1, CommittedRows

\* It does not change when the table and the rows to put do not.
LEMMA SameRows ==
    ASSUME UNCHANGED graph,
           \A u \in Threads : thread'[u].toPut = thread[u].toPut
    PROVE  UNCHANGED CommittedGraph
BY CommittedRows, CommittedRowsPrime

\* Nor does anything change for a match that a step leaves alone, as long as
\* the step changes no row.
LEMMA SameMatch ==
    ASSUME NEW u \in Threads, Matches(u), thread'[u] = thread[u],
           UNCHANGED <<graph, CommittedGraph>>
    PROVE  Matches(u)'
<1>1. /\ Ids(u)' = Ids(u) /\ Stub(u)' = Stub(u)
      /\ AffectedSubgraphIds(u)' = AffectedSubgraphIds(u)
    BY DEF Ids, Stub, AffectedSubgraphIds
<1>2. IsComputed(u)' /\ HasNothingYet(u)'
    BY <1>1 DEF Matches, IsComputed, HasNothingYet
<1>3. RereadsAreCurrent(u)' /\ WritesAreCommitted(u)'
    BY <1>1 DEF Matches, RereadsAreCurrent, WritesAreCommitted
<1> QED
    BY <1>2, <1>3 DEF Matches

\* Matches may begin and end together with anything that is neither table nor
\* thread: a match that ends has no rows to write.
LEMMA StepAside ==
    ASSUME CommitInv, UNCHANGED graph,
           \A u \in Threads :
               \/ thread'[u] = thread[u]
               \/ /\ thread[u].toPut = {}
                  /\ thread'[u].state \notin HoldingIds
                  /\ thread'[u].toPut = {}
                  /\ thread'[u].reread = {}
    PROVE  CommitInv' /\ UNCHANGED CommittedGraph
<1>1. UNCHANGED CommittedGraph
    BY SameRows
<1>2. ASSUME NEW u \in Threads PROVE Matches(u)'
    <2>1. CASE thread'[u] = thread[u]
        BY <1>1, <2>1, SameMatch DEF CommitInv
    <2>2. CASE /\ thread'[u].state \notin HoldingIds
               /\ thread'[u].toPut = {}
               /\ thread'[u].reread = {}
        BY <2>2 DEF Matches, IsComputed, HasNothingYet, RereadsAreCurrent,
                    WritesAreCommitted, HoldingIds, HoldingSubgraphs, SecondReading
    <2> QED
        BY <2>1, <2>2
<1> QED
    BY <1>1, <1>2 DEF CommitInv, Keyed, LinksClosed, WithSource

\* No two threads hold one subgraph, so that nobody else writes to it.
LEMMA OneHolder ==
    ASSUME WritersHoldTheirLocks, NEW t \in Threads, NEW u \in Threads,
           thread[t].state \in HoldingSubgraphs,
           thread[u].state \in HoldingSubgraphs,
           NEW s, s \in AffectedSubgraphIds(t), s \in AffectedSubgraphIds(u)
    PROVE  t = u
BY DEF WritersHoldTheirLocks

\* The rows that somebody is about to write are of a subgraph that it holds,
\* and so are the rows of the table that they are about to replace.
LEMMA RowsToPut ==
    ASSUME CommitInv, NEW u \in Threads, NEW m \in thread[u].toPut
    PROVE  /\ thread[u].state = "putting"
           /\ m \in CommittedGraph
           /\ m.subgraphId \in AffectedSubgraphIds(u)
           /\ \A n \in graph :
                  n.id = m.id => n.subgraphId \in AffectedSubgraphIds(u)
           /\ m.id \in Ids(u) \/ \E n \in graph : n.id = m.id
BY DEF CommitInv, Matches, HasNothingYet, WritesAreCommitted, AffectedSubgraphIds

\* While a match reads again, the subgraphs that it has locked are in the table
\* as they are in the committed graph.
LEMMA LockedSubgraphs ==
    ASSUME WritersHoldTheirLocks, CommitInv, NEW t \in Threads,
           thread[t].state \in SecondReading,
           NEW n, n.subgraphId \in AffectedSubgraphIds(t)
    PROVE  n \in graph <=> n \in CommittedGraph
<1>1. \A u \in Threads : thread[u].state = "putting" => u # t
    BY DEF SecondReading
<1>2. \A u \in Threads : thread[u].state = "putting" =>
          n.subgraphId \notin AffectedSubgraphIds(u)
    BY <1>1, OneHolder DEF HoldingSubgraphs
<1> QED
    BY <1>2, RowsToPut, CommittedRows

\* Steps of one match that leave the table and the rows to put alone: it goes
\* on to a state in which there is nothing to show, or shows it itself.
LEMMA StepAlone ==
    ASSUME CommitInv, NEW t \in Threads,
           \A u \in Threads \ {t} : thread'[u] = thread[u],
           thread'[t].toPut = thread[t].toPut, UNCHANGED graph,
           UNCHANGED CommittedGraph => Matches(t)'
    PROVE  CommitInv' /\ UNCHANGED CommittedGraph
<1>1. UNCHANGED CommittedGraph
    BY SameRows
<1>2. \A u \in Threads \ {t} : Matches(u)'
    BY <1>1, SameMatch DEF CommitInv
<1> QED
    BY <1>1, <1>2 DEF CommitInv, Keyed, LinksClosed, WithSource

\* A query of the second read adds one subgraph to it.
LEMMA SecondQuery ==
    ASSUME NEW t \in Threads, QuerySubgraph(t), thread[t].state = "rereading"
    PROVE  /\ UNCHANGED graph
           /\ \E s \in thread[t].toRead :
                  thread' = [thread EXCEPT
                      ![t].toRead = thread[t].toRead \ {s},
                      ![t].before = thread[t].before,
                      ![t].reread = thread[t].reread
                                        \union {n \in graph : n.subgraphId = s}]
<1>1. PICK s \in thread[t].toRead :
          thread' = [thread EXCEPT
              ![t].toRead = thread[t].toRead \ {s},
              ![t].before = IF thread[t].state = "reading"
                            THEN thread[t].before
                                     \union {n \in graph : n.subgraphId = s}
                            ELSE thread[t].before,
              ![t].reread = IF thread[t].state = "rereading"
                            THEN thread[t].reread
                                     \union {n \in graph : n.subgraphId = s}
                            ELSE thread[t].reread]
    BY DEF QuerySubgraph
<1> QED
    BY <1>1 DEF QuerySubgraph

\* The second read: its first half finds the subgraphs of the ids of t, and
\* each query a whole one of them.
LEMMA SecondReadStep ==
    ASSUME TypeOK, WritersHoldTheirLocks, CommitInv, NEW t \in Threads,
           \/ GetDirectlyAffected(t) /\ thread[t].state = "relocked"
           \/ QuerySubgraph(t) /\ thread[t].state = "rereading"
    PROVE  CommitInv' /\ UNCHANGED CommittedGraph
<1>1. thread[t] \in MatchState /\ Matches(t) /\ thread[t].toPut = {}
    BY DEF TypeOK, CommitInv, Matches, HasNothingYet, GetDirectlyAffected
<1>2. /\ thread'[t].state = "rereading" /\ UNCHANGED graph
      /\ thread'[t].work = thread[t].work /\ thread'[t].rev = thread[t].rev
      /\ thread'[t].before = thread[t].before
      /\ thread'[t].after = thread[t].after
      /\ thread'[t].toPut = thread[t].toPut
      /\ \A u \in Threads \ {t} : thread'[u] = thread[u]
    <2>1. CASE GetDirectlyAffected(t) /\ thread[t].state = "relocked"
        BY <1>1, <2>1 DEF GetDirectlyAffected, TypeOK, MatchState
    <2>2. CASE QuerySubgraph(t) /\ thread[t].state = "rereading"
        <3>1. PICK s \in thread[t].toRead :
                  thread' = [thread EXCEPT
                      ![t].toRead = thread[t].toRead \ {s},
                      ![t].before = thread[t].before,
                      ![t].reread = thread[t].reread
                                        \union {n \in graph : n.subgraphId = s}]
            BY <2>2, SecondQuery
        <3>2. UNCHANGED graph
            BY <2>2, SecondQuery
        <3> QED
            BY <1>1, <2>2, <3>1, <3>2 DEF TypeOK, MatchState
    <2> QED
        BY <2>1, <2>2
<1>3. /\ Ids(t)' = Ids(t) /\ Stub(t)' = Stub(t)
      /\ AffectedSubgraphIds(t)' = AffectedSubgraphIds(t)
    BY <1>2 DEF Ids, Stub, AffectedSubgraphIds
<1>4. /\ thread[t].state \in SecondReading
      /\ \A n : n.subgraphId \in AffectedSubgraphIds(t) =>
                    (n \in graph <=> n \in CommittedGraph)
    BY LockedSubgraphs DEF SecondReading
<1>5. IsComputed(t)'
    BY <1>1, <1>2, <1>3, <1>4
    DEF Matches, IsComputed, HoldingSubgraphs, SecondReading
<1>6. ASSUME UNCHANGED CommittedGraph PROVE RereadsAreCurrent(t)'
    <2>1. CASE GetDirectlyAffected(t) /\ thread[t].state = "relocked"
        <3>1. /\ thread'[t].toRead =
                     {n.subgraphId : n \in {m \in graph : m.id \in Ids(t)}}
              /\ thread'[t].reread = {}
            BY <1>1, <2>1 DEF GetDirectlyAffected, TypeOK, MatchState, Matches,
                              HasNothingYet
        <3> QED
            BY <1>3, <1>4, <1>6, <3>1 DEF RereadsAreCurrent
    <2>2. CASE QuerySubgraph(t) /\ thread[t].state = "rereading"
        <3>1. PICK s \in thread[t].toRead :
                  /\ thread'[t].toRead = thread[t].toRead \ {s}
                  /\ thread'[t].reread =
                         thread[t].reread \union {n \in graph : n.subgraphId = s}
            <4>1. PICK s \in thread[t].toRead :
                      thread' = [thread EXCEPT
                          ![t].toRead = thread[t].toRead \ {s},
                          ![t].before = thread[t].before,
                          ![t].reread = thread[t].reread
                                            \union {n \in graph : n.subgraphId = s}]
                BY <2>2, SecondQuery
            <4>2. thread'[t] = [thread[t] EXCEPT
                      !.toRead = thread[t].toRead \ {s},
                      !.before = thread[t].before,
                      !.reread = thread[t].reread
                                     \union {n \in graph : n.subgraphId = s}]
                BY <1>1, <4>1 DEF TypeOK
            <4> QED
                BY <1>1, <4>2 DEF MatchState
        <3> DEFINE A == AffectedSubgraphIds(t)
        <3>2. \A r \in thread[t].toRead : r \in A =>
                  \E m \in CommittedGraph : m.id \in Ids(t) /\ m.subgraphId = r
            BY <1>1, <2>2 DEF Matches, RereadsAreCurrent
        <3>3. \A n \in thread[t].reread : n.subgraphId \in A =>
                  /\ n \in CommittedGraph
                  /\ \E m \in CommittedGraph :
                         m.id \in Ids(t) /\ m.subgraphId = n.subgraphId
                  /\ \A m \in CommittedGraph :
                         m.subgraphId = n.subgraphId => m \in thread[t].reread
            BY <1>1, <2>2 DEF Matches, RereadsAreCurrent
        <3>4. \A n \in thread'[t].reread : n.subgraphId \in A =>
                  /\ n \in CommittedGraph
                  /\ \E m \in CommittedGraph :
                         m.id \in Ids(t) /\ m.subgraphId = n.subgraphId
                  /\ \A m \in CommittedGraph :
                         m.subgraphId = n.subgraphId => m \in thread'[t].reread
            BY <1>4, <3>1, <3>2, <3>3
        <3> QED
            BY <1>3, <1>6, <3>1, <3>2, <3>4 DEF RereadsAreCurrent
    <2> QED
        BY <2>1, <2>2
<1>7. HasNothingYet(t)' /\ WritesAreCommitted(t)'
    BY <1>1, <1>2 DEF HasNothingYet, WritesAreCommitted
<1> QED
    BY <1>2, <1>5, <1>6, <1>7, StepAlone DEF Matches

\* A second read that equals the first, and that found the row of every id
\* that has one, is the whole of what the match affects: the rows that are not
\* in subgraphs it has locked would make a difference between the reads.
LEMMA ConfirmedRead ==
    ASSUME TypeOK, WritersHoldTheirLocks, CommitInv, RereadsFindTheirIds,
           NEW t \in Threads, thread[t].state = "rereading",
           thread[t].toRead = {}, thread[t].reread = thread[t].before
    PROVE  thread[t].before = FindAffectedWorks(CommittedGraph, Ids(t))
<1> DEFINE read == thread[t].reread
<1>1. \A n \in read : n.subgraphId \in AffectedSubgraphIds(t)
    BY DEF AffectedSubgraphIds
<1>2. \A n \in read :
          /\ n \in CommittedGraph
          /\ \E m \in CommittedGraph : m.id \in Ids(t) /\ m.subgraphId = n.subgraphId
          /\ \A m \in CommittedGraph : m.subgraphId = n.subgraphId => m \in read
    BY <1>1 DEF CommitInv, Matches, RereadsAreCurrent
<1> HIDE DEF read

\* An id that has a row in the committed graph has one in the table: a thread
\* that is about to write the first row of an id holds the lock of the id.
<1>3. ASSUME NEW m \in CommittedGraph, m.id \in Ids(t)
      PROVE  \E n \in graph : n.id = m.id
    <2>1. ASSUME NEW u \in Threads, m \in thread[u].toPut, m.id \in Ids(u)
          PROVE  FALSE
        <3>1. thread[u].state = "putting"
            BY <2>1, RowsToPut
        <3>2. locks[m.id] = u /\ locks[m.id] = t
            BY <1>3, <2>1, <3>1 DEF WritersHoldTheirLocks, HoldingIds,
                                    HoldingSubgraphs, SecondReading
        <3> QED
            BY <3>1, <3>2
    <2> QED
        BY <2>1, RowsToPut, CommittedRows
<1>4. ASSUME NEW m \in CommittedGraph, m.id \in Ids(t) PROVE m \in read
    <2>1. PICK n \in graph : n.id = m.id
        BY <1>4, <1>3
    <2>2. PICK r \in read : r.id = n.id
        BY <1>4, <2>1 DEF RereadsFindTheirIds, read
    <2> QED
        BY <1>2, <1>4, <2>1, <2>2 DEF CommitInv, Keyed
<1>5. read = FindAffectedWorks(CommittedGraph, Ids(t))
    BY <1>2, <1>4 DEF FindAffectedWorks
<1> QED
    BY <1>5 DEF read

\* A match whose second read confirms the first is an update of the committed
\* graph.
LEMMA CommitUpdates ==
    ASSUME TypeOK, WritersHoldTheirLocks, CommitInv, RereadsFindTheirIds,
           NEW t \in Threads, CompareReads(t),
           thread[t].reread = thread[t].before
    PROVE  /\ ~VersionConflict(thread[t].work, Stub(t), thread[t].before)
           /\ \E sources, ids :
                  /\ UpdateOf(CommittedGraph,
                              PutAll(CommittedGraph, thread[t].after),
                              thread[t].work, Stub(t), thread[t].before,
                              sources, ids, thread[t].after)
                  /\ Keyed(thread[t].after)
                  /\ \A n \in thread[t].after : n.id \in ids
<1>1. /\ thread[t].state = "rereading" /\ thread[t].toRead = {}
      /\ thread[t].state \in Running
    BY DEF CompareReads, Running, HoldingIds, HoldingSubgraphs, SecondReading
<1>2. thread[t].before = FindAffectedWorks(CommittedGraph, Ids(t))
    BY <1>1, ConfirmedRead
<1>3. Keyed(thread[t].before)
    BY <1>2 DEF CommitInv, Keyed, FindAffectedWorks
<1>4. PICK existing \in ById(thread[t].before) :
          /\ ~VersionConflict(thread[t].work, Stub(t), existing)
          /\ thread[t].after = AfterNodes(thread[t].work, Stub(t), existing)
    BY <1>1 DEF CommitInv, Matches, IsComputed, HoldingSubgraphs, SecondReading
<1>5. existing = thread[t].before
    <2>1. /\ existing \subseteq thread[t].before
          /\ \A n \in thread[t].before : \E m \in existing : m.id = n.id
        BY <1>4 DEF ById
    <2> QED
        BY <1>3, <2>1 DEF Keyed
<1>6. /\ thread[t].work \in Works /\ Stub(t) \in WorkStub
      /\ thread[t].before \in SUBSET WorkNode
    BY <1>1, RunningType DEF TypeOK, MatchState
<1> DEFINE sources == WithSource(AllWorks(thread[t].work, Stub(t), thread[t].before))
           ids == WorkIds(sources)
<1>7. UpdateOf(CommittedGraph, PutAll(CommittedGraph, thread[t].after),
               thread[t].work, Stub(t), thread[t].before, sources, ids,
               thread[t].after)
    BY <1>2, <1>4, <1>5 DEF UpdateOf, Ids
<1>8. Keyed(thread[t].after) /\ \A n \in thread[t].after : n.id \in ids
    BY <1>3, <1>4, <1>5, <1>6, RowsOfUpdate
<1> HIDE DEF sources, ids
<1> QED
    BY <1>4, <1>5, <1>7, <1>8

\* The rows of one match that starts to write replace none that another match
\* is writing: they would have to be in a subgraph that both hold.
LEMMA Commit ==
    ASSUME TypeOK, WritersHoldTheirLocks, CommitInv, RereadsFindTheirIds,
           NEW t \in Threads, CompareReads(t),
           thread[t].reread = thread[t].before
    PROVE  /\ CommitInv'
           /\ CommittedGraph' = PutAll(CommittedGraph, thread[t].after)
<1> DEFINE after == thread[t].after
           before == thread[t].before
           new == PutAll(CommittedGraph, after)
           A == AffectedSubgraphIds(t)
<1>1. /\ thread[t].state = "rereading" /\ UNCHANGED graph
      /\ thread' = [thread EXCEPT ![t].toPut = thread[t].after,
                                  ![t].state = "putting"]
    BY DEF CompareReads
<1>2. /\ thread[t] \in MatchState /\ Matches(t) /\ thread[t].toPut = {}
      /\ thread[t].state \in SecondReading /\ thread[t].state \in HoldingSubgraphs
      /\ thread[t].state \in Running
    BY <1>1 DEF TypeOK, CommitInv, Matches, HasNothingYet, SecondReading,
                HoldingSubgraphs, Running, HoldingIds
<1>3. /\ thread'[t].state = "putting" /\ thread'[t].toPut = after
      /\ thread'[t].work = thread[t].work /\ thread'[t].rev = thread[t].rev
      /\ thread'[t].before = before /\ thread'[t].after = after
      /\ \A u \in Threads \ {t} : thread'[u] = thread[u]
    BY <1>1, <1>2 DEF TypeOK, MatchState
<1>4. /\ Ids(t)' = Ids(t) /\ Stub(t)' = Stub(t)
      /\ AffectedSubgraphIds(t)' = A
    BY <1>3 DEF Ids, Stub, AffectedSubgraphIds
<1>5. PICK sources, ids :
          /\ UpdateOf(CommittedGraph, new, thread[t].work, Stub(t), before,
                      sources, ids, after)
          /\ Keyed(after)
          /\ \A n \in after : n.id \in ids
    BY CommitUpdates
<1>6. /\ CommittedGraph \in SUBSET WorkNode /\ Keyed(CommittedGraph)
      /\ LinksClosed(CommittedGraph)
      /\ thread[t].work \in Works /\ Stub(t) \in WorkStub
    BY <1>2, CommittedType, RunningType DEF CommitInv
<1>7. /\ \A m \in CommittedGraph : m.id \in ids => m \in before
      /\ \A i \in ids : i \in StubIds(thread[t].work, Stub(t))
                            \/ \E m \in before : m.id = i
      /\ before \subseteq CommittedGraph
    BY <1>5, <1>6, WritesOfUpdate
<1>8. /\ \A n \in before : n.subgraphId \in A
      /\ \A n \in after : n.subgraphId \in A
    BY DEF AffectedSubgraphIds
<1> HIDE DEF after, before, A
<1>9. \A u \in Threads \ {t} : \A s \in AffectedSubgraphIds(u) :
          thread[u].state \in HoldingSubgraphs => s \notin A
    BY <1>2, OneHolder DEF A
<1>10. ASSUME NEW u \in Threads, NEW m \in thread[u].toPut
       PROVE  m.id \notin ids
    <2>1. /\ u # t /\ m \in CommittedGraph /\ thread[u].state \in HoldingSubgraphs
          /\ m.subgraphId \in AffectedSubgraphIds(u)
        BY <1>2, <1>10, RowsToPut DEF HoldingSubgraphs
    <2> QED
        BY <1>7, <1>8, <1>9, <2>1
<1>11. CommittedGraph' = new
    <2>1. \A n : n \in new <=> \/ n \in after
                               \/ /\ n \in CommittedGraph
                                  /\ \A m \in after : m.id # n.id
        BY DEF PutAll
    <2> HIDE DEF new
    <2>2. \A n : n \in CommittedGraph' <=>
              \/ n \in after
              \/ \E u \in Threads \ {t} : n \in thread[u].toPut
              \/ /\ n \in graph
                 /\ \A m \in after : m.id # n.id
                 /\ \A u \in Threads \ {t} : \A m \in thread[u].toPut : m.id # n.id
        <3> SUFFICES ASSUME NEW n
                     PROVE  n \in CommittedGraph' <=>
              \/ n \in after
              \/ \E u \in Threads \ {t} : n \in thread[u].toPut
              \/ /\ n \in graph
                 /\ \A m \in after : m.id # n.id
                 /\ \A u \in Threads \ {t} : \A m \in thread[u].toPut : m.id # n.id
            OBVIOUS
        <3>1. (\E u \in Threads : n \in thread'[u].toPut) <=>
                  \/ n \in after
                  \/ \E u \in Threads \ {t} : n \in thread[u].toPut
            BY <1>3
        <3>2. (\A u \in Threads : \A m \in thread'[u].toPut : m.id # n.id) <=>
                  /\ \A m \in after : m.id # n.id
                  /\ \A u \in Threads \ {t} : \A m \in thread[u].toPut :
                         m.id # n.id
            BY <1>3
        <3> QED
            BY <1>1, <3>1, <3>2, CommittedRowsPrime
    <2>3. \A n : n \in CommittedGraph <=>
              \/ \E u \in Threads \ {t} : n \in thread[u].toPut
              \/ /\ n \in graph
                 /\ \A u \in Threads \ {t} : \A m \in thread[u].toPut : m.id # n.id
        BY <1>2, CommittedRows
    <2>4. \A u \in Threads \ {t} : \A m \in thread[u].toPut : \A n \in after :
              m.id # n.id
        BY <1>5, <1>10
    <2> QED
        BY <2>1, <2>2, <2>3, <2>4

\* The subgraphs that somebody else holds stay as they are.
<1>12. ASSUME NEW u \in Threads \ {t}, thread[u].state \in HoldingSubgraphs,
              NEW n, n.subgraphId \in AffectedSubgraphIds(u)
       PROVE  n \in CommittedGraph' <=> n \in CommittedGraph
    <2>1. n.subgraphId \notin A
        BY <1>9, <1>12
    <2> QED
        BY <1>5, <1>7, <1>8, <1>11, <2>1 DEF PutAll
<1>13. ASSUME NEW u \in Threads \ {t} PROVE Matches(u)'
    <2>1. thread'[u] = thread[u] /\ Matches(u)
        BY <1>3 DEF CommitInv
    <2>2. /\ Ids(u)' = Ids(u) /\ Stub(u)' = Stub(u)
          /\ AffectedSubgraphIds(u)' = AffectedSubgraphIds(u)
        BY <2>1 DEF Ids, Stub, AffectedSubgraphIds
    <2>3. IsComputed(u)' /\ HasNothingYet(u)'
        BY <2>1, <2>2 DEF Matches, IsComputed, HasNothingYet
    <2>4. RereadsAreCurrent(u)'
        BY <1>12, <2>1, <2>2
        DEF Matches, RereadsAreCurrent, HoldingSubgraphs, SecondReading
    <2>5. WritesAreCommitted(u)'
        <3>1. \A n \in thread[u].after : n.subgraphId \in AffectedSubgraphIds(u)
            BY DEF AffectedSubgraphIds
        <3> QED
            BY <1>1, <1>12, <2>1, <2>2, <3>1
            DEF Matches, WritesAreCommitted, HoldingSubgraphs
    <2> QED
        BY <2>3, <2>4, <2>5 DEF Matches
<1>14. Matches(t)'
    <2>1. IsComputed(t)'
        BY <1>2, <1>3, <1>4 DEF Matches, IsComputed, HoldingSubgraphs, before, after
    <2>2. \A n \in before : n \in graph
        BY <1>2, <1>7, <1>8, LockedSubgraphs DEF A
    <2>3. ASSUME NEW n \in graph, n.id \in ids PROVE n \in CommittedGraph
        BY <1>10, <2>3, CommittedRows
    <2>4. WritesAreCommitted(t)'
        <3>1. after \subseteq CommittedGraph'
            BY <1>11 DEF PutAll
        <3>2. ASSUME NEW m \in after
              PROVE  /\ m.id \in Ids(t) \/ \E n \in graph : n.id = m.id
                     /\ \A n \in graph : n.id = m.id => n.subgraphId \in A
            BY <1>5, <1>7, <1>8, <2>2, <2>3, <3>2 DEF Ids
        <3> QED
            BY <1>1, <1>3, <1>4, <3>1, <3>2 DEF WritesAreCommitted
    <2> QED
        BY <1>3, <2>1, <2>4 DEF Matches, HasNothingYet, RereadsAreCurrent
<1>15. Keyed(CommittedGraph') /\ LinksClosed(CommittedGraph')
    <2>1. LinksClosed(new)
        BY <1>5, <1>6, LinksOfUpdate
    <2>2. Keyed(new)
        BY <1>5, <1>6 DEF PutAll, Keyed
    <2> QED
        BY <1>11, <2>1, <2>2
<1>16. CommitInv'
    <2>1. Keyed(CommittedGraph)' /\ LinksClosed(CommittedGraph)'
        BY <1>15 DEF Keyed, LinksClosed, WithSource
    <2> QED
        BY <1>13, <1>14, <2>1 DEF CommitInv
<1> QED
    BY <1>11, <1>16 DEF after

\* A put changes the table but not the committed graph, and nothing that
\* another match relies on.
LEMMA PutStep ==
    ASSUME TypeOK, WritersHoldTheirLocks, CommitInv, NEW t \in Threads, PutNode(t)
    PROVE  CommitInv' /\ UNCHANGED CommittedGraph
<1>1. PICK p \in thread[t].toPut :
          /\ graph' = PutAll(graph, {p})
          /\ thread' = [thread EXCEPT ![t].toPut = thread[t].toPut \ {p}]
    BY DEF PutNode
<1>2. /\ thread[t] \in MatchState /\ thread[t].state = "putting"
      /\ \A u \in Threads : Matches(u)
      /\ Keyed(CommittedGraph)
    BY DEF PutNode, TypeOK, CommitInv
<1>3. /\ thread'[t].toPut = thread[t].toPut \ {p}
      /\ thread'[t].state = "putting"
      /\ thread'[t].work = thread[t].work /\ thread'[t].rev = thread[t].rev
      /\ thread'[t].before = thread[t].before
      /\ thread'[t].after = thread[t].after
      /\ \A u \in Threads \ {t} : thread'[u] = thread[u]
    BY <1>1, <1>2 DEF TypeOK, MatchState
<1>4. \A n : n \in graph' <=> n = p \/ (n \in graph /\ n.id # p.id)
    BY <1>1 DEF PutAll

\* The rows to put have different ids, also those of different matches.
<1>5. ASSUME NEW u \in Threads, NEW m \in thread[u].toPut, m.id = p.id
      PROVE  m = p
    BY <1>2, <1>5, RowsToPut DEF Keyed
<1>6. UNCHANGED CommittedGraph
    <2>1. ASSUME NEW n PROVE n \in CommittedGraph => n \in CommittedGraph'
        <3>1. CASE n = p
            <4>1. \A u \in Threads : \A m \in thread'[u].toPut :
                      m.id = p.id => m = p
                BY <1>3, <1>5
            <4> QED
                BY <1>4, <3>1, <4>1, CommittedRowsPrime
        <3>2. CASE n # p /\ \E u \in Threads : n \in thread[u].toPut
            BY <1>3, <3>2, CommittedRowsPrime
        <3>3. CASE /\ n \in graph
                   /\ \A u \in Threads : \A m \in thread[u].toPut : m.id # n.id
            <4>1. n.id # p.id
                BY <3>3
            <4>2. \A u \in Threads : \A m \in thread'[u].toPut : m.id # n.id
                BY <1>3, <3>3
            <4> QED
                BY <1>4, <3>3, <4>1, <4>2, CommittedRowsPrime
        <3> QED
            BY <3>1, <3>2, <3>3, CommittedRows
    <2>2. ASSUME NEW n PROVE n \in CommittedGraph' => n \in CommittedGraph
        <3>1. \A u \in Threads : thread'[u].toPut \subseteq thread[u].toPut
            BY <1>3
        <3>2. CASE \E u \in Threads : n \in thread'[u].toPut
            BY <3>1, <3>2, CommittedRows
        <3>3. CASE n = p
            BY <3>3, CommittedRows
        <3>4. CASE /\ n \in graph /\ n.id # p.id
                   /\ \A u \in Threads : \A m \in thread'[u].toPut : m.id # n.id
            <4>1. \A u \in Threads : \A m \in thread[u].toPut : m.id # n.id
                BY <1>3, <3>4
            <4> QED
                BY <3>4, <4>1, CommittedRows
        <3> QED
            BY <1>4, <3>2, <3>3, <3>4, CommittedRowsPrime
    <2> QED
        BY <2>1, <2>2, CommittedType DEF CommittedGraph, PutAll
<1>7. ASSUME NEW u \in Threads PROVE Matches(u)'
    <2>1. /\ thread'[u].state = thread[u].state
          /\ thread'[u].work = thread[u].work /\ thread'[u].rev = thread[u].rev
          /\ thread'[u].before = thread[u].before
          /\ thread'[u].after = thread[u].after
          /\ thread'[u].toPut \subseteq thread[u].toPut
          /\ thread[u].state # "putting" =>
                 /\ thread'[u].toPut = thread[u].toPut
                 /\ thread'[u].reread = thread[u].reread
                 /\ thread'[u].toRead = thread[u].toRead
        BY <1>2, <1>3
    <2>2. /\ Ids(u)' = Ids(u) /\ Stub(u)' = Stub(u)
          /\ AffectedSubgraphIds(u)' = AffectedSubgraphIds(u)
        BY <2>1 DEF Ids, Stub, AffectedSubgraphIds
    <2>3. IsComputed(u)' /\ HasNothingYet(u)'
        BY <1>2, <2>1, <2>2 DEF Matches, IsComputed, HasNothingYet
    <2>4. RereadsAreCurrent(u)'
        <3>1. CASE thread[u].state = "rereading"
            <4>1. thread'[u] = thread[u] /\ RereadsAreCurrent(u)
                BY <1>2, <1>3, <3>1 DEF Matches
            <4> QED
                BY <1>6, <2>2, <4>1 DEF RereadsAreCurrent
        <3> QED
            BY <2>1, <3>1 DEF RereadsAreCurrent
    <2>5. WritesAreCommitted(u)'
        <3>1. ASSUME NEW m \in thread'[u].toPut
              PROVE  /\ m.id \in Ids(u) \/ \E n \in graph' : n.id = m.id
                     /\ \A n \in graph' : n.id = m.id =>
                            n.subgraphId \in AffectedSubgraphIds(u)
            <4>1. /\ m \in thread[u].toPut
                  /\ m.id = p.id => m = p
                BY <1>5, <2>1
            <4>2. /\ m.subgraphId \in AffectedSubgraphIds(u)
                  /\ \A n \in graph :
                         n.id = m.id => n.subgraphId \in AffectedSubgraphIds(u)
                  /\ m.id \in Ids(u) \/ \E n \in graph : n.id = m.id
                BY <4>1, RowsToPut
            <4> QED
                BY <1>4, <4>1, <4>2
        <3> QED
            BY <1>2, <1>6, <2>1, <2>2, <3>1 DEF Matches, WritesAreCommitted
    <2> QED
        BY <2>3, <2>4, <2>5 DEF Matches
<1> QED
    BY <1>6, <1>7 DEF CommitInv, Keyed, LinksClosed, WithSource

\* What a step does to the committed graph: nothing, or all of a match.
Serially(t) ==
    /\ CommitInv'
    /\ \/ UNCHANGED CommittedGraph
       \/ /\ CompareReads(t) /\ thread[t].reread = thread[t].before
          /\ ~VersionConflict(thread[t].work, Stub(t), thread[t].before)
          /\ thread[t].before = FindAffectedWorks(CommittedGraph, Ids(t))
          /\ thread[t].after = AfterNodes(thread[t].work, Stub(t), thread[t].before)
          /\ CommittedGraph' = PutAll(CommittedGraph, thread[t].after)
          /\ thread[t].state \in Running

\* A match that ends leaves the committed graph alone, as long as it does not
\* leave rows unwritten.
LEMMA EndStep ==
    ASSUME TypeOK, CommitInv, NEW t \in Threads, thread[t].toPut = {},
           \/ EndInFailure(t)
           \/ /\ \E nodes : Succeed(t, nodes)
              /\ UNCHANGED graph
    PROVE  CommitInv' /\ UNCHANGED CommittedGraph
<1>1. UNCHANGED graph
    BY DEF EndInFailure
<1>2. \A u \in Threads \ {t} : thread'[u] = thread[u]
    BY DEF EndInFailure, Succeed, TypeOK
<1>3. /\ thread'[t].state \in Ended /\ thread'[t].toPut = {}
      /\ thread'[t].reread = {}
    <2>1. CASE EndInFailure(t)
        BY <2>1 DEF EndInFailure, TypeOK, IdleThread, Ended
    <2>2. CASE \E nodes : Succeed(t, nodes)
        <3>1. PICK nodes : thread' = [thread EXCEPT ![t] = [IdleThread EXCEPT
                  !.state = "matched", !.work = thread[t].work,
                  !.rev = thread[t].rev, !.after = nodes]]
            BY <2>2 DEF Succeed
        <3> QED
            BY <3>1 DEF TypeOK, IdleThread, Ended
    <2> QED
        BY <2>1, <2>2
<1>4. thread'[t].state \notin HoldingIds
    BY <1>3 DEF Ended, HoldingIds, FirstReading, HoldingSubgraphs, SecondReading
<1> QED
    BY <1>1, <1>2, <1>3, <1>4, StepAside

\* Each step of a match leaves the committed graph alone or is the whole match.
LEMMA MatchStepSerial ==
    ASSUME TypeOK, WritersHoldTheirLocks, CommitInv, RereadsFindTheirIds,
           NEW t \in Threads, MatchStep(t)
    PROVE  Serially(t)
<1>1. thread[t] \in MatchState /\ Matches(t)
    BY DEF TypeOK, CommitInv
<1>2. thread[t].state # "putting" => thread[t].toPut = {}
    BY <1>1 DEF Matches, HasNothingYet
<1>3. ASSUME CommitInv' /\ UNCHANGED CommittedGraph PROVE Serially(t)
    BY <1>3 DEF Serially
<1>4. ASSUME Fail(t), thread[t].state # "putting" PROVE Serially(t)
    BY <1>2, <1>3, <1>4, EndStep DEF Fail

\* A step before the first read is done.
<1>5. ASSUME NEW next \in {"locked", "current"}, Goto(t, next), UNCHANGED graph,
             thread[t].state \in {"starting", "locked"}
      PROVE  Serially(t)
    <2>1. /\ thread'[t].state = next /\ thread'[t].toPut = thread[t].toPut
          /\ thread'[t].reread = thread[t].reread
          /\ \A u \in Threads \ {t} : thread'[u] = thread[u]
        BY <1>1, <1>5 DEF Goto, TypeOK, MatchState
    <2>2. thread[t].toPut = {} /\ thread[t].reread = {}
        BY <1>1, <1>5 DEF Matches, HasNothingYet
    <2>3. Matches(t)'
        BY <1>5, <2>1, <2>2 DEF Matches, IsComputed, HasNothingYet, RereadsAreCurrent,
                                WritesAreCommitted, HoldingSubgraphs, SecondReading
    <2> QED
        BY <1>3, <1>5, <2>1, <2>3, StepAlone
<1>6. CASE LockWorkIds(t)
    BY <1>5, <1>6 DEF LockWorkIds, TakeLocks
<1>7. CASE LockingFails(t)
    BY <1>4, <1>7 DEF LockingFails, Wanted
<1>8. CASE CheckWorkIsCurrent(t)
    BY <1>4, <1>5, <1>8 DEF CheckWorkIsCurrent
<1>9. CASE /\ GetDirectlyAffected(t) \/ QuerySubgraph(t)
           /\ thread[t].state \in {"current", "reading"}
    <2>1. /\ thread'[t].state = "reading" /\ thread'[t].toPut = thread[t].toPut
          /\ thread'[t].reread = thread[t].reread /\ UNCHANGED graph
          /\ \A u \in Threads \ {t} : thread'[u] = thread[u]
        <3>1. CASE GetDirectlyAffected(t)
            BY <1>1, <1>9, <3>1 DEF GetDirectlyAffected, TypeOK, MatchState
        <3>2. CASE QuerySubgraph(t)
            <4>1. PICK toRead, before : thread' = [thread EXCEPT
                      ![t].toRead = toRead, ![t].before = before,
                      ![t].reread = thread[t].reread]
                BY <1>9, <3>2 DEF QuerySubgraph
            <4> QED
                BY <1>1, <1>9, <3>2, <4>1 DEF QuerySubgraph, TypeOK, MatchState
        <3> QED
            BY <1>9, <3>1, <3>2
    <2>2. thread[t].toPut = {} /\ thread[t].reread = {}
        BY <1>1, <1>9 DEF Matches, HasNothingYet
    <2>3. Matches(t)'
        BY <2>1, <2>2 DEF Matches, IsComputed, HasNothingYet, RereadsAreCurrent,
                          WritesAreCommitted, HoldingSubgraphs, SecondReading
    <2> QED
        BY <1>3, <2>1, <2>3, StepAlone
<1>10. CASE /\ GetDirectlyAffected(t) \/ QuerySubgraph(t)
            /\ thread[t].state \notin {"current", "reading"}
    BY <1>3, <1>10, SecondReadStep DEF GetDirectlyAffected, QuerySubgraph
<1>11. CASE UpdateGraph(t)
    <2>1. PICK existing \in ById(thread[t].before) :
              LET w     == thread[t].work
                  after == AfterNodes(w, Stub(t), existing)
              IN  \/ Fail(t)
                  \/ Succeed(t, after) /\ UNCHANGED graph
                  \/ /\ ~VersionConflict(w, Stub(t), existing)
                     /\ thread' = [thread EXCEPT ![t].after = after,
                                                 ![t].state = "updated"]
                     /\ UNCHANGED graph
        BY <1>11 DEF UpdateGraph
    <2> DEFINE after == AfterNodes(thread[t].work, Stub(t), existing)
    <2>2. thread[t].state = "reading"
        BY <1>11 DEF UpdateGraph
    <2>3. thread[t].toPut = {} /\ thread[t].reread = {}
        BY <1>1, <2>2 DEF Matches, HasNothingYet
    <2>4. CASE Fail(t)
        BY <1>4, <2>2, <2>4
    <2>5. CASE Succeed(t, after) /\ UNCHANGED graph
        BY <1>3, <2>3, <2>5, EndStep
    <2>6. CASE /\ ~VersionConflict(thread[t].work, Stub(t), existing)
               /\ thread' = [thread EXCEPT ![t].after = after,
                                           ![t].state = "updated"]
               /\ UNCHANGED graph
        <3> HIDE DEF after
        <3>1. /\ thread'[t].state = "updated" /\ thread'[t].toPut = thread[t].toPut
              /\ thread'[t].reread = thread[t].reread
              /\ thread'[t].work = thread[t].work /\ thread'[t].rev = thread[t].rev
              /\ thread'[t].before = thread[t].before /\ thread'[t].after = after
              /\ \A u \in Threads \ {t} : thread'[u] = thread[u]
            BY <1>1, <2>6 DEF TypeOK, MatchState
        <3>2. Stub(t)' = Stub(t)
            BY <3>1 DEF Stub
        <3>3. IsComputed(t)'
            BY <2>1, <2>6, <3>1, <3>2 DEF IsComputed, after
        <3>4. Matches(t)'
            BY <2>3, <3>1, <3>3 DEF Matches, HasNothingYet, RereadsAreCurrent,
                                    WritesAreCommitted
        <3> QED
            BY <1>3, <2>6, <3>1, <3>4, StepAlone
    <2> QED
        BY <2>1, <2>4, <2>5, <2>6
<1>12. CASE LockSubgraphs(t)
    <2>1. /\ Goto(t, "relocked") /\ thread[t].state = "updated" /\ UNCHANGED graph
        BY <1>12 DEF LockSubgraphs, TakeLocks
    <2>2. /\ thread'[t].state = "relocked" /\ thread'[t].toPut = thread[t].toPut
          /\ thread'[t].reread = thread[t].reread
          /\ thread'[t].work = thread[t].work /\ thread'[t].rev = thread[t].rev
          /\ thread'[t].before = thread[t].before
          /\ thread'[t].after = thread[t].after
          /\ \A u \in Threads \ {t} : thread'[u] = thread[u]
        BY <1>1, <2>1 DEF Goto, TypeOK, MatchState
    <2>3. Stub(t)' = Stub(t)
        BY <2>2 DEF Stub
    <2>4. Matches(t)'
        BY <1>1, <2>1, <2>2, <2>3
        DEF Matches, IsComputed, HasNothingYet, RereadsAreCurrent, WritesAreCommitted
    <2> QED
        BY <1>3, <2>1, <2>2, <2>4, StepAlone
<1>13. CASE CompareReads(t)
    <2>1. CASE Fail(t)
        BY <1>4, <1>13, <2>1 DEF CompareReads
    <2>2. CASE thread[t].reread = thread[t].before
        <3>1. \E sources, ids :
                  UpdateOf(CommittedGraph,
                           PutAll(CommittedGraph, thread[t].after),
                           thread[t].work, Stub(t), thread[t].before,
                           sources, ids, thread[t].after)
            BY <1>13, <2>2, CommitUpdates
        <3>2. /\ thread[t].before = FindAffectedWorks(CommittedGraph, Ids(t))
              /\ thread[t].after =
                     AfterNodes(thread[t].work, Stub(t), thread[t].before)
            BY <3>1 DEF UpdateOf, Ids
        <3>3. thread[t].state \in Running
            BY <1>13 DEF CompareReads, Running, HoldingIds, HoldingSubgraphs,
                         SecondReading
        <3> QED
            BY <1>13, <2>2, <3>2, <3>3, CommitUpdates, Commit DEF Serially
    <2> QED
        BY <1>13, <2>1, <2>2 DEF CompareReads
<1>14. CASE PutNode(t)
    BY <1>3, <1>14, PutStep
<1>15. CASE FinishPut(t)
    BY <1>3, <1>15, EndStep DEF FinishPut
<1> QED
    BY <1>6, <1>7, <1>8, <1>9, <1>10, <1>11, <1>12, <1>13, <1>14, <1>15
    DEF MatchStep

\* In the initial state nothing is written or about to be.
LEMMA InitCommits == Init => CommitInv /\ CommittedGraph = {}
<1> SUFFICES ASSUME Init PROVE CommitInv /\ CommittedGraph = {}
    OBVIOUS
<1>1. \A t \in Threads : /\ thread[t].state \notin HoldingIds
                         /\ thread[t].toPut = {} /\ thread[t].reread = {}
    BY DEF Init, IdleThread, HoldingIds, FirstReading, HoldingSubgraphs,
           SecondReading
<1>2. CommittedGraph = {}
    BY <1>1, CommittedRows DEF Init
<1>3. \A t \in Threads : Matches(t)
    BY <1>1 DEF Matches, IsComputed, HasNothingYet, RereadsAreCurrent,
                WritesAreCommitted, HoldingIds, HoldingSubgraphs, SecondReading
<1> QED
    BY <1>2, <1>3 DEF CommitInv, Keyed, LinksClosed, WithSource

\* A failed call and a death end a match that has no rows to write, unless puts
\* can be torn.
LEMMA InterruptedStep ==
    ASSUME TypeOK, CommitInv, "torn" \notin FaultKinds, NEW t \in Threads,
           Interruptible(t)
    PROVE  thread[t].toPut = {}
BY DEF CommitInv, Matches, HasNothingYet, Interruptible

\* Every step of the matcher or of its surroundings leaves the committed graph
\* alone or is a whole match.
LEMMA NextSerial ==
    ASSUME "torn" \notin FaultKinds, TypeOK, WritersHoldTheirLocks, CommitInv,
           RereadsFindTheirIds, [Next]_vars
    PROVE  /\ CommitInv'
           /\ UNCHANGED CommittedGraph \/ \E t \in Threads : Serially(t)
<1> USE DEF HoldingIds, FirstReading, HoldingSubgraphs, SecondReading
<1>1. /\ IdleThread.state \notin HoldingIds
      /\ IdleThread.toPut = {} /\ IdleThread.reread = {}
    BY DEF IdleThread
<1>2. \A t \in Threads : /\ thread[t] \in MatchState
                         /\ thread[t].state # "putting" => thread[t].toPut = {}
                         /\ thread[t].state \notin {"rereading", "putting"} =>
                                thread[t].reread = {}
    BY DEF TypeOK, CommitInv, Matches, HasNothingYet

\* A step that takes one thread out of its match, or into one.
<1>3. ASSUME NEW t \in Threads, NEW r, UNCHANGED graph, thread[t].toPut = {},
             thread' = [thread EXCEPT ![t] = r],
             r.state \notin HoldingIds, r.toPut = {}, r.reread = {}
      PROVE  CommitInv' /\ UNCHANGED CommittedGraph
    <2>1. thread'[t] = r /\ \A u \in Threads \ {t} : thread'[u] = thread[u]
        BY <1>3 DEF TypeOK
    <2> QED
        BY <1>3, <2>1, StepAside
<1>4. ASSUME UNCHANGED <<graph, thread>>
      PROVE  CommitInv' /\ UNCHANGED CommittedGraph
    BY <1>4, StepAside
<1>5. ASSUME NEW t \in Threads, NEW w \in Works, StartMatch(t, w)
      PROVE  CommitInv' /\ UNCHANGED CommittedGraph
    <2> DEFINE r == [IdleThread EXCEPT !.state = "starting", !.work = w,
                                       !.rev = index[w]]
    <2>1. r.state \notin HoldingIds /\ r.toPut = {} /\ r.reread = {}
        BY DEF IdleThread
    <2>2. /\ thread' = [thread EXCEPT ![t] = r] /\ UNCHANGED graph
          /\ thread[t].toPut = {}
        BY <1>2, <1>5 DEF StartMatch
    <2> HIDE DEF r
    <2> QED
        BY <1>3, <2>1, <2>2
<1>6. ASSUME NEW t \in Threads, Collect(t)
      PROVE  CommitInv' /\ UNCHANGED CommittedGraph
    BY <1>1, <1>2, <1>3, <1>6 DEF Collect, Ended
<1>7. ASSUME NEW t \in Threads, CallFails(t)
      PROVE  CommitInv' /\ UNCHANGED CommittedGraph
    BY <1>7, InterruptedStep, EndStep DEF CallFails
<1>8. ASSUME NEW t \in Threads, Die(t)
      PROVE  CommitInv' /\ UNCHANGED CommittedGraph
    BY <1>1, <1>3, <1>8, InterruptedStep DEF Die
<1>9. ASSUME NEW t \in Threads, CheckIsUnreadable(t)
      PROVE  CommitInv' /\ UNCHANGED CommittedGraph
    <2>1. /\ thread'[t].state = "current" /\ thread'[t].toPut = thread[t].toPut
          /\ thread'[t].reread = thread[t].reread /\ UNCHANGED graph
          /\ \A u \in Threads \ {t} : thread'[u] = thread[u]
        BY <1>2, <1>9 DEF CheckIsUnreadable, Goto, TypeOK, MatchState
    <2>2. thread[t].toPut = {} /\ thread[t].reread = {}
        BY <1>2, <1>9 DEF CheckIsUnreadable
    <2>3. Matches(t)'
        BY <2>1, <2>2 DEF Matches, IsComputed, HasNothingYet, RereadsAreCurrent,
                          WritesAreCommitted
    <2> QED
        BY <2>1, <2>3, StepAlone
<1>10. CASE UNCHANGED vars
    BY <1>4, <1>10 DEF vars
<1>11. ASSUME NEW t \in Threads, MatchStep(t)
       PROVE  CommitInv' /\ Serially(t)
    BY <1>11, MatchStepSerial DEF Serially
<1>12. ASSUME NEW w \in Works, Publish(w)
       PROVE  CommitInv' /\ UNCHANGED CommittedGraph
    BY <1>4, <1>12 DEF Publish
<1>13. ASSUME NEW k \in LockIds, ExpireLock(k)
       PROVE  CommitInv' /\ UNCHANGED CommittedGraph
    BY <1>4, <1>13 DEF ExpireLock
<1> QED
    BY <1>5, <1>6, <1>7, <1>8, <1>9, <1>10, <1>11, <1>12, <1>13 DEF Next

\* A step that is a whole match is a step of the serial matcher.
LEMMA SeriallyMatches ==
    ASSUME TypeOK, NEW t \in Threads, Serially(t)
    PROVE  Serial!Next \/ UNCHANGED CommittedGraph
<1> SUFFICES ASSUME ~UNCHANGED CommittedGraph
             PROVE  Serial!Next
    OBVIOUS
<1> DEFINE w == thread[t].work
           i == thread[t].rev
           stub == Revisions[w][i]
           read == FindAffectedWorks(CommittedGraph, StubIds(w, stub))
<1>1. /\ ~VersionConflict(w, stub, read)
      /\ CommittedGraph' = PutAll(CommittedGraph, AfterNodes(w, stub, read))
    BY DEF Serially, Ids, Stub
<1>2. w \in Works /\ i \in 1..Len(Revisions[w])
    <2>1. w \in Works /\ i \in 1..index[w]
        BY DEF Serially, TypeOK
    <2>2. index[w] \in Nat /\ index[w] <= Len(Revisions[w])
        BY <2>1 DEF TypeOK
    <2>3. Len(Revisions[w]) \in Nat
        BY <2>1, RevisionsAssumption
    <2> QED
        BY <2>1, <2>2, <2>3
<1>3. Serial!FindAffectedWorks(CommittedGraph, Serial!StubIds(w, stub)) = read
    BY DEF Serial!FindAffectedWorks, FindAffectedWorks, Serial!StubIds, StubIds,
           Serial!MergeCandidateIds, MergeCandidateIds
<1> HIDE DEF read, stub
<1>4. Serial!VersionConflict(w, stub, read) <=> VersionConflict(w, stub, read)
    BY DEF Serial!VersionConflict, VersionConflict, Serial!WithSource, WithSource
<1>5. Serial!AfterNodes(w, stub, read) = AfterNodes(w, stub, read)
    BY DEF Serial!AfterNodes, AfterNodes, Serial!AllWorks, AllWorks,
           Serial!WithSource, WithSource, Serial!SourceData, SourceData,
           Serial!MergeCandidateIds, MergeCandidateIds, Serial!WorkIds, WorkIds,
           Serial!UnsuppressedLinks, UnsuppressedLinks, Serial!IsSuppressed,
           IsSuppressed, Serial!Component, Component
<1>6. \A nodes : Serial!PutAll(CommittedGraph, nodes) = PutAll(CommittedGraph, nodes)
    BY DEF Serial!PutAll, PutAll
<1>7. Serial!Match(w, i)
    BY <1>1, <1>3, <1>4, <1>5, <1>6 DEF Serial!Match, stub
<1> QED
    BY <1>2, <1>7 DEF Serial!Next

\* Concurrent matches are as good as matches one after another: whatever they
\* read while others write, whichever calls fail and lambdas die, the table
\* with the puts under way done goes from one whole match to the next.  Two
\* hypotheses mark out what the code leaves open: no put is interrupted between
\* two rows, and no second read confirms the first without having found the
\* present row of each id of the work (see RereadsFindTheirIds).
THEOREM MatchesAreSerial ==
    ASSUME "torn" \notin FaultKinds
    PROVE  Spec /\ []RereadsFindTheirIds => SerialSpec
<1>1. Init => TypeOK /\ WritersHoldTheirLocks /\ CommitInv /\ Serial!Init
    <2>1. Init => WritersHoldTheirLocks
        BY DEF Init, IdleThread, WritersHoldTheirLocks, HoldingIds,
               HoldingSubgraphs, FirstReading, SecondReading
    <2> QED
        BY <2>1, InitType, InitCommits DEF Serial!Init
<1>2. /\ TypeOK /\ WritersHoldTheirLocks /\ CommitInv
      /\ RereadsFindTheirIds /\ [Next]_vars
      => /\ TypeOK' /\ WritersHoldTheirLocks' /\ CommitInv'
         /\ [Serial!Next]_CommittedGraph
    BY NextType, NextHolds, NextSerial, SeriallyMatches
<1> QED
    BY <1>1, <1>2, PTL DEF Spec, SerialSpec, Serial!Spec

----------------------------------------------------------------------------
(***************************************************************************)
(* What the table says of a work only ever moves on to later revisions.    *)
(* A match that has passed the check has a revision that is no older than  *)
(* the row of its work, and since it holds the lock of the work it stays   *)
(* so until the row is written: the other matches that write to that row   *)
(* only copy what it says.                                                 *)
(***************************************************************************)

\* The source data of revision i of w.
RevisionData(w, i) == SourceData(w, Revisions[w][i])

\* Every row with source data is of a revision that was published.
SourcesArePublished ==
    \A n \in WithSource(graph) : \E k \in 1..index[n.id] :
        n.sourceWork = RevisionData(n.id, k)

\* Before the check nothing is read; what the first read says of the match's
\* own work stays what the table says of it.
ReadsOwnSource(t) ==
    /\ thread[t].state \in {"starting", "locked"} => thread[t].before = {}
    /\ thread[t].state \in FirstReading =>
           \A n \in WithSource(thread[t].before) : n.id = thread[t].work =>
               \E m \in graph : m.id = n.id /\ m.sourceWork = n.sourceWork

\* A match that has passed the check has a revision that was current then, and
\* the row of its work is of no later one.
IsChecked(t) ==
    thread[t].state \in FirstReading \union {"updated"} \union SecondReading =>
        \E c \in 1..index[thread[t].work] :
            /\ Revisions[thread[t].work][c] = Stub(t)
            /\ \A n \in WithSource(graph) : n.id = thread[t].work =>
                   \E k \in 1..c : n.sourceWork = RevisionData(n.id, k)

\* The rows to put say the same as those they replace, except for the row of
\* the match's own work, which moves on to a later revision.
PutsMoveForward(t) ==
    \A p \in thread[t].toPut :
        /\ p.id = thread[t].work => p.sourceWork = SourceData(p.id, Stub(t))
        /\ p.id # thread[t].work /\ p.sourceWork # NoSource =>
               \E n \in graph : n.id = p.id /\ n.sourceWork = p.sourceWork
        /\ \A n \in WithSource(graph) : n.id = p.id =>
               /\ p.sourceWork # NoSource
               /\ p.sourceWork # n.sourceWork =>
                      \E i, j \in 1..index[n.id] :
                          /\ i < j
                          /\ n.sourceWork = RevisionData(n.id, i)
                          /\ p.sourceWork = RevisionData(n.id, j)

\* The row of the match's own work is among the rows to put until the table
\* says what the match has of it.
PutsOwnSource(t) ==
    thread[t].state = "putting" =>
        \/ \E p \in thread[t].toPut : p.id = thread[t].work
        \/ \E n \in graph : /\ n.id = thread[t].work
                            /\ n.sourceWork = SourceData(n.id, Stub(t))

KeepsSources(t) ==
    /\ ReadsOwnSource(t)
    /\ IsChecked(t)
    /\ PutsMoveForward(t)
    /\ PutsOwnSource(t)

SourceInv == SourcesArePublished /\ \A t \in Threads : KeepsSources(t)

\* Nothing changes for a match that a step leaves alone, as long as the step
\* changes no row and takes back no revision.
LEMMA SameSources ==
    ASSUME TypeOK, NEW u \in Threads, KeepsSources(u), thread'[u] = thread[u],
           UNCHANGED graph, \A w \in Works : 1..index[w] \subseteq 1..index'[w]
    PROVE  KeepsSources(u)'
<1>1. Stub(u)' = Stub(u) /\ graph' = graph /\ graph \subseteq WorkNode
    BY DEF Stub, TypeOK
<1>2. ReadsOwnSource(u)'
    BY <1>1 DEF KeepsSources, ReadsOwnSource
<1>3. IsChecked(u)'
    <2>1. CASE thread[u].state \in FirstReading \union {"updated"} \union SecondReading
        <3>1. thread[u].work \in Works
            BY <2>1 DEF TypeOK, Running, HoldingIds, HoldingSubgraphs
        <3> QED
            BY <1>1, <2>1, <3>1 DEF KeepsSources, IsChecked
    <2> QED
        BY <2>1 DEF IsChecked
<1>4. PutsMoveForward(u)'
    <2>1. \A n \in WithSource(graph) : n.id \in Works
        BY <1>1 DEF WithSource, WorkNode
    <2> QED
        BY <1>1, <2>1 DEF KeepsSources, PutsMoveForward
<1>5. PutsOwnSource(u)'
    BY <1>1 DEF KeepsSources, PutsOwnSource
<1> QED
    BY <1>2, <1>3, <1>4, <1>5 DEF KeepsSources

\* A match that has not got to its check, or is over, has nothing to say.
NotReading(u) ==
    /\ thread[u].state \notin HoldingIds
    /\ thread[u].toPut = {}
    /\ thread[u].before = {}

LEMMA NotReadingKeeps ==
    ASSUME NEW u \in Threads, NotReading(u)'
    PROVE  KeepsSources(u)'
BY DEF NotReading, KeepsSources, ReadsOwnSource, IsChecked, PutsMoveForward,
       PutsOwnSource, HoldingIds, FirstReading, HoldingSubgraphs, SecondReading,
       WithSource

\* Matches may begin and end, and works be published, together with anything
\* that is neither table nor thread.
LEMMA SourcesAside ==
    ASSUME TypeOK, SourceInv, UNCHANGED graph,
           \A w \in Works : 1..index[w] \subseteq 1..index'[w],
           \A u \in Threads : thread'[u] = thread[u] \/ NotReading(u)'
    PROVE  SourceInv'
<1>1. \A u \in Threads : KeepsSources(u)'
    BY SameSources, NotReadingKeeps DEF SourceInv
<1>2. SourcesArePublished'
    <2>1. \A n \in WithSource(graph) : n.id \in Works
        BY DEF TypeOK, WithSource, WorkNode
    <2> QED
        BY <2>1 DEF SourceInv, SourcesArePublished, WithSource
<1> QED
    BY <1>1, <1>2 DEF SourceInv

\* Steps of one match that leave the table alone.
LEMMA SourcesAlone ==
    ASSUME TypeOK, SourceInv, NEW t \in Threads, UNCHANGED <<graph, index>>,
           \A u \in Threads \ {t} : thread'[u] = thread[u],
           KeepsSources(t)'
    PROVE  SourceInv'
<1>1. \A u \in Threads \ {t} : KeepsSources(u)'
    BY SameSources DEF SourceInv
<1> QED
    BY <1>1 DEF SourceInv, SourcesArePublished, WithSource

\* The rows that two matches are about to put have different ids.
LEMMA PutsAreDisjoint ==
    ASSUME WritersHoldTheirLocks, CommitInv, NEW t \in Threads, NEW u \in Threads,
           NEW m \in thread[t].toPut, NEW p \in thread[u].toPut, m.id = p.id
    PROVE  t = u /\ m = p
<1>1. m = p
    BY RowsToPut DEF CommitInv, Keyed
<1>2. /\ thread[t].state \in HoldingSubgraphs /\ thread[u].state \in HoldingSubgraphs
      /\ m.subgraphId \in AffectedSubgraphIds(t)
      /\ m.subgraphId \in AffectedSubgraphIds(u)
    BY <1>1, RowsToPut DEF HoldingSubgraphs
<1> QED
    BY <1>1, <1>2, OneHolder

\* A put moves the row of the match's own work forward, and copies what the
\* table says of the others.
LEMMA SourcesOfPut ==
    ASSUME TypeOK, SourceInv, NEW t \in Threads, NEW p \in thread[t].toPut,
           graph' = PutAll(graph, {p})
    PROVE  /\ \A n : n \in graph' <=> n = p \/ (n \in graph /\ n.id # p.id)
           /\ \A m \in graph' : m.id # thread[t].work /\ m.sourceWork # NoSource =>
                  \E n \in graph : n.id = m.id /\ n.sourceWork = m.sourceWork
           /\ \A n \in WithSource(graph) : n.id # thread[t].work =>
                  \E m \in graph' : m.id = n.id /\ m.sourceWork = n.sourceWork
           /\ \A n \in WithSource(graph) : \E m \in WithSource(graph') :
                  /\ m.id = n.id
                  /\ m.sourceWork # n.sourceWork =>
                         \E i, j \in 1..index[n.id] :
                             /\ i < j
                             /\ n.sourceWork = RevisionData(n.id, i)
                             /\ m.sourceWork = RevisionData(n.id, j)
<1>1. \A n : n \in graph' <=> n = p \/ (n \in graph /\ n.id # p.id)
    BY DEF PutAll
<1>2. /\ p.id # thread[t].work /\ p.sourceWork # NoSource =>
             \E n \in graph : n.id = p.id /\ n.sourceWork = p.sourceWork
      /\ \A n \in WithSource(graph) : n.id = p.id =>
             /\ p.sourceWork # NoSource
             /\ p.sourceWork # n.sourceWork =>
                    \E i, j \in 1..index[n.id] :
                        /\ i < j
                        /\ n.sourceWork = RevisionData(n.id, i)
                        /\ p.sourceWork = RevisionData(n.id, j)
    BY DEF SourceInv, KeepsSources, PutsMoveForward
<1>3. Keyed(graph)
    BY DEF TypeOK
<1>4. ASSUME NEW n \in WithSource(graph), n.id # thread[t].work
      PROVE  \E m \in graph' : m.id = n.id /\ m.sourceWork = n.sourceWork
    <2>1. CASE n.id = p.id
        BY <1>1, <1>2, <1>3, <1>4, <2>1 DEF Keyed, WithSource
    <2> QED
        BY <1>1, <2>1 DEF WithSource
<1>5. ASSUME NEW n \in WithSource(graph)
      PROVE  \E m \in WithSource(graph') :
                 /\ m.id = n.id
                 /\ m.sourceWork # n.sourceWork =>
                        \E i, j \in 1..index[n.id] :
                            /\ i < j
                            /\ n.sourceWork = RevisionData(n.id, i)
                            /\ m.sourceWork = RevisionData(n.id, j)
    <2>1. CASE n.id = p.id
        BY <1>1, <1>2, <2>1 DEF WithSource
    <2>2. CASE n.id # p.id
        BY <1>1, <2>2 DEF WithSource
    <2> QED
        BY <2>1, <2>2
<1> QED
    BY <1>1, <1>2, <1>4, <1>5

\* No other match is about to write what the table says of a work while a match
\* of the work holds its lock.
LEMMA OneMatchOfAWork ==
    ASSUME TypeOK, WritersHoldTheirLocks, NEW t \in Threads, NEW u \in Threads,
           thread[t].state \in HoldingIds, thread[u].state \in HoldingIds,
           thread[t].work = thread[u].work
    PROVE  t = u
<1>1. thread[t].work \in Ids(t) /\ thread[u].work \in Ids(u)
    BY DEF Ids, StubIds
<1> QED
    BY <1>1 DEF WritersHoldTheirLocks

\* A put keeps what every match knows of the sources.
LEMMA SourcesPutStep ==
    ASSUME TypeOK, WritersHoldTheirLocks, CommitInv, SourceInv,
           NEW t \in Threads, PutNode(t)
    PROVE  SourceInv'
<1>1. PICK p \in thread[t].toPut :
          /\ graph' = PutAll(graph, {p})
          /\ thread' = [thread EXCEPT ![t].toPut = thread[t].toPut \ {p}]
    BY DEF PutNode
<1>2. /\ thread[t] \in MatchState /\ thread[t].state = "putting"
      /\ thread[t].state \in HoldingIds /\ thread[t].state \in Running
      /\ UNCHANGED index
    BY DEF PutNode, TypeOK, HoldingIds, HoldingSubgraphs, Running
<1>3. /\ thread'[t].toPut = thread[t].toPut \ {p}
      /\ thread'[t].state = "putting"
      /\ thread'[t].work = thread[t].work /\ thread'[t].rev = thread[t].rev
      /\ \A u \in Threads \ {t} : thread'[u] = thread[u]
    BY <1>1, <1>2 DEF TypeOK, MatchState
<1>4. Stub(t)' = Stub(t) /\ \A u \in Threads \ {t} : Stub(u)' = Stub(u)
    BY <1>3 DEF Stub
<1>5. /\ \A n : n \in graph' <=> n = p \/ (n \in graph /\ n.id # p.id)
      /\ \A m \in graph' : m.id # thread[t].work /\ m.sourceWork # NoSource =>
             \E n \in graph : n.id = m.id /\ n.sourceWork = m.sourceWork
      /\ \A n \in WithSource(graph) : n.id # thread[t].work =>
             \E m \in graph' : m.id = n.id /\ m.sourceWork = n.sourceWork
    BY <1>1, SourcesOfPut
<1>6. \A u \in Threads : KeepsSources(u)
    BY DEF SourceInv
<1>7. ASSUME NEW u \in Threads \ {t}, NEW m \in thread[u].toPut
      PROVE  m.id # p.id
    BY <1>7, PutsAreDisjoint
<1>8. ASSUME NEW u \in Threads \ {t} PROVE KeepsSources(u)'
    <2>1. thread'[u] = thread[u] /\ KeepsSources(u) /\ Stub(u)' = Stub(u)
        BY <1>3, <1>4, <1>6
    <2>2. thread[u].state \in HoldingIds => thread[u].work # thread[t].work
        BY <1>2, OneMatchOfAWork
    <2>3. ReadsOwnSource(u)'
        <3>1. ASSUME thread[u].state \in FirstReading,
                     NEW n \in WithSource(thread[u].before), n.id = thread[u].work
              PROVE  \E m \in graph' : m.id = n.id /\ m.sourceWork = n.sourceWork
            <4>1. PICK r \in graph : r.id = n.id /\ r.sourceWork = n.sourceWork
                BY <2>1, <3>1 DEF KeepsSources, ReadsOwnSource
            <4>2. r \in WithSource(graph) /\ r.id # thread[t].work
                BY <2>2, <3>1, <4>1 DEF WithSource, HoldingIds
            <4> QED
                BY <1>5, <4>1, <4>2
        <3> QED
            BY <2>1, <3>1 DEF KeepsSources, ReadsOwnSource
    <2>4. IsChecked(u)'
        <3>1. CASE thread[u].state \in
                       FirstReading \union {"updated"} \union SecondReading
            <4>1. PICK c \in 1..index[thread[u].work] :
                      /\ Revisions[thread[u].work][c] = Stub(u)
                      /\ \A n \in WithSource(graph) : n.id = thread[u].work =>
                             \E k \in 1..c : n.sourceWork = RevisionData(n.id, k)
                BY <2>1, <3>1 DEF KeepsSources, IsChecked
            <4>2. \A n \in WithSource(graph') : n.id = thread[u].work =>
                      \E k \in 1..c : n.sourceWork = RevisionData(n.id, k)
                <5> SUFFICES ASSUME NEW n \in WithSource(graph'),
                                    n.id = thread[u].work
                             PROVE  \E k \in 1..c :
                                        n.sourceWork = RevisionData(n.id, k)
                    OBVIOUS
                <5>1. n.id # thread[t].work
                    BY <2>2, <3>1 DEF HoldingIds, HoldingSubgraphs
                <5>2. PICK r \in graph : r.id = n.id /\ r.sourceWork = n.sourceWork
                    BY <1>5, <5>1 DEF WithSource
                <5> QED
                    BY <4>1, <5>2 DEF WithSource
            <4> QED
                BY <1>2, <2>1, <4>1, <4>2 DEF IsChecked
        <3> QED
            BY <2>1, <3>1 DEF IsChecked
    <2>5. PutsMoveForward(u)'
        <3>1. ASSUME NEW m \in thread[u].toPut, NEW n, n.id = m.id
              PROVE  n \in graph' <=> n \in graph
            BY <1>5, <1>7, <3>1
        <3> QED
            BY <1>2, <2>1, <3>1 DEF KeepsSources, PutsMoveForward, WithSource
    <2>6. PutsOwnSource(u)'
        <3>1. CASE \E m \in thread[u].toPut : m.id = thread[u].work
            BY <2>1, <3>1 DEF PutsOwnSource
        <3>2. CASE \E n \in graph : /\ n.id = thread[u].work
                                    /\ n.sourceWork = SourceData(n.id, Stub(u))
            <4>1. CASE thread[u].state = "putting"
                <5>1. PICK n \in graph : /\ n.id = thread[u].work
                                         /\ n.sourceWork = SourceData(n.id, Stub(u))
                    BY <3>2
                <5>2. n.id # thread[t].work /\ thread[u].state \in Running
                    BY <2>2, <4>1, <5>1 DEF HoldingIds, HoldingSubgraphs, Running
                <5>3. n \in WithSource(graph)
                    BY <5>1, <5>2, RunningType, StubIdsType, NoSourceAssumption
                    DEF WithSource
                <5> QED
                    BY <1>5, <2>1, <5>1, <5>2, <5>3 DEF PutsOwnSource
            <4> QED
                BY <2>1, <4>1 DEF PutsOwnSource
        <3> QED
            BY <2>1, <3>1, <3>2 DEF KeepsSources, PutsOwnSource
    <2> QED
        BY <2>3, <2>4, <2>5, <2>6 DEF KeepsSources
<1>9. KeepsSources(t)'
    <2>1. \A m \in thread'[t].toPut : m \in thread[t].toPut /\ m.id # p.id
        BY <1>3, PutsAreDisjoint
    <2>2. ASSUME NEW m \in thread'[t].toPut, NEW n, n.id = m.id
          PROVE  n \in graph' <=> n \in graph
        BY <1>5, <2>1, <2>2
    <2>3. PutsMoveForward(t)'
        BY <1>2, <1>3, <1>4, <1>6, <2>1, <2>2
        DEF KeepsSources, PutsMoveForward, WithSource
    <2>4. p.id = thread[t].work => p.sourceWork = SourceData(p.id, Stub(t))
        BY <1>6 DEF KeepsSources, PutsMoveForward
    <2>5. PutsOwnSource(t)'
        <3>1. CASE \E m \in thread[t].toPut : m.id = thread[t].work
            BY <1>3, <1>4, <1>5, <2>4, <3>1 DEF PutsOwnSource
        <3>2. CASE \E n \in graph : /\ n.id = thread[t].work
                                    /\ n.sourceWork = SourceData(n.id, Stub(t))
            BY <1>3, <1>4, <1>5, <2>4, <3>2 DEF PutsOwnSource
        <3> QED
            BY <1>2, <1>6, <3>1, <3>2 DEF KeepsSources, PutsOwnSource
    <2> QED
        BY <1>3, <2>3, <2>5 DEF KeepsSources, ReadsOwnSource, IsChecked, FirstReading,
                                SecondReading
<1>10. SourcesArePublished'
    <2>1. ASSUME NEW n \in WithSource(graph')
          PROVE  \E k \in 1..index[n.id] : n.sourceWork = RevisionData(n.id, k)
        <3>1. CASE n.id # thread[t].work
            BY <1>5, <3>1 DEF SourceInv, SourcesArePublished, WithSource
        <3>2. CASE n.id = thread[t].work /\ n = p
            <4>1. n.sourceWork = SourceData(n.id, Stub(t))
                BY <1>6, <3>2 DEF KeepsSources, PutsMoveForward
            <4>2. thread[t].rev \in 1..index[thread[t].work]
                BY <1>2 DEF TypeOK
            <4> QED
                BY <3>2, <4>1, <4>2 DEF RevisionData, Stub
        <3>3. CASE n \in graph
            BY <3>3 DEF SourceInv, SourcesArePublished, WithSource
        <3> QED
            BY <1>5, <3>1, <3>2, <3>3 DEF WithSource
    <2> QED
        BY <1>2, <2>1 DEF SourcesArePublished, RevisionData, WithSource
<1> QED
    BY <1>8, <1>9, <1>10 DEF SourceInv

\* The rows of the table that a confirmed match replaces are among those it has
\* read, which are rows of the table.
LEMMA RowsReplaced ==
    ASSUME TypeOK, WritersHoldTheirLocks, CommitInv, RereadsFindTheirIds,
           NEW t \in Threads, CompareReads(t),
           thread[t].reread = thread[t].before
    PROVE  /\ thread[t].before \subseteq graph
           /\ \A n \in graph, p \in thread[t].after :
                  n.id = p.id => n \in thread[t].before
<1> DEFINE before == thread[t].before
           after == thread[t].after
<1>1. /\ thread[t].state \in SecondReading /\ thread[t].state \in HoldingSubgraphs
      /\ thread[t].state \in Running
    BY DEF CompareReads, SecondReading, HoldingSubgraphs, HoldingIds, Running
<1>2. PICK sources, ids :
          /\ UpdateOf(CommittedGraph, PutAll(CommittedGraph, after), thread[t].work,
                      Stub(t), before, sources, ids, after)
          /\ \A n \in after : n.id \in ids
    BY CommitUpdates
<1>3. /\ CommittedGraph \in SUBSET WorkNode /\ Keyed(CommittedGraph)
      /\ LinksClosed(CommittedGraph)
      /\ thread[t].work \in Works /\ Stub(t) \in WorkStub
    BY <1>1, CommittedType, RunningType DEF CommitInv
<1>4. /\ \A m \in CommittedGraph : m.id \in ids => m \in before
      /\ before \subseteq CommittedGraph
    BY <1>2, <1>3, WritesOfUpdate
<1>5. \A n \in before : n.subgraphId \in AffectedSubgraphIds(t)
    BY DEF AffectedSubgraphIds
<1>6. before \subseteq graph
    BY <1>1, <1>4, <1>5, LockedSubgraphs
<1>7. ASSUME NEW u \in Threads, NEW m \in thread[u].toPut
      PROVE  m.id \notin ids
    <2>1. /\ u # t /\ m \in CommittedGraph /\ thread[u].state \in HoldingSubgraphs
          /\ m.subgraphId \in AffectedSubgraphIds(u)
        BY <1>1, <1>7, RowsToPut DEF HoldingSubgraphs, SecondReading
    <2> QED
        BY <1>1, <1>4, <1>5, <2>1, OneHolder
<1>8. \A n \in graph : n.id \in ids => n \in CommittedGraph
    BY <1>7, CommittedRows
<1> QED
    BY <1>2, <1>4, <1>6, <1>8

\* A confirmed match is about to move its work on to the revision it has
\* checked, and copies the rest.
LEMMA SourcesCommit ==
    ASSUME TypeOK, WritersHoldTheirLocks, CommitInv, RereadsFindTheirIds, SourceInv,
           NEW t \in Threads, CompareReads(t),
           thread[t].reread = thread[t].before
    PROVE  SourceInv'
<1> DEFINE w == thread[t].work
           before == thread[t].before
           after == thread[t].after
<1>1. /\ thread[t].state = "rereading" /\ UNCHANGED <<graph, index>>
      /\ thread' = [thread EXCEPT ![t].toPut = thread[t].after,
                                  ![t].state = "putting"]
    BY DEF CompareReads
<1>2. thread[t] \in MatchState /\ thread[t].state \in Running
    BY <1>1 DEF TypeOK, Running, HoldingIds, HoldingSubgraphs, SecondReading
<1>3. /\ thread'[t].state = "putting" /\ thread'[t].toPut = after
      /\ thread'[t].work = w /\ thread'[t].rev = thread[t].rev
      /\ \A u \in Threads \ {t} : thread'[u] = thread[u]
    BY <1>1, <1>2 DEF TypeOK, MatchState
<1>4. Stub(t)' = Stub(t)
    BY <1>3 DEF Stub
<1>5. w \in Works /\ Stub(t) \in WorkStub
    BY <1>2, RunningType
<1>6. /\ before \in SUBSET WorkNode /\ Keyed(before)
      /\ after = AfterNodes(w, Stub(t), before)
    <2>1. PICK sources, ids :
              UpdateOf(CommittedGraph, PutAll(CommittedGraph, after), w, Stub(t),
                       before, sources, ids, after)
        BY CommitUpdates
    <2>2. /\ CommittedGraph \in SUBSET WorkNode /\ Keyed(CommittedGraph)
          /\ LinksClosed(CommittedGraph)
        BY CommittedType DEF CommitInv
    <2> QED
        BY <1>5, <2>1, <2>2, WritesOfUpdate DEF UpdateOf
<1>7. /\ \E n \in after : n.id = w
      /\ \A n \in after : n.id = w => n.sourceWork = SourceData(w, Stub(t))
      /\ \A n \in WithSource(after) : n.id # w =>
             \E m \in before : m.id = n.id /\ m.sourceWork = n.sourceWork
      /\ \A m \in WithSource(before), n \in after :
             m.id # w /\ n.id = m.id => n.sourceWork = m.sourceWork
    BY <1>5, <1>6, SourcesOfRows
<1>8. /\ before \subseteq graph
      /\ \A n \in graph, p \in after : n.id = p.id => n \in before
    BY RowsReplaced
<1>9. PICK c \in 1..index[w] :
          /\ Revisions[w][c] = Stub(t)
          /\ \A n \in WithSource(graph) : n.id = w =>
                 \E k \in 1..c : n.sourceWork = RevisionData(w, k)
    BY <1>1 DEF SourceInv, KeepsSources, IsChecked, SecondReading
<1>10. SourceData(w, Stub(t)) # NoSource
    BY <1>5, StubIdsType, NoSourceAssumption
<1>11. index[w] \in Nat
    BY <1>5 DEF TypeOK
<1> HIDE DEF after, before, w
<1>12. ASSUME NEW p \in after, NEW n \in WithSource(graph), n.id = p.id
       PROVE  /\ p.sourceWork # NoSource
              /\ p.sourceWork # n.sourceWork =>
                     \E i, j \in 1..index[n.id] :
                         /\ i < j
                         /\ n.sourceWork = RevisionData(n.id, i)
                         /\ p.sourceWork = RevisionData(n.id, j)
    <2>1. CASE p.id # w
        BY <1>7, <1>8, <1>12, <2>1 DEF WithSource
    <2>2. CASE p.id = w
        <3>1. p.sourceWork = RevisionData(w, c)
            BY <1>7, <1>9, <2>2 DEF RevisionData
        <3>2. PICK k \in 1..c : n.sourceWork = RevisionData(w, k)
            BY <1>9, <1>12, <2>2
        <3>3. ASSUME p.sourceWork # n.sourceWork
              PROVE  k < c /\ k \in 1..index[w]
            BY <1>9, <1>11, <3>1, <3>2, <3>3
        <3>4. p.sourceWork # NoSource
            BY <1>7, <1>10, <2>2
        <3> QED
            BY <1>9, <1>12, <2>2, <3>1, <3>2, <3>3, <3>4
    <2> QED
        BY <2>1, <2>2
<1>13. PutsMoveForward(t)'
    <2>1. ASSUME NEW p \in after, p.id # w, p.sourceWork # NoSource
          PROVE  \E n \in graph : n.id = p.id /\ n.sourceWork = p.sourceWork
        BY <1>7, <1>8, <2>1 DEF WithSource
    <2>2. \A p \in after : p.id = w => p.sourceWork = SourceData(p.id, Stub(t))
        BY <1>7
    <2> QED
        BY <1>1, <1>3, <1>4, <1>12, <2>1, <2>2 DEF PutsMoveForward, WithSource
<1>14. PutsOwnSource(t)'
    BY <1>3, <1>7 DEF PutsOwnSource
<1>15. ReadsOwnSource(t)' /\ IsChecked(t)'
    BY <1>3 DEF ReadsOwnSource, IsChecked, FirstReading, SecondReading
<1> QED
    BY <1>1, <1>3, <1>13, <1>14, <1>15, SourcesAlone DEF KeepsSources

\* Steps of a match between its check and its writes: what it has checked goes
\* on to hold.
LEMMA SourcesOn ==
    ASSUME TypeOK, SourceInv, NEW t \in Threads, UNCHANGED <<graph, index>>,
           thread[t].state \in FirstReading \union {"updated"} \union SecondReading,
           thread'[t].state \in FirstReading \union {"updated"} \union SecondReading,
           thread'[t].work = thread[t].work, thread'[t].rev = thread[t].rev,
           thread'[t].toPut = {},
           thread'[t].state \in FirstReading =>
               /\ thread[t].state \in FirstReading
               /\ \A n \in thread'[t].before : n \in thread[t].before \/ n \in graph,
           \A u \in Threads \ {t} : thread'[u] = thread[u]
    PROVE  SourceInv'
<1>1. KeepsSources(t) /\ Stub(t)' = Stub(t)
    BY DEF SourceInv, Stub
<1>2. ReadsOwnSource(t)'
    BY <1>1 DEF KeepsSources, ReadsOwnSource, FirstReading, SecondReading, WithSource
<1>3. IsChecked(t)'
    BY <1>1 DEF KeepsSources, IsChecked
<1>4. PutsMoveForward(t)' /\ PutsOwnSource(t)'
    BY DEF PutsMoveForward, PutsOwnSource, FirstReading, SecondReading
<1> QED
    BY <1>2, <1>3, <1>4, SourcesAlone DEF KeepsSources

\* A match that ends has nothing more to say of the sources.
LEMMA SourcesEnd ==
    ASSUME TypeOK, SourceInv, NEW t \in Threads,
           \/ EndInFailure(t)
           \/ (\E nodes : Succeed(t, nodes)) /\ UNCHANGED <<graph, index>>
    PROVE  SourceInv'
<1>1. UNCHANGED <<graph, index>> /\ \A u \in Threads \ {t} : thread'[u] = thread[u]
    BY DEF EndInFailure, Succeed, TypeOK
<1>2. NotReading(t)'
    <2>1. CASE EndInFailure(t)
        BY <2>1 DEF EndInFailure, TypeOK, IdleThread, NotReading, HoldingIds,
                    FirstReading, HoldingSubgraphs, SecondReading
    <2>2. CASE \E nodes : Succeed(t, nodes)
        <3>1. PICK nodes : thread' = [thread EXCEPT ![t] = [IdleThread EXCEPT
                  !.state = "matched", !.work = thread[t].work,
                  !.rev = thread[t].rev, !.after = nodes]]
            BY <2>2 DEF Succeed
        <3> QED
            BY <3>1 DEF TypeOK, IdleThread, NotReading, HoldingIds, FirstReading,
                        HoldingSubgraphs, SecondReading
    <2> QED
        BY <2>1, <2>2
<1> QED
    BY <1>1, <1>2, SourcesAside

\* A match before its check has read nothing and checked nothing.
LEMMA SourcesUnread ==
    ASSUME TypeOK, SourceInv, NEW t \in Threads, UNCHANGED <<graph, index>>,
           thread'[t].state \notin FirstReading \union HoldingSubgraphs
                                       \union {"updated"},
           thread'[t].toPut = {}, thread'[t].before = {},
           \A u \in Threads \ {t} : thread'[u] = thread[u]
    PROVE  SourceInv'
<1>1. KeepsSources(t)'
    BY DEF KeepsSources, ReadsOwnSource, IsChecked, PutsMoveForward, PutsOwnSource,
           FirstReading, HoldingSubgraphs, SecondReading
<1> QED
    BY <1>1, SourcesAlone

\* A work that was checked has the revision that is current, and no row is of
\* a later one.
LEMMA SourcesChecked ==
    ASSUME TypeOK, SourceInv, NEW t \in Threads, UNCHANGED <<graph, index>>,
           thread[t].state = "locked", thread[t].toPut = {},
           Revisions[thread[t].work][index[thread[t].work]] = Stub(t),
           thread' = [thread EXCEPT ![t].state = "current"]
    PROVE  SourceInv'
<1>1. thread[t] \in MatchState /\ thread[t].state \in Running
    BY DEF TypeOK, Running, HoldingIds
<1>2. /\ thread'[t] = [thread[t] EXCEPT !.state = "current"]
      /\ \A u \in Threads \ {t} : thread'[u] = thread[u]
    BY DEF TypeOK
<1>3. /\ thread'[t].state = "current" /\ thread'[t].work = thread[t].work
      /\ thread'[t].rev = thread[t].rev /\ thread'[t].toPut = {}
      /\ thread'[t].before = {} /\ Stub(t)' = Stub(t)
    BY <1>1, <1>2 DEF MatchState, SourceInv, KeepsSources, ReadsOwnSource, Stub
<1>4. index[thread[t].work] \in 1..index[thread[t].work]
    BY <1>1 DEF TypeOK
<1>5. \A n \in WithSource(graph) : n.id = thread[t].work =>
          \E k \in 1..index[thread[t].work] : n.sourceWork = RevisionData(n.id, k)
    BY DEF SourceInv, SourcesArePublished
<1>6. IsChecked(t)'
    BY <1>3, <1>4, <1>5 DEF IsChecked, WithSource
<1>7. ReadsOwnSource(t)' /\ PutsMoveForward(t)' /\ PutsOwnSource(t)'
    BY <1>3 DEF ReadsOwnSource, PutsMoveForward, PutsOwnSource, WithSource
<1> QED
    BY <1>2, <1>6, <1>7, SourcesAlone DEF KeepsSources

\* Each step of a match keeps what every match knows of the sources.
LEMMA MatchStepSources ==
    ASSUME TypeOK, WritersHoldTheirLocks, CommitInv, RereadsFindTheirIds, SourceInv,
           NEW t \in Threads, MatchStep(t)
    PROVE  SourceInv'
<1> USE DEF FirstReading, SecondReading
<1>1. /\ thread[t] \in MatchState /\ Matches(t) /\ KeepsSources(t)
      /\ thread[t].state # "putting" => thread[t].toPut = {}
    BY DEF TypeOK, CommitInv, Matches, HasNothingYet, SourceInv
<1>2. ASSUME Fail(t) PROVE SourceInv'
    BY <1>2, SourcesEnd DEF Fail
<1>3. CASE LockWorkIds(t)
    <2>1. /\ thread' = [thread EXCEPT ![t].state = "locked"]
          /\ thread[t].state = "starting" /\ UNCHANGED <<graph, index>>
        BY <1>3 DEF LockWorkIds, TakeLocks, Goto
    <2>2. /\ thread'[t].state = "locked" /\ thread'[t].toPut = {}
          /\ thread'[t].before = {}
          /\ \A u \in Threads \ {t} : thread'[u] = thread[u]
        BY <1>1, <2>1 DEF TypeOK, MatchState, KeepsSources, ReadsOwnSource
    <2> QED
        BY <2>1, <2>2, SourcesUnread DEF HoldingSubgraphs
<1>4. CASE LockingFails(t)
    BY <1>2, <1>4 DEF LockingFails
<1>5. CASE CheckWorkIsCurrent(t)
    BY <1>1, <1>2, <1>5, SourcesChecked DEF CheckWorkIsCurrent, Goto
<1>6. CASE GetDirectlyAffected(t)
    <2>1. /\ thread'[t].state = IF thread[t].state = "current" THEN "reading"
                                                               ELSE "rereading"
          /\ thread'[t].work = thread[t].work /\ thread'[t].rev = thread[t].rev
          /\ thread'[t].toPut = thread[t].toPut
          /\ thread'[t].before = thread[t].before
          /\ \A u \in Threads \ {t} : thread'[u] = thread[u]
          /\ UNCHANGED <<graph, index>>
        BY <1>1, <1>6 DEF GetDirectlyAffected, TypeOK, MatchState
    <2>2. thread[t].state \in {"current", "relocked"}
        BY <1>6 DEF GetDirectlyAffected
    <2> QED
        BY <1>1, <2>1, <2>2, SourcesOn
<1>7. CASE QuerySubgraph(t)
    <2>1. PICK s \in thread[t].toRead : thread' = [thread EXCEPT
              ![t].toRead = thread[t].toRead \ {s},
              ![t].before = IF thread[t].state = "reading"
                            THEN thread[t].before
                                     \union {n \in graph : n.subgraphId = s}
                            ELSE thread[t].before,
              ![t].reread = IF thread[t].state = "rereading"
                            THEN thread[t].reread
                                     \union {n \in graph : n.subgraphId = s}
                            ELSE thread[t].reread]
        BY <1>7 DEF QuerySubgraph
    <2>2. /\ thread'[t].state = thread[t].state
          /\ thread'[t].work = thread[t].work /\ thread'[t].rev = thread[t].rev
          /\ thread'[t].toPut = thread[t].toPut
          /\ \A n \in thread'[t].before : n \in thread[t].before \/ n \in graph
          /\ \A u \in Threads \ {t} : thread'[u] = thread[u]
        BY <1>1, <2>1 DEF TypeOK, MatchState
    <2>3. /\ thread[t].state \in {"reading", "rereading"}
          /\ UNCHANGED <<graph, index>>
        BY <1>7 DEF QuerySubgraph
    <2> QED
        BY <1>1, <2>2, <2>3, SourcesOn
<1>8. CASE UpdateGraph(t)
    <2>1. thread[t].state = "reading"
        BY <1>8 DEF UpdateGraph
    <2>2. \/ Fail(t)
          \/ (\E nodes : Succeed(t, nodes)) /\ UNCHANGED <<graph, index>>
          \/ /\ \E after : thread' = [thread EXCEPT ![t].after = after,
                                                    ![t].state = "updated"]
             /\ UNCHANGED <<graph, index>>
        BY <1>8 DEF UpdateGraph
    <2>3. CASE /\ \E after : thread' = [thread EXCEPT ![t].after = after,
                                                      ![t].state = "updated"]
               /\ UNCHANGED <<graph, index>>
        <3>1. /\ thread'[t].state = "updated"
              /\ thread'[t].work = thread[t].work /\ thread'[t].rev = thread[t].rev
              /\ thread'[t].toPut = thread[t].toPut
              /\ \A u \in Threads \ {t} : thread'[u] = thread[u]
            BY <1>1, <2>3 DEF TypeOK, MatchState
        <3> QED
            BY <1>1, <2>1, <2>3, <3>1, SourcesOn
    <2> QED
        BY <1>2, <2>2, <2>3, SourcesEnd
<1>9. CASE LockSubgraphs(t)
    <2>1. /\ thread' = [thread EXCEPT ![t].state = "relocked"]
          /\ thread[t].state = "updated" /\ UNCHANGED <<graph, index>>
        BY <1>9 DEF LockSubgraphs, TakeLocks, Goto
    <2>2. /\ thread'[t].state = "relocked"
          /\ thread'[t].work = thread[t].work /\ thread'[t].rev = thread[t].rev
          /\ thread'[t].toPut = thread[t].toPut
          /\ \A u \in Threads \ {t} : thread'[u] = thread[u]
        BY <1>1, <2>1 DEF TypeOK, MatchState
    <2> QED
        BY <1>1, <2>1, <2>2, SourcesOn
<1>10. CASE CompareReads(t)
    BY <1>2, <1>10, SourcesCommit DEF CompareReads
<1>11. CASE PutNode(t)
    BY <1>11, SourcesPutStep
<1>12. CASE FinishPut(t)
    BY <1>12, SourcesEnd DEF FinishPut
<1> QED
    BY <1>3, <1>4, <1>5, <1>6, <1>7, <1>8, <1>9, <1>10, <1>11, <1>12 DEF MatchStep

\* Nothing is known of the sources, and nothing there to know, at first.
LEMMA InitSources == Init => SourceInv
<1> SUFFICES ASSUME Init PROVE SourceInv
    OBVIOUS
<1>1. WithSource(graph) = {}
    BY DEF Init, WithSource
<1>2. \A t \in Threads : /\ thread[t].state = "idle" /\ thread[t].toPut = {}
                         /\ thread[t].before = {}
    BY DEF Init, IdleThread
<1>3. \A t \in Threads : KeepsSources(t)
    BY <1>2 DEF KeepsSources, ReadsOwnSource, IsChecked, PutsMoveForward, PutsOwnSource,
                FirstReading, SecondReading
<1> QED
    BY <1>1, <1>3 DEF SourceInv, SourcesArePublished

\* A work that is published keeps the revisions it has.
LEMMA PublishedRevisions ==
    ASSUME TypeOK, NEW v \in Works, Publish(v), NEW w \in Works
    PROVE  1..index[w] \subseteq 1..index'[w]
<1>1. index[w] \in Nat /\ index'[w] \in {index[w], index[w] + 1}
    BY DEF TypeOK, Publish
<1> QED
    BY <1>1

\* Every step keeps what the matches know of the sources.
LEMMA NextSources ==
    ASSUME "unreadable" \notin FaultKinds, TypeOK, WritersHoldTheirLocks, CommitInv,
           RereadsFindTheirIds, SourceInv, [Next]_vars
    PROVE  SourceInv'
<1> USE DEF NotReading, HoldingIds, FirstReading, HoldingSubgraphs, SecondReading
<1>1. IdleThread.state \notin HoldingIds /\ IdleThread.toPut = {}
      /\ IdleThread.before = {}
    BY DEF IdleThread

\* A step that takes one thread out of its match, or into one.
<1>2. ASSUME NEW t \in Threads, NEW r, UNCHANGED <<graph, index>>,
             thread' = [thread EXCEPT ![t] = r],
             r.state \notin HoldingIds, r.toPut = {}, r.before = {}
      PROVE  SourceInv'
    <2>1. thread'[t] = r /\ \A u \in Threads \ {t} : thread'[u] = thread[u]
        BY <1>2 DEF TypeOK
    <2> QED
        BY <1>2, <2>1, SourcesAside
<1>3. ASSUME UNCHANGED <<graph, index, thread>> PROVE SourceInv'
    BY <1>3, SourcesAside
<1>4. ASSUME NEW w \in Works, Publish(w) PROVE SourceInv'
    <2>1. UNCHANGED <<graph, thread>>
        BY <1>4 DEF Publish
    <2> QED
        BY <1>4, <2>1, PublishedRevisions, SourcesAside
<1>5. ASSUME NEW t \in Threads, NEW w \in Works, StartMatch(t, w) PROVE SourceInv'
    <2> DEFINE r == [IdleThread EXCEPT !.state = "starting", !.work = w,
                                       !.rev = index[w]]
    <2>1. r.state \notin HoldingIds /\ r.toPut = {} /\ r.before = {}
        BY DEF IdleThread
    <2>2. thread' = [thread EXCEPT ![t] = r] /\ UNCHANGED <<graph, index>>
        BY <1>5 DEF StartMatch
    <2> HIDE DEF r
    <2> QED
        BY <1>2, <2>1, <2>2
<1>6. ASSUME NEW t \in Threads, Collect(t) \/ Die(t) PROVE SourceInv'
    BY <1>1, <1>2, <1>6 DEF Collect, Die
<1>7. ASSUME NEW t \in Threads, CallFails(t) PROVE SourceInv'
    BY <1>7, SourcesEnd DEF CallFails
<1>8. ASSUME NEW t \in Threads PROVE ~CheckIsUnreadable(t)
    BY DEF CheckIsUnreadable, Fault
<1>9. ASSUME NEW k \in LockIds, ExpireLock(k) PROVE SourceInv'
    BY <1>3, <1>9 DEF ExpireLock
<1>10. CASE UNCHANGED vars
    BY <1>3, <1>10 DEF vars
<1>11. ASSUME NEW t \in Threads, MatchStep(t) PROVE SourceInv'
    BY <1>11, MatchStepSources
<1> QED
    BY <1>4, <1>5, <1>6, <1>7, <1>8, <1>9, <1>10, <1>11 DEF Next

\* A step of the table: the last clause of SourcesOfPut.
MovesOn ==
    \A n \in WithSource(graph) : \E m \in WithSource(graph') :
        /\ m.id = n.id
        /\ m.sourceWork # n.sourceWork =>
               \E i, j \in 1..index[n.id] :
                   /\ i < j
                   /\ n.sourceWork = SourceData(n.id, Revisions[n.id][i])
                   /\ m.sourceWork = SourceData(n.id, Revisions[n.id][j])

\* Of the steps of a match only a put changes the table.
LEMMA MatchStepMovesOn ==
    ASSUME TypeOK, SourceInv, NEW t \in Threads, MatchStep(t)
    PROVE  UNCHANGED graph \/ MovesOn
<1>1. CASE PutNode(t)
    <2>1. PICK p \in thread[t].toPut : graph' = PutAll(graph, {p})
        BY <1>1 DEF PutNode
    <2> QED
        BY <2>1, SourcesOfPut DEF MovesOn, RevisionData
<1>2. CASE ~PutNode(t)
    BY <1>2 DEF MatchStep, LockWorkIds, LockSubgraphs, TakeLocks, LockingFails,
                CheckWorkIsCurrent, GetDirectlyAffected, QuerySubgraph, UpdateGraph,
                CompareReads, FinishPut, Fail, EndInFailure
<1> QED
    BY <1>1, <1>2

\* For any works, revisions and threads, whatever is published and whichever
\* calls fail or lambdas die, what the table says of a work only gives way to a
\* later revision of it.  An unreadable check takes any copy for current, and
\* does revert the table.
THEOREM RowsNeverRevert ==
    ASSUME "torn" \notin FaultKinds, "unreadable" \notin FaultKinds
    PROVE  Spec /\ []RereadsFindTheirIds => GraphNeverReverts
<1> DEFINE Inv == TypeOK /\ WritersHoldTheirLocks /\ CommitInv /\ SourceInv
<1>1. Init => Inv
    <2>1. Init => WritersHoldTheirLocks
        BY DEF Init, IdleThread, WritersHoldTheirLocks, HoldingIds,
               HoldingSubgraphs, FirstReading, SecondReading
    <2> QED
        BY <2>1, InitType, InitCommits, InitSources
<1>2. Inv /\ RereadsFindTheirIds /\ [Next]_vars => Inv'
    BY NextType, NextHolds, NextSerial, NextSources
<1>3. Inv /\ [Next]_vars => [MovesOn]_graph
    <2> SUFFICES ASSUME Inv, [Next]_vars, ~UNCHANGED graph PROVE MovesOn
        OBVIOUS
    <2>1. PICK t \in Threads : MatchStep(t)
        BY DEF Next, vars, Publish, StartMatch, Collect, CallFails, EndInFailure,
               CheckIsUnreadable, Die, ExpireLock
    <2> QED
        BY <2>1, MatchStepMovesOn
<1> QED
    BY <1>1, <1>2, <1>3, PTL DEF Spec, GraphNeverReverts, MovesOn

----------------------------------------------------------------------------
(***************************************************************************)
(* The lambda: type correctness, and the matches of a batch.               *)
(***************************************************************************)

\* Messages are about works that were published.
MessagesArePublished ==
    \A w \in Works :
        queue[w] > 0 \/ (\E l \in Lambdas : batch[l][w] > 0) => index[w] > 0

\* A thread that is not idle matches the work that its batch has it for.
MatchesTheBatch ==
    \A l \in Lambdas, w \in Works : thread[<<l, w>>].state # "idle" =>
        batch[l][w] > 0 /\ thread[<<l, w>>].work = w

BatchInv == LambdaTypeOK /\ MessagesArePublished /\ MatchesTheBatch

\* A thread is a lambda and a work.
LEMMA ThreadsOfLambdas ==
    /\ \A l \in Lambdas, w \in Works : <<l, w>> \in Threads
    /\ \A t \in Threads : t[1] \in Lambdas /\ t[2] \in Works /\ t = <<t[1], t[2]>>
BY LambdaAssumption

\* What a step of a lambda is for the matcher: a step of the matcher, or one of
\* the messages of a batch.
BatchStep(l) ==
    \/ StartAnyBatch(l)
    \/ FinishBatch(l)
    \/ NotifyFails(l)
    \/ LambdaDies(l)
    \/ \E w \in Works : Redeliver(l, w)

LEMMA StepsOfLambdas ==
    ASSUME [LambdaNext]_lambdaVars
    PROVE  [Next]_vars \/ \E l \in Lambdas : BatchStep(l)
<1>1. CASE UNCHANGED lambdaVars
    BY <1>1 DEF lambdaVars
<1>2. CASE \E w \in Works : PublishAndSend(w)
    BY <1>2 DEF PublishAndSend, Next
<1>3. CASE \E l \in Lambdas, w \in Works : LambdaStep(<<l, w>>)
    BY <1>3, ThreadsOfLambdas DEF LambdaStep, Next
<1>4. CASE \E k \in LockIds : LambdaExpireLock(k)
    BY <1>4 DEF LambdaExpireLock, Next
<1> QED
    BY <1>1, <1>2, <1>3, <1>4 DEF LambdaNext, BatchStep

\* The matches of a batch begin together and end together; a match that goes on
\* keeps its locks.
BatchMoves(l) ==
    /\ UNCHANGED <<index, graph, latest>>
    /\ thread' \in [Threads -> MatchState]
    /\ locks' \in [LockIds -> Owners]
    /\ faults' \in 0..MaxFaults
    /\ \A u \in Threads :
           \/ /\ thread'[u] = thread[u]
              /\ \A k \in LockIds : locks[k] = u => locks'[k] = u
           \/ /\ u[1] = l
              /\ thread'[u].state \in {"idle", "starting"}
              /\ thread'[u].state = "starting" =>
                     /\ thread'[u].work = u[2]
                     /\ thread'[u].rev \in 1..index[u[2]]
              /\ thread'[u].before = {} /\ thread'[u].reread = {}
              /\ thread'[u].after = {} /\ thread'[u].toPut = {}

\* A match begins with nothing but its work.
Starting(w, i) ==
    [IdleThread EXCEPT !.state = "starting", !.work = w, !.rev = i]

LEMMA StartingThread ==
    ASSUME NEW w \in Works, NEW i \in Nat
    PROVE  /\ Starting(w, i) \in MatchState
           /\ Starting(w, i).state = "starting"
           /\ Starting(w, i).work = w /\ Starting(w, i).rev = i
           /\ Starting(w, i).before = {} /\ Starting(w, i).reread = {}
           /\ Starting(w, i).after = {} /\ Starting(w, i).toPut = {}
BY DEF Starting, IdleThread, MatchState, Running

LEMMA BatchStepMoves ==
    ASSUME BatchInv, NEW l \in Lambdas, BatchStep(l)
    PROVE  BatchMoves(l)
<1>1. /\ IdleThread \in MatchState /\ IdleThread.state = "idle"
      /\ IdleThread.before = {} /\ IdleThread.reread = {}
      /\ IdleThread.after = {} /\ IdleThread.toPut = {}
    BY DEF IdleThread, MatchState
<1>2. TypeOK /\ queue \in Messages
    BY DEF BatchInv, LambdaTypeOK
<1>3. ASSUME ThreadsOver(l), UNCHANGED <<index, graph, latest>>,
             faults' \in 0..MaxFaults,
             UNCHANGED locks \/ Abandon({l} \X Works)
      PROVE  BatchMoves(l)
    <2>1. \A u \in Threads : \/ u[1] = l /\ thread'[u] = IdleThread
                             \/ u[1] # l /\ thread'[u] = thread[u]
        BY <1>3 DEF ThreadsOver
    <2>2. thread' \in [Threads -> MatchState]
        BY <1>1, <1>2, <1>3 DEF ThreadsOver, TypeOK
    <2>3. /\ locks' \in [LockIds -> Owners]
          /\ \A u \in Threads : u[1] # l =>
                 \A k \in LockIds : locks[k] = u => locks'[k] = u
        <3>1. CASE UNCHANGED locks
            BY <1>2, <3>1 DEF TypeOK
        <3>2. CASE Abandon({l} \X Works)
            <4>1. PICK taken \in SUBSET {k \in UNION {Wanted(t) : t \in {l} \X Works} :
                                             locks[k] = Nobody} :
                      locks' = [k \in LockIds |->
                                   IF locks[k] \in {l} \X Works \/ k \in taken
                                   THEN Orphan ELSE locks[k]]
                BY <3>2 DEF Abandon
            <4>2. \A k \in taken : locks[k] = Nobody
                OBVIOUS
            <4> QED
                BY <1>2, <4>1, <4>2, OwnersAssumption DEF TypeOK, Owners
        <3> QED
            BY <1>3, <3>1, <3>2
    <2> QED
        BY <1>1, <1>3, <2>1, <2>2, <2>3 DEF BatchMoves
<1>4. CASE StartAnyBatch(l)
    <2>1. PICK messages \in [Works -> 0..MaxBatch] :
              /\ \A w \in Works : messages[w] <= queue[w]
              /\ StartBatch(l, messages)
        BY <1>4 DEF StartAnyBatch
    <2> DEFINE r(t) == Starting(t[2], index[t[2]])
    <2>2. \A t \in Threads :
              thread'[t] = IF t[1] = l /\ messages[t[2]] > 0 THEN r(t) ELSE thread[t]
        BY <2>1 DEF StartBatch, Starting
    <2>3. ASSUME NEW t \in Threads, messages[t[2]] > 0
          PROVE  /\ r(t) \in MatchState /\ r(t).state = "starting"
                 /\ r(t).work = t[2] /\ r(t).rev \in 1..index[t[2]]
                 /\ r(t).before = {} /\ r(t).reread = {}
                 /\ r(t).after = {} /\ r(t).toPut = {}
        <3>1. t[2] \in Works
            BY ThreadsOfLambdas
        <3>2. queue[t[2]] \in Nat /\ messages[t[2]] \in Nat
              /\ messages[t[2]] <= queue[t[2]]
            BY <1>2, <2>1, <3>1, LambdaAssumption DEF Messages
        <3>3. index[t[2]] \in Nat /\ index[t[2]] > 0
            BY <1>2, <2>3, <3>1, <3>2 DEF BatchInv, MessagesArePublished, TypeOK
        <3>4. index[t[2]] \in 1..index[t[2]]
            BY <3>3
        <3> QED
            BY <3>1, <3>3, <3>4, StartingThread
    <2> HIDE DEF r
    <2>4. thread' \in [Threads -> MatchState]
        <3>1. thread' = [t \in Threads |->
                            IF t[1] = l /\ messages[t[2]] > 0 THEN thread'[t]
                                                              ELSE thread[t]]
            BY <2>1 DEF StartBatch
        <3> QED
            BY <1>2, <2>2, <2>3, <3>1 DEF TypeOK
    <2>5. UNCHANGED <<index, graph, latest, locks, faults>>
        BY <2>1 DEF StartBatch
    <2> QED
        BY <1>2, <2>2, <2>3, <2>4, <2>5 DEF BatchMoves, TypeOK
<1>5. ASSUME NEW kind, Fault(kind) PROVE faults' \in 0..MaxFaults
    BY <1>2, <1>5, FaultsAssumption DEF Fault, TypeOK
<1>6. CASE FinishBatch(l)
    BY <1>2, <1>3, <1>6 DEF FinishBatch, TypeOK
<1>7. CASE NotifyFails(l)
    BY <1>3, <1>5, <1>7 DEF NotifyFails
<1>8. CASE LambdaDies(l)
    BY <1>3, <1>5, <1>8 DEF LambdaDies
<1>9. CASE \E w \in Works : Redeliver(l, w)
    BY <1>2, <1>5, <1>9 DEF Redeliver, BatchMoves, TypeOK
<1> QED
    BY <1>4, <1>6, <1>7, <1>8, <1>9 DEF BatchStep

\* So the state of the matcher stays well-formed in a batch step.
LEMMA BatchStepType ==
    ASSUME TypeOK, NEW l \in Lambdas, BatchMoves(l)
    PROVE  TypeOK'
<1>1. ASSUME NEW u \in Threads, thread'[u].state \in Running
      PROVE  thread'[u].work \in Works /\ thread'[u].rev \in 1..index[thread'[u].work]
    BY <1>1, ThreadsOfLambdas
    DEF BatchMoves, TypeOK, Running, HoldingIds, FirstReading, HoldingSubgraphs,
        SecondReading
<1> QED
    BY <1>1 DEF BatchMoves, TypeOK, Keyed

\* A step of a match is a step of one thread that runs, which goes on with its
\* work or ends.
LEMMA MatchGoesOn ==
    ASSUME TypeOK, NEW t \in Threads,
           MatchStep(t) \/ CallFails(t) \/ CheckIsUnreadable(t)
    PROVE  /\ UNCHANGED index
           /\ \A u \in Threads \ {t} : thread'[u] = thread[u]
           /\ thread[t].state \in Running
           /\ thread'[t].state \in Running \union Ended
           /\ thread'[t].work = thread[t].work
           /\ thread'[t].rev = thread[t].rev
<1> USE DEF Running, Ended, HoldingIds, FirstReading, HoldingSubgraphs, SecondReading
<1>1. thread[t] \in MatchState
    BY DEF TypeOK
<1> DEFINE Goal == /\ UNCHANGED index
                   /\ \A u \in Threads \ {t} : thread'[u] = thread[u]
                   /\ thread[t].state \in Running
                   /\ thread'[t].state \in Running \union Ended
                   /\ thread'[t].work = thread[t].work
                   /\ thread'[t].rev = thread[t].rev
<1>2. ASSUME EndInFailure(t), thread[t].state \in Running PROVE Goal
    BY <1>2 DEF EndInFailure, IdleThread, TypeOK
<1>3. ASSUME NEW nodes, Succeed(t, nodes), thread[t].state \in Running, UNCHANGED index
      PROVE  Goal
    BY <1>3 DEF Succeed, IdleThread, TypeOK
<1>4. ASSUME NEW next \in Running, Goto(t, next), thread[t].state \in Running,
             UNCHANGED index
      PROVE  Goal
    BY <1>1, <1>4 DEF Goto, TypeOK, MatchState
<1>5. CASE LockWorkIds(t) \/ LockSubgraphs(t)
    BY <1>4, <1>5 DEF LockWorkIds, LockSubgraphs, TakeLocks
<1>6. CASE LockingFails(t)
    BY <1>2, <1>6 DEF LockingFails, Fail, Wanted
<1>7. CASE CheckWorkIsCurrent(t)
    BY <1>2, <1>4, <1>7 DEF CheckWorkIsCurrent, Fail
<1>8. CASE GetDirectlyAffected(t)
    BY <1>1, <1>8 DEF GetDirectlyAffected, TypeOK, MatchState
<1>9. CASE QuerySubgraph(t)
    <2>1. PICK toRead, before, reread : thread' = [thread EXCEPT
              ![t].toRead = toRead, ![t].before = before, ![t].reread = reread]
        BY <1>9 DEF QuerySubgraph
    <2> QED
        BY <1>1, <1>9, <2>1 DEF QuerySubgraph, TypeOK, MatchState
<1>10. CASE UpdateGraph(t)
    <2>1. thread[t].state = "reading" /\ UNCHANGED index
        BY <1>10 DEF UpdateGraph, Fail, EndInFailure
    <2>2. \/ Fail(t)
          \/ \E nodes : Succeed(t, nodes)
          \/ \E after : thread' = [thread EXCEPT ![t].after = after,
                                                 ![t].state = "updated"]
        BY <1>10 DEF UpdateGraph
    <2>3. CASE \E after : thread' = [thread EXCEPT ![t].after = after,
                                                   ![t].state = "updated"]
        BY <1>1, <2>1, <2>3 DEF TypeOK, MatchState
    <2> QED
        BY <1>2, <1>3, <2>1, <2>2, <2>3 DEF Fail
<1>11. CASE CompareReads(t)
    <2>1. thread[t].state = "rereading" /\ UNCHANGED index
        BY <1>11 DEF CompareReads, Fail, EndInFailure
    <2>2. \/ Fail(t)
          \/ thread' = [thread EXCEPT ![t].toPut = thread[t].after,
                                      ![t].state = "putting"]
        BY <1>11 DEF CompareReads
    <2> QED
        BY <1>1, <1>2, <2>1, <2>2 DEF Fail, TypeOK, MatchState
<1>12. CASE PutNode(t)
    <2>1. PICK toPut : thread' = [thread EXCEPT ![t].toPut = toPut]
        BY <1>12 DEF PutNode
    <2> QED
        BY <1>1, <1>12, <2>1 DEF PutNode, TypeOK, MatchState
<1>13. CASE FinishPut(t)
    BY <1>3, <1>13 DEF FinishPut
<1>14. CASE CallFails(t)
    BY <1>2, <1>14 DEF CallFails, Interruptible
<1>15. CASE CheckIsUnreadable(t)
    BY <1>4, <1>15 DEF CheckIsUnreadable
<1> QED
    BY <1>5, <1>6, <1>7, <1>8, <1>9, <1>10, <1>11, <1>12, <1>13, <1>14, <1>15
    DEF MatchStep

\* The messages that come back at the end of a batch are some of its own.
Returned(l, returned) ==
    /\ returned \in Messages
    /\ \A w \in Works : returned[w] > 0 => batch[l][w] > 0

LEMMA BatchesEnd ==
    ASSUME LambdaTypeOK, NEW l \in Lambdas, batch[l] \in Messages
    PROVE  /\ Returned(l, [w \in Works |-> IF w \in MissingMessages(l) THEN 1 ELSE 0])
           /\ Returned(l, batch[l])
BY DEF Returned, Messages, MissingMessages, InBatch

\* Every step keeps messages, batches and matches together.
LEMMA BatchesStay == BatchInv /\ [LambdaNext]_lambdaVars => BatchInv'
<1> SUFFICES ASSUME BatchInv, [LambdaNext]_lambdaVars PROVE BatchInv'
    OBVIOUS
<1>1. /\ TypeOK /\ LambdaTypeOK
      /\ queue \in [Works -> Nat] /\ batch \in [Lambdas -> Messages]
      /\ untold \subseteq Works /\ index \in [Works -> Nat]
      /\ \A l \in Lambdas : batch[l] \in [Works -> Nat]
    BY DEF BatchInv, LambdaTypeOK, Messages, TypeOK
<1>2. TypeOK'
    BY <1>1, StepsOfLambdas, NextType, BatchStepMoves, BatchStepType
<1> DEFINE Rest == /\ queue' \in Messages /\ batch' \in [Lambdas -> Messages]
                   /\ untold' \subseteq Works
                   /\ MessagesArePublished' /\ MatchesTheBatch'
<1>3. Rest => BatchInv'
    BY <1>2 DEF BatchInv, LambdaTypeOK
<1> HIDE DEF Rest
<1>4. ASSUME UNCHANGED <<queue, batch>>, untold' \subseteq Works, UNCHANGED index,
             \A t \in Threads : \/ thread'[t] = thread[t]
                                \/ /\ thread[t].state # "idle"
                                   /\ thread'[t].work = thread[t].work
      PROVE  Rest
    <2>1. MessagesArePublished'
        BY <1>4 DEF BatchInv, MessagesArePublished
    <2>2. MatchesTheBatch'
        BY <1>4, ThreadsOfLambdas DEF BatchInv, MatchesTheBatch
    <2> QED
        BY <1>1, <1>4, <2>1, <2>2 DEF Rest, Messages
<1>5. ASSUME NEW l \in Lambdas, NEW returned, Returned(l, returned),
             EndBatch(l, returned), ThreadsOver(l), untold' \subseteq Works,
             UNCHANGED index
      PROVE  Rest
    <2>1. /\ returned \in [Works -> Nat]
          /\ \A w \in Works : returned[w] > 0 => batch[l][w] > 0
        BY <1>5 DEF Returned, Messages
    <2>2. /\ queue' = [w \in Works |-> queue[w] + returned[w]]
          /\ batch' = [batch EXCEPT ![l] = NoMessages]
        BY <1>5 DEF EndBatch
    <2>3. queue' \in Messages /\ batch' \in [Lambdas -> Messages]
        BY <1>1, <2>1, <2>2 DEF Messages, NoMessages
    <2>4. MessagesArePublished'
        <3>1. ASSUME NEW w \in Works, queue'[w] > 0 PROVE index'[w] > 0
            <4>1. queue[w] > 0 \/ returned[w] > 0
                BY <1>1, <2>1, <2>2, <3>1
            <4> QED
                BY <1>5, <2>1, <4>1 DEF BatchInv, MessagesArePublished
        <3>2. ASSUME NEW w \in Works, NEW m \in Lambdas, batch'[m][w] > 0
              PROVE  index'[w] > 0
            <4>1. batch[m][w] > 0
                BY <1>1, <2>2, <3>2 DEF NoMessages
            <4> QED
                BY <1>5, <4>1 DEF BatchInv, MessagesArePublished
        <3> QED
            BY <3>1, <3>2 DEF MessagesArePublished
    <2>5. MatchesTheBatch'
        <3>1. ASSUME NEW m \in Lambdas, NEW w \in Works,
                     thread'[<<m, w>>].state # "idle"
              PROVE  batch'[m][w] > 0 /\ thread'[<<m, w>>].work = w
            <4>1. m # l /\ thread'[<<m, w>>] = thread[<<m, w>>]
                BY <1>5, <3>1, ThreadsOfLambdas DEF ThreadsOver, IdleThread
            <4> QED
                BY <1>1, <2>2, <3>1, <4>1 DEF BatchInv, MatchesTheBatch
        <3> QED
            BY <3>1 DEF MatchesTheBatch
    <2> QED
        BY <1>5, <2>3, <2>4, <2>5 DEF Rest
<1>6. \A l \in Lambdas : /\ Returned(l, [w \in Works |->
                                          IF w \in MissingMessages(l) THEN 1 ELSE 0])
                         /\ Returned(l, batch[l])
    BY <1>1, BatchesEnd
<1>7. ASSUME NEW w \in Works, PublishAndSend(w) PROVE Rest
    <2>1. /\ queue' = [queue EXCEPT ![w] = queue[w] + 1]
          /\ index' = [index EXCEPT ![w] = index[w] + 1]
          /\ UNCHANGED <<batch, untold, thread>>
        BY <1>7 DEF PublishAndSend, Publish
    <2>2. MessagesArePublished'
        BY <1>1, <2>1 DEF BatchInv, MessagesArePublished
    <2>3. MatchesTheBatch'
        BY <2>1 DEF BatchInv, MatchesTheBatch
    <2> QED
        BY <1>1, <2>1, <2>2, <2>3 DEF Rest, Messages
<1>8. ASSUME NEW l \in Lambdas, StartAnyBatch(l) PROVE Rest
    <2>1. PICK messages \in [Works -> 0..MaxBatch] :
              /\ \A w \in Works : messages[w] <= queue[w]
              /\ StartBatch(l, messages)
        BY <1>8 DEF StartAnyBatch
    <2>2. /\ queue' = [w \in Works |-> queue[w] - messages[w]]
          /\ batch' = [batch EXCEPT ![l] = messages]
          /\ UNCHANGED <<index, untold>>
          /\ \A t \in Threads : thread'[t] =
                 IF t[1] = l /\ messages[t[2]] > 0
                 THEN Starting(t[2], index[t[2]]) ELSE thread[t]
        BY <2>1 DEF StartBatch, Starting
    <2>3. \A w \in Works : messages[w] \in Nat
        BY <2>1, LambdaAssumption
    <2>4. queue' \in Messages /\ batch' \in [Lambdas -> Messages]
        BY <1>1, <2>1, <2>2, <2>3 DEF Messages
    <2>5. MessagesArePublished'
        <3>1. ASSUME NEW w \in Works, queue'[w] > 0 \/ messages[w] > 0
              PROVE  index'[w] > 0
            BY <1>1, <2>1, <2>2, <2>3, <3>1 DEF BatchInv, MessagesArePublished
        <3>2. \A w \in Works, m \in Lambdas : batch'[m][w] > 0 =>
                  messages[w] > 0 \/ batch[m][w] > 0
            BY <1>1, <2>2
        <3> QED
            BY <2>2, <3>1, <3>2 DEF BatchInv, MessagesArePublished
    <2>6. MatchesTheBatch'
        <3>1. ASSUME NEW m \in Lambdas, NEW w \in Works,
                     thread'[<<m, w>>].state # "idle"
              PROVE  batch'[m][w] > 0 /\ thread'[<<m, w>>].work = w
            <4>1. CASE m = l /\ messages[w] > 0
                <5>1. thread'[<<m, w>>] = Starting(w, index[w])
                    BY <2>2, <4>1, ThreadsOfLambdas
                <5> QED
                    BY <1>1, <2>2, <4>1, <5>1, StartingThread
            <4>2. CASE ~(m = l /\ messages[w] > 0)
                <5>1. thread'[<<m, w>>] = thread[<<m, w>>]
                    BY <2>2, <4>2, ThreadsOfLambdas
                <5>2. batch[m][w] > 0 /\ thread[<<m, w>>].work = w
                    BY <3>1, <5>1 DEF BatchInv, MatchesTheBatch
                <5>3. batch[l] = NoMessages /\ NoMessages[w] = 0
                    BY <2>1 DEF StartBatch, NoMessages
                <5>4. m # l
                    BY <5>2, <5>3
                <5> QED
                    BY <1>1, <2>2, <5>1, <5>2, <5>4
            <4> QED
                BY <4>1, <4>2
        <3> QED
            BY <3>1 DEF MatchesTheBatch
    <2> QED
        BY <1>1, <2>2, <2>4, <2>5, <2>6 DEF Rest
<1>9. ASSUME NEW l \in Lambdas, FinishBatch(l) PROVE Rest
    BY <1>1, <1>5, <1>6, <1>9 DEF FinishBatch
<1>10. ASSUME NEW l \in Lambdas, NotifyFails(l) PROVE Rest
    BY <1>1, <1>5, <1>6, <1>10 DEF NotifyFails
<1>11. ASSUME NEW l \in Lambdas, LambdaDies(l) PROVE Rest
    BY <1>1, <1>5, <1>6, <1>11 DEF LambdaDies
<1>12. ASSUME NEW t \in Threads, LambdaStep(t) PROVE Rest
    <2>1. /\ UNCHANGED index /\ \A u \in Threads \ {t} : thread'[u] = thread[u]
          /\ thread[t].state \in Running /\ thread'[t].work = thread[t].work
        BY <1>1, <1>12, MatchGoesOn DEF LambdaStep
    <2>2. thread[t].state # "idle"
        BY <2>1 DEF Running, HoldingIds, FirstReading, HoldingSubgraphs, SecondReading
    <2>3. graph' \subseteq WorkNode
        BY <1>2 DEF TypeOK
    <2>4. untold' \subseteq Works /\ UNCHANGED <<queue, batch>>
        BY <1>1, <1>12, <2>3 DEF LambdaStep, WithSource, WorkNode
    <2> QED
        BY <1>4, <2>1, <2>2, <2>4
<1>13. ASSUME NEW l \in Lambdas, NEW w \in Works, Redeliver(l, w) PROVE Rest
    <2>1. /\ queue' = [queue EXCEPT ![w] = queue[w] + 1] /\ batch[l][w] > 0
          /\ UNCHANGED <<batch, untold, thread, index>>
        BY <1>13 DEF Redeliver
    <2>2. MessagesArePublished'
        BY <1>1, <2>1 DEF BatchInv, MessagesArePublished
    <2>3. MatchesTheBatch'
        BY <2>1 DEF BatchInv, MatchesTheBatch
    <2> QED
        BY <1>1, <2>1, <2>2, <2>3 DEF Rest, Messages
<1>14. ASSUME UNCHANGED lambdaVars \/ \E k \in LockIds : LambdaExpireLock(k)
       PROVE  Rest
    BY <1>1, <1>4, <1>14 DEF lambdaVars, vars, LambdaExpireLock, ExpireLock
<1>15. ASSUME NEW l \in Lambdas, NEW w \in Works, LambdaStep(<<l, w>>) PROVE Rest
    BY <1>12, <1>15, ThreadsOfLambdas
<1>16. Rest
    BY <1>7, <1>8, <1>9, <1>10, <1>11, <1>13, <1>14, <1>15 DEF LambdaNext
<1> QED
    BY <1>3, <1>16

\* Matches that go on through a batch step keep their locks, and the others
\* need none.
LEMMA BatchStepHolds ==
    ASSUME TypeOK, WritersHoldTheirLocks, NEW l \in Lambdas, BatchMoves(l)
    PROVE  WritersHoldTheirLocks'
<1>1. ASSUME NEW u \in Threads PROVE Holds(u)'
    <2>1. Holds(u)
        BY DEF WritersHoldTheirLocks, Holds
    <2>2. CASE thread'[u] = thread[u] /\ \A k \in LockIds : locks[k] = u => locks'[k] = u
        BY <2>1, <2>2, OthersHold
    <2>3. CASE thread'[u].state \in {"idle", "starting"}
        BY <2>3 DEF Holds, HoldingIds, FirstReading, HoldingSubgraphs, SecondReading
    <2> QED
        BY <2>2, <2>3 DEF BatchMoves
<1> QED
    BY <1>1 DEF WritersHoldTheirLocks, Holds

\* The matches that a batch step begins or ends have no rows to write.
LEMMA BatchHasNoPuts ==
    ASSUME "torn" \notin FaultKinds, BatchInv, CommitInv, NEW l \in Lambdas,
           BatchStep(l), NEW u \in Threads, u[1] = l
    PROVE  thread'[u] = thread[u] \/ thread[u].toPut = {}
<1>1. /\ u = <<l, u[2]>> /\ u[2] \in Works /\ thread[u] \in MatchState
      /\ batch[l] \in [Works -> Nat]
      /\ thread[u].state # "putting" => thread[u].toPut = {}
    BY ThreadsOfLambdas
    DEF BatchInv, LambdaTypeOK, TypeOK, Messages, CommitInv, Matches, HasNothingYet
<1>2. thread[u].state # "idle" => batch[l][u[2]] > 0
    BY <1>1 DEF BatchInv, MatchesTheBatch
<1>3. CASE StartAnyBatch(l)
    <2>1. batch[l] = NoMessages /\ NoMessages[u[2]] = 0
        BY <1>1, <1>3 DEF StartAnyBatch, StartBatch, NoMessages
    <2>2. thread[u].state = "idle"
        BY <1>2, <2>1
    <2> QED
        BY <1>1, <2>2
<1>4. CASE AllEnded(l)
    BY <1>1, <1>2, <1>4 DEF AllEnded, InBatch, Ended
<1>5. CASE LambdaDies(l)
    <2>1. CASE thread[u].state \in Running
        <3>1. Interruptible(u)
            BY <1>1, <1>2, <1>5, <2>1
            DEF LambdaDies, InBatch, Running, HoldingIds, FirstReading,
                HoldingSubgraphs, SecondReading
        <3> QED
            BY <3>1, InterruptedStep DEF BatchInv, LambdaTypeOK
    <2>2. CASE thread[u].state \notin Running
        BY <1>1, <2>2 DEF Running, HoldingIds, HoldingSubgraphs
    <2> QED
        BY <2>1, <2>2
<1>6. CASE \E w \in Works : Redeliver(l, w)
    BY <1>6 DEF Redeliver
<1> QED
    BY <1>3, <1>4, <1>5, <1>6 DEF BatchStep, FinishBatch, NotifyFails

\* Batch steps leave the committed graph alone, and give no match anything to
\* say of the sources.
LEMMA BatchStepAside ==
    ASSUME "torn" \notin FaultKinds, BatchInv, CommitInv, NEW l \in Lambdas,
           BatchStep(l)
    PROVE  /\ CommitInv' /\ UNCHANGED CommittedGraph
           /\ \A u \in Threads : thread'[u] = thread[u] \/ NotReading(u)'
<1>1. BatchMoves(l)
    BY BatchStepMoves
<1>2. UNCHANGED graph
    BY <1>1 DEF BatchMoves
<1>3. ASSUME NEW u \in Threads, thread'[u] # thread[u]
      PROVE  /\ thread[u].toPut = {}
             /\ thread'[u].state \notin HoldingIds
             /\ thread'[u].before = {} /\ thread'[u].reread = {}
             /\ thread'[u].toPut = {}
    <2>1. /\ u[1] = l /\ thread'[u].state \in {"idle", "starting"}
          /\ thread'[u].before = {} /\ thread'[u].reread = {}
          /\ thread'[u].toPut = {}
        BY <1>1, <1>3 DEF BatchMoves
    <2> QED
        BY <1>3, <2>1, BatchHasNoPuts
        DEF HoldingIds, FirstReading, HoldingSubgraphs, SecondReading
<1>4. CommitInv' /\ UNCHANGED CommittedGraph
    BY <1>2, <1>3, StepAside
<1> QED
    BY <1>3, <1>4 DEF NotReading

\* What a lambda does keeps all that the matches rely on.
LambdaInv ==
    BatchInv /\ WritersHoldTheirLocks /\ CommitInv /\ SourceInv

LEMMA InitBatches == LambdaInit => LambdaInv
<1> SUFFICES ASSUME LambdaInit PROVE LambdaInv
    OBVIOUS
<1>1. /\ Init /\ queue = NoMessages /\ batch = [l \in Lambdas |-> NoMessages]
      /\ untold = {}
    BY DEF LambdaInit
<1>2. WritersHoldTheirLocks
    BY <1>1 DEF Init, IdleThread, WritersHoldTheirLocks, HoldingIds,
                HoldingSubgraphs, FirstReading, SecondReading
<1>3. NoMessages \in Messages /\ \A w \in Works : ~(NoMessages[w] > 0)
    BY DEF NoMessages, Messages
<1>4. MessagesArePublished
    BY <1>1, <1>3 DEF MessagesArePublished
<1>5. MatchesTheBatch
    BY <1>1, ThreadsOfLambdas DEF MatchesTheBatch, Init, IdleThread
<1>6. LambdaTypeOK
    BY <1>1, <1>3, InitType DEF LambdaTypeOK
<1> QED
    BY <1>1, <1>2, <1>4, <1>5, <1>6, InitCommits, InitSources DEF LambdaInv, BatchInv

LEMMA LambdaStays ==
    ASSUME "torn" \notin FaultKinds, "unreadable" \notin FaultKinds
    PROVE  LambdaInv /\ RereadsFindTheirIds /\ [LambdaNext]_lambdaVars => LambdaInv'
<1> SUFFICES ASSUME LambdaInv, RereadsFindTheirIds, [LambdaNext]_lambdaVars
             PROVE  LambdaInv'
    OBVIOUS
<1>1. /\ BatchInv /\ TypeOK /\ WritersHoldTheirLocks /\ CommitInv /\ SourceInv
      /\ BatchInv'
    BY BatchesStay DEF LambdaInv, BatchInv, LambdaTypeOK
<1>2. CASE [Next]_vars
    BY <1>1, <1>2, NextHolds, NextSerial, NextSources DEF LambdaInv
<1>3. ASSUME NEW l \in Lambdas, BatchStep(l) PROVE LambdaInv'
    <2>1. BatchMoves(l) /\ UNCHANGED <<graph, index>>
        BY <1>1, <1>3, BatchStepMoves DEF BatchMoves
    <2>2. WritersHoldTheirLocks'
        BY <1>1, <2>1, BatchStepHolds
    <2>3. CommitInv' /\ \A u \in Threads : thread'[u] = thread[u] \/ NotReading(u)'
        BY <1>1, <1>3, BatchStepAside
    <2>4. SourceInv'
        BY <1>1, <2>1, <2>3, SourcesAside
    <2> QED
        BY <1>1, <2>2, <2>3, <2>4 DEF LambdaInv
<1> QED
    BY <1>2, <1>3, StepsOfLambdas

\* Whatever batches SQS makes of the messages, delivers twice or takes back,
\* the state of the lambdas is well-formed: nobody takes a message that is not
\* there, or matches a work that is not published.
THEOREM LambdaTypeCorrect == LambdaSpec => []LambdaTypeOK
<1>1. LambdaInit => BatchInv
    BY InitBatches DEF LambdaInv
<1>2. BatchInv /\ [LambdaNext]_lambdaVars => BatchInv'
    BY BatchesStay
<1>3. BatchInv => LambdaTypeOK
    BY DEF BatchInv
<1> QED
    BY <1>1, <1>2, <1>3, PTL DEF LambdaSpec

\* The lambdas' matches are as good as matches one after another, however the
\* messages are batched and whichever lambdas die.
THEOREM LambdasAreSerial ==
    ASSUME "torn" \notin FaultKinds
    PROVE  LambdaSpec /\ []RereadsFindTheirIds => SerialSpec
<1> DEFINE Inv == BatchInv /\ WritersHoldTheirLocks /\ CommitInv
<1>1. LambdaInit => Inv /\ Serial!Init
    BY InitBatches, InitCommits DEF LambdaInv, LambdaInit, Serial!Init
<1>2. Inv /\ RereadsFindTheirIds /\ [LambdaNext]_lambdaVars
      => Inv' /\ [Serial!Next]_CommittedGraph
    <2> SUFFICES ASSUME Inv, RereadsFindTheirIds, [LambdaNext]_lambdaVars
                 PROVE  Inv' /\ [Serial!Next]_CommittedGraph
        OBVIOUS
    <2>1. TypeOK /\ BatchInv'
        BY BatchesStay DEF BatchInv, LambdaTypeOK
    <2>2. CASE [Next]_vars
        BY <2>1, <2>2, NextHolds, NextSerial, SeriallyMatches
    <2>3. ASSUME NEW l \in Lambdas, BatchStep(l)
          PROVE  WritersHoldTheirLocks' /\ CommitInv' /\ UNCHANGED CommittedGraph
        BY <2>1, <2>3, BatchStepMoves, BatchStepHolds, BatchStepAside
    <2> QED
        BY <2>1, <2>2, <2>3, StepsOfLambdas
<1> QED
    BY <1>1, <1>2, PTL DEF LambdaSpec, SerialSpec, Serial!Spec

\* The lambdas share what the matches of one process promise: however messages
\* are batched, and whatever fails between matches and notifications, what the
\* table says of a work only gives way to a later revision of it.
THEOREM LambdasNeverRevert ==
    ASSUME "torn" \notin FaultKinds, "unreadable" \notin FaultKinds
    PROVE  LambdaSpec /\ []RereadsFindTheirIds => GraphNeverReverts
<1>1. LambdaInit => LambdaInv
    BY InitBatches
<1>2. LambdaInv /\ RereadsFindTheirIds /\ [LambdaNext]_lambdaVars => LambdaInv'
    BY LambdaStays
<1>3. LambdaInv /\ [LambdaNext]_lambdaVars => [MovesOn]_graph
    <2> SUFFICES ASSUME LambdaInv, [LambdaNext]_lambdaVars, ~UNCHANGED graph
                 PROVE  MovesOn
        OBVIOUS
    <2>1. /\ BatchInv /\ TypeOK /\ SourceInv
        BY DEF LambdaInv, BatchInv, LambdaTypeOK
    <2>2. [Next]_vars
        BY <2>1, StepsOfLambdas, BatchStepMoves DEF BatchMoves
    <2>3. PICK t \in Threads : MatchStep(t)
        BY <2>2 DEF Next, vars, Publish, StartMatch, Collect, CallFails,
                    EndInFailure, CheckIsUnreadable, Die, ExpireLock
    <2> QED
        BY <2>1, <2>3, MatchStepMovesOn
<1> QED
    BY <1>1, <1>2, <1>3, PTL DEF LambdaSpec, GraphNeverReverts, MovesOn

----------------------------------------------------------------------------
(***************************************************************************)
(* No work and no update is lost.  A message leaves the queue for good     *)
(* only when a result of its batch has its work: its match has succeeded   *)
(* with the revision that was current when it passed the check, and        *)
(* whoever published a later one since has sent another message; or the    *)
(* result is a neighbour's, and says no more than that the table has the   *)
(* work, which is all that NoWorkIsLost asks for, while NoUpdateIsLost     *)
(* needs it to have the current revision.                                  *)
(***************************************************************************)

\* The match of w in the batch of l has the current copy, and has not succeeded.
Unmatched(l, w) ==
    /\ batch[l][w] > 0
    /\ thread[<<l, w>>].state # "matched"
    /\ HasCurrentCopy(l, w)

\* A message about w is in the queue, or being matched by one of the lambdas ls.
Waiting(w, ls) == queue[w] > 0 \/ \E l \in ls : Unmatched(l, w)

\* There is somebody to match what the graph does not have yet, and somebody
\* else to match what a match under way does not have.
UpdatesAreInHand ==
    \A w \in Works :
        /\ index[w] > 0 /\ ~IsCurrent(w) => Waiting(w, Lambdas)
        /\ \A l \in Lambdas : IsOutdated(<<l, w>>) => Waiting(w, Lambdas \ {l})

\* A batch step leaves messages in the queue, or with one of the lambdas ls,
\* unless another lambda takes them, or one that failed counts as found.
LEMMA BatchStepWaits ==
    ASSUME BatchInv, NEW l \in Lambdas, BatchStep(l),
           NEW w \in Works, NEW ls \in SUBSET Lambdas,
           l \in ls \/ batch[l] # NoMessages, Waiting(w, ls),
           FinishBatch(l) /\ Unmatched(l, w) => w \in MissingMessages(l)
    PROVE  Waiting(w, ls)'
<1>1. /\ queue \in [Works -> Nat] /\ batch \in [Lambdas -> Messages]
      /\ \A m \in Lambdas : batch[m] \in [Works -> Nat]
    BY DEF BatchInv, LambdaTypeOK, Messages
<1>0. UNCHANGED index
    BY BatchStepMoves DEF BatchMoves

\* The batch comes back, or at least the message about w if it was not matched.
<1>2. ASSUME NEW returned, Returned(l, returned), EndBatch(l, returned),
             ThreadsOver(l), Unmatched(l, w) => returned[w] > 0
      PROVE  Waiting(w, ls)'
    <2>1. returned[w] \in Nat /\ queue'[w] = queue[w] + returned[w]
        BY <1>2 DEF Returned, Messages, EndBatch
    <2>2. queue[w] \in Nat
        BY <1>1
    <2>3. CASE queue[w] > 0 \/ Unmatched(l, w)
        BY <1>2, <2>1, <2>2, <2>3 DEF Waiting
    <2>4. ASSUME NEW m \in ls, Unmatched(m, w), m # l
          PROVE  Unmatched(m, w)'
        <3>1. m \in Lambdas /\ thread'[<<m, w>>] = thread[<<m, w>>]
            BY <1>2, <2>4, ThreadsOfLambdas DEF ThreadsOver
        <3> QED
            BY <1>0, <1>1, <1>2, <2>4, <3>1 DEF EndBatch, Unmatched, HasCurrentCopy
    <2> QED
        BY <2>3, <2>4 DEF Waiting
<1>3. /\ Returned(l, [v \in Works |-> IF v \in MissingMessages(l) THEN 1 ELSE 0])
      /\ Returned(l, batch[l])
    BY <1>1, BatchesEnd DEF BatchInv
<1>4. CASE StartAnyBatch(l)
    <2>1. PICK messages \in [Works -> 0..MaxBatch] :
              /\ \A v \in Works : messages[v] <= queue[v]
              /\ StartBatch(l, messages)
        BY <1>4 DEF StartAnyBatch
    <2>2. /\ queue' = [v \in Works |-> queue[v] - messages[v]]
          /\ batch' = [batch EXCEPT ![l] = messages]
          /\ batch[l] = NoMessages /\ l \in ls
          /\ \A t \in Threads : thread'[t] =
                 IF t[1] = l /\ messages[t[2]] > 0
                 THEN Starting(t[2], index[t[2]]) ELSE thread[t]
        BY <2>1 DEF StartBatch, Starting
    <2>3. messages[w] \in Nat /\ queue[w] \in Nat
        BY <1>1, <2>1, LambdaAssumption
    <2>4. CASE messages[w] > 0
        <3>1. /\ thread'[<<l, w>>] = Starting(w, index[w])
              /\ <<l, w>> \in Threads
            BY <2>2, <2>4, ThreadsOfLambdas
        <3>2. index[w] \in Nat
            BY DEF BatchInv, LambdaTypeOK, TypeOK
        <3>3. Unmatched(l, w)'
            BY <1>0, <1>1, <2>2, <2>4, <3>1, <3>2, StartingThread
            DEF Unmatched, HasCurrentCopy
        <3> QED
            BY <2>2, <3>3 DEF Waiting
    <2>5. CASE messages[w] = 0
        <3>1. queue'[w] = queue[w]
            BY <2>2, <2>3, <2>5
        <3>2. ASSUME NEW m \in ls, Unmatched(m, w) PROVE Unmatched(m, w)'
            <4>1. batch[m][w] > 0 /\ NoMessages[w] = 0
                BY <3>2 DEF Unmatched, NoMessages
            <4>2. m # l /\ m \in Lambdas
                BY <2>2, <4>1
            <4>3. thread'[<<m, w>>] = thread[<<m, w>>]
                BY <2>2, <4>2, ThreadsOfLambdas
            <4> QED
                BY <1>0, <1>1, <2>2, <3>2, <4>2, <4>3 DEF Unmatched, HasCurrentCopy
        <3> QED
            BY <3>1, <3>2 DEF Waiting
    <2> QED
        BY <2>3, <2>4, <2>5
<1>5. CASE FinishBatch(l)
    <2> DEFINE returned == [v \in Works |-> IF v \in MissingMessages(l) THEN 1 ELSE 0]
    <2>1. EndBatch(l, returned) /\ ThreadsOver(l) /\ Returned(l, returned)
        BY <1>3, <1>5 DEF FinishBatch
    <2>2. ASSUME Unmatched(l, w) PROVE returned[w] > 0
        BY <1>5, <2>2
    <2> HIDE DEF returned
    <2> QED
        BY <1>2, <2>1, <2>2
<1>6. CASE NotifyFails(l) \/ LambdaDies(l)
    BY <1>2, <1>3, <1>6 DEF NotifyFails, LambdaDies, Unmatched
<1>7. CASE \E v \in Works : Redeliver(l, v)
    <2>1. PICK v \in Works : queue' = [queue EXCEPT ![v] = queue[v] + 1]
        BY <1>7 DEF Redeliver
    <2>2. queue[w] > 0 => queue'[w] > 0
        BY <1>1, <2>1
    <2>3. UNCHANGED <<batch, thread>>
        BY <1>7 DEF Redeliver
    <2> QED
        BY <1>0, <2>2, <2>3 DEF Waiting, Unmatched, HasCurrentCopy
<1> QED
    BY <1>4, <1>5, <1>6, <1>7 DEF BatchStep

\* A step of a match leaves the table alone, or writes one of its rows.
LEMMA NewsOfAStep ==
    ASSUME TypeOK, NEW t \in Threads,
           MatchStep(t) \/ CheckIsUnreadable(t) \/ CallFails(t)
    PROVE  \/ UNCHANGED graph
           \/ /\ thread[t].state = "putting" /\ thread'[t].state = "putting"
              /\ thread'[t].toPut \subseteq thread[t].toPut
              /\ \A n \in graph' : n \in graph \/ n \in thread[t].toPut
<1>1. CASE PutNode(t)
    <2>1. PICK p \in thread[t].toPut :
              /\ graph' = PutAll(graph, {p})
              /\ thread' = [thread EXCEPT ![t].toPut = thread[t].toPut \ {p}]
        BY <1>1 DEF PutNode
    <2> QED
        BY <1>1, <2>1 DEF PutNode, PutAll, TypeOK, MatchState
<1>2. CASE ~PutNode(t)
    BY <1>2 DEF MatchStep, LockWorkIds, LockSubgraphs, TakeLocks, LockingFails,
                CheckWorkIsCurrent, GetDirectlyAffected, QuerySubgraph,
                UpdateGraph, CompareReads, FinishPut, Fail, EndInFailure, CallFails,
                CheckIsUnreadable
<1> QED
    BY <1>1, <1>2

\* A match that succeeds leaves in the table what it had of its work.
LEMMA MatchedIsStored ==
    ASSUME TypeOK, CommitInv, SourceInv, NEW t \in Threads, MatchStep(t),
           thread'[t].state = "matched"
    PROVE  /\ thread[t].state \in {"reading", "putting"} /\ UNCHANGED graph
           /\ \E n \in graph : /\ n.id = thread[t].work
                               /\ n.sourceWork = SourceData(n.id, Stub(t))
<1>1. thread[t] \in MatchState /\ KeepsSources(t)
    BY DEF TypeOK, SourceInv
<1>2. ASSUME Fail(t) PROVE FALSE
    BY <1>2 DEF Fail, EndInFailure, TypeOK, IdleThread
<1>3. UpdateGraph(t) \/ FinishPut(t)
    <2>1. ASSUME NEW next, Goto(t, next), next # "matched" PROVE FALSE
        BY <1>1, <2>1 DEF Goto, TypeOK, MatchState
    <2>2. ~LockWorkIds(t) /\ ~LockSubgraphs(t) /\ ~LockingFails(t)
          /\ ~CheckWorkIsCurrent(t)
        BY <1>2, <2>1 DEF LockWorkIds, LockSubgraphs, TakeLocks, LockingFails,
                          CheckWorkIsCurrent
    <2>3. ~GetDirectlyAffected(t) /\ ~CompareReads(t)
        BY <1>1, <1>2 DEF GetDirectlyAffected, CompareReads, TypeOK, MatchState
    <2>4. ~QuerySubgraph(t)
        <3>1. ASSUME QuerySubgraph(t) PROVE FALSE
            <4>1. PICK s \in thread[t].toRead : thread' = [thread EXCEPT
                      ![t].toRead = thread[t].toRead \ {s},
                      ![t].before = IF thread[t].state = "reading"
                                    THEN thread[t].before
                                             \union {n \in graph : n.subgraphId = s}
                                    ELSE thread[t].before,
                      ![t].reread = IF thread[t].state = "rereading"
                                    THEN thread[t].reread
                                             \union {n \in graph : n.subgraphId = s}
                                    ELSE thread[t].reread]
                BY <3>1 DEF QuerySubgraph
            <4>2. thread'[t].state = thread[t].state
                BY <1>1, <4>1 DEF TypeOK, MatchState
            <4> QED
                BY <3>1, <4>2 DEF QuerySubgraph
        <3> QED
            BY <3>1
    <2>5. ~PutNode(t)
        <3>1. ASSUME NEW toPut, thread' = [thread EXCEPT ![t].toPut = toPut]
              PROVE  thread'[t].state = thread[t].state
            BY <1>1, <3>1 DEF TypeOK, MatchState
        <3> QED
            BY <3>1 DEF PutNode
    <2> QED
        BY <2>2, <2>3, <2>4, <2>5 DEF MatchStep
<1>4. CASE UpdateGraph(t)
    <2>1. PICK existing \in ById(thread[t].before) :
              \/ AfterNodes(thread[t].work, Stub(t), existing) \subseteq thread[t].before
                 /\ UNCHANGED graph
              \/ \E after : thread' = [thread EXCEPT ![t].after = after,
                                                     ![t].state = "updated"]
        BY <1>2, <1>4 DEF UpdateGraph
    <2>2. /\ thread[t].state = "reading" /\ thread[t].state \in Running
          /\ thread[t].before \in SUBSET WorkNode
        BY <1>1, <1>4 DEF UpdateGraph, Running, HoldingIds, FirstReading, MatchState
    <2>3. thread[t].work \in Works /\ Stub(t) \in WorkStub
        BY <2>2, RunningType
    <2>4. existing \in SUBSET WorkNode /\ Keyed(existing)
        BY <2>2 DEF ById, Keyed
    <2>5. AfterNodes(thread[t].work, Stub(t), existing) \subseteq thread[t].before
          /\ UNCHANGED graph
        BY <1>1, <2>1 DEF TypeOK, MatchState
    <2>6. PICK n \in thread[t].before :
              n.id = thread[t].work /\ n.sourceWork = SourceData(n.id, Stub(t))
        BY <2>3, <2>4, <2>5, SourcesOfRows
    <2>7. n \in WithSource(thread[t].before)
        BY <2>3, <2>6, StubIdsType, NoSourceAssumption DEF WithSource
    <2> QED
        BY <1>1, <2>2, <2>5, <2>6, <2>7 DEF KeepsSources, ReadsOwnSource, FirstReading
<1>5. CASE FinishPut(t)
    BY <1>1, <1>5 DEF FinishPut, KeepsSources, PutsOwnSource
<1> QED
    BY <1>3, <1>4, <1>5

\* A match passes the check with the revision that is current.
LEMMA PassesTheCheck ==
    ASSUME TypeOK, NEW t \in Threads, MatchStep(t) \/ CallFails(t),
           thread'[t].state \in Checked, thread[t].state \notin Checked
    PROVE  Stub(t) = Revisions[thread[t].work][index[thread[t].work]]
<1> USE DEF Checked, FirstReading, HoldingSubgraphs, SecondReading
<1>1. ASSUME EndInFailure(t) PROVE FALSE
    BY <1>1 DEF EndInFailure, TypeOK, IdleThread
<1>2. CASE LockWorkIds(t)
    BY <1>2 DEF LockWorkIds, TakeLocks, Goto, TypeOK, MatchState
<1>3. CASE CheckWorkIsCurrent(t)
    BY <1>1, <1>3 DEF CheckWorkIsCurrent, Fail
<1> QED
    BY <1>1, <1>2, <1>3
    DEF MatchStep, LockingFails, Fail, CallFails, GetDirectlyAffected, QuerySubgraph,
        UpdateGraph, LockSubgraphs, CompareReads, PutNode, FinishPut

\* A match changes what the table says of its own work only.
LEMMA OthersStayCurrent ==
    ASSUME TypeOK, SourceInv, NEW t \in Threads, MatchStep(t) \/ CallFails(t),
           NEW v \in Works, v # thread[t].work, index[v] > 0, IsCurrent(v)
    PROVE  IsCurrent(v)'
<1>1. UNCHANGED index
    BY MatchGoesOn
<1>2. PICK n \in graph : /\ n.id = v
                         /\ n.sourceWork = SourceData(v, Revisions[v][index[v]])
    BY DEF IsCurrent
<1>3. CASE PutNode(t)
    <2>1. PICK p \in thread[t].toPut : graph' = PutAll(graph, {p})
        BY <1>3 DEF PutNode
    <2>2. n \in WithSource(graph)
        <3>1. index[v] \in Nat /\ index[v] <= Len(Revisions[v])
              /\ Len(Revisions[v]) \in Nat
            BY RevisionsAssumption DEF TypeOK
        <3>2. index[v] \in 1..Len(Revisions[v])
            BY <3>1
        <3> QED
            BY <1>2, <3>2, RevisionType, StubIdsType, NoSourceAssumption
            DEF WithSource
    <2>3. \E m \in graph' : m.id = n.id /\ m.sourceWork = n.sourceWork
        BY <1>2, <2>1, <2>2, SourcesOfPut
    <2> QED
        BY <1>1, <1>2, <2>3 DEF IsCurrent
<1>4. CASE ~PutNode(t)
    <2>1. UNCHANGED graph
        BY <1>4 DEF MatchStep, LockWorkIds, LockSubgraphs, TakeLocks, LockingFails,
                    CheckWorkIsCurrent, GetDirectlyAffected, QuerySubgraph,
                    UpdateGraph, CompareReads, FinishPut, Fail, EndInFailure, CallFails
    <2> QED
        BY <1>1, <1>2, <2>1 DEF IsCurrent
<1> QED
    BY <1>3, <1>4

\* A step of one match leaves the messages of every work in hand, its own
\* included unless it succeeds.
LEMMA MatchWaits ==
    ASSUME BatchInv, NEW l \in Lambdas, NEW w \in Works, LambdaStep(<<l, w>>),
           NEW v \in Works, NEW ls \in SUBSET Lambdas, Waiting(v, ls),
           \/ v # w \/ l \notin ls
           \/ thread'[<<l, w>>].state # "matched"
    PROVE  Waiting(v, ls)'
<1>1. /\ UNCHANGED <<queue, batch, index>>
      /\ \A u \in Threads \ {<<l, w>>} : thread'[u] = thread[u]
      /\ thread'[<<l, w>>].rev = thread[<<l, w>>].rev
    BY MatchGoesOn, ThreadsOfLambdas DEF LambdaStep, BatchInv, LambdaTypeOK
<1>2. \A m \in Lambdas : m # l \/ v # w => thread'[<<m, v>>] = thread[<<m, v>>]
    BY <1>1, ThreadsOfLambdas
<1> QED
    BY <1>1, <1>2 DEF Waiting, Unmatched, HasCurrentCopy

\* A step of a match keeps the updates in hand.
LEMMA MatchKeepsUpdates ==
    ASSUME "unreadable" \notin FaultKinds, LambdaInv, UpdatesAreInHand,
           NEW l \in Lambdas, NEW w \in Works, LambdaStep(<<l, w>>)
    PROVE  UpdatesAreInHand'
<1> DEFINE t == <<l, w>>
<1>1. /\ TypeOK /\ BatchInv /\ CommitInv /\ SourceInv /\ WritersHoldTheirLocks
      /\ t \in Threads /\ index \in [Works -> Nat]
    BY ThreadsOfLambdas DEF LambdaInv, BatchInv, LambdaTypeOK, TypeOK
<1>2. MatchStep(t) \/ CallFails(t)
    BY DEF LambdaStep, CheckIsUnreadable, Fault
<1>3. /\ UNCHANGED index
      /\ \A u \in Threads \ {t} : thread'[u] = thread[u]
      /\ thread[t].state \in Running
      /\ thread'[t].work = thread[t].work /\ thread'[t].rev = thread[t].rev
    BY <1>1, <1>2, MatchGoesOn
<1>4. thread[t].work = w /\ batch[l][w] > 0 /\ Stub(t)' = Stub(t)
    BY <1>1, <1>3 DEF BatchInv, MatchesTheBatch, Running, HoldingIds, FirstReading,
                      HoldingSubgraphs, SecondReading, Stub
<1>5. ASSUME thread'[t].state = "matched"
      PROVE  /\ thread[t].state \in {"reading", "putting"}
             /\ \E n \in graph' : /\ n.id = w
                                  /\ n.sourceWork = SourceData(n.id, Stub(t))
    <2>1. MatchStep(t)
        BY <1>1, <1>2, <1>5 DEF CallFails, EndInFailure, TypeOK, IdleThread
    <2> QED
        BY <1>1, <1>4, <1>5, <2>1, MatchedIsStored
<1> HIDE DEF t
<1>6. ASSUME IsOutdated(t)' PROVE IsOutdated(t)
    <2>1. thread[t].state \in Checked
        BY <1>1, <1>2, <1>3, <1>4, <1>6, PassesTheCheck DEF IsOutdated
    <2> QED
        BY <1>3, <1>4, <1>6, <2>1 DEF IsOutdated
<1>7. \A v \in Works, ls \in SUBSET Lambdas :
          Waiting(v, ls) /\ (v # w \/ l \notin ls \/ thread'[t].state # "matched")
              => Waiting(v, ls)'
    BY <1>1, MatchWaits DEF t

\* While somebody else has passed the check for w, t does not succeed.
<1>8. ASSUME NEW m \in Lambdas, m # l, thread[<<m, w>>].state \in Checked
      PROVE  thread'[t].state # "matched"
    <2>1. /\ <<m, w>> \in Threads /\ <<m, w>> # t
          /\ thread[<<m, w>>].state \in HoldingIds
          /\ thread[<<m, w>>].work = w
        BY <1>1, <1>8, ThreadsOfLambdas
        DEF t, BatchInv, MatchesTheBatch, Checked, HoldingIds, FirstReading,
            HoldingSubgraphs, SecondReading
    <2>2. thread[t].state \notin HoldingIds
        BY <1>1, <1>4, <2>1, OneMatchOfAWork
    <2> QED
        BY <1>5, <2>2 DEF HoldingIds, FirstReading, HoldingSubgraphs
<1>9. ASSUME NEW v \in Works, NEW m \in Lambdas, IsOutdated(<<m, v>>)'
      PROVE  Waiting(v, Lambdas \ {m})'
    <2>1. CASE <<m, v>> = t
        BY <1>6, <1>7, <1>9, <2>1 DEF UpdatesAreInHand, t
    <2>2. CASE <<m, v>> # t
        <3>1. thread'[<<m, v>>] = thread[<<m, v>>]
            BY <1>3, <2>2, ThreadsOfLambdas
        <3>2. IsOutdated(<<m, v>>) /\ thread[<<m, v>>].state \in Checked
            BY <1>3, <1>9, <3>1 DEF IsOutdated, Stub
        <3>3. v # w \/ m # l
            BY <2>2 DEF t
        <3> QED
            BY <1>7, <1>8, <3>2, <3>3 DEF UpdatesAreInHand
    <2> QED
        BY <2>1, <2>2
<1>10. ASSUME NEW v \in Works, index'[v] > 0, ~IsCurrent(v)'
       PROVE  Waiting(v, Lambdas)'
    <2>1. CASE v # w
        <3>1. ~IsCurrent(v)
            BY <1>1, <1>2, <1>3, <1>4, <1>10, <2>1, OthersStayCurrent
        <3> QED
            BY <1>3, <1>7, <1>10, <2>1, <3>1 DEF UpdatesAreInHand
    <2>2. CASE v = w /\ thread'[t].state # "matched"
        <3>1. CASE HasCurrentCopy(l, w)
            <4>1. Unmatched(l, w)'
                BY <1>3, <1>4, <2>2, <3>1 DEF Unmatched, HasCurrentCopy, LambdaStep, t
            <4> QED
                BY <2>2, <4>1 DEF Waiting

        \* What an outdated match writes is for another to replace.
        <3>2. CASE ~HasCurrentCopy(l, w) /\ thread[t].state \in Checked
            <4>1. IsOutdated(t)
                BY <1>4, <3>2 DEF IsOutdated, HasCurrentCopy, Stub, t
            <4>2. Waiting(w, Lambdas \ {l})'
                BY <1>7, <4>1 DEF UpdatesAreInHand, t
            <4> QED
                BY <2>2, <4>2 DEF Waiting
        <3>3. CASE thread[t].state \notin Checked
            <4>1. UNCHANGED graph
                BY <1>1, <1>2, <3>3, NewsOfAStep DEF Checked, HoldingSubgraphs
            <4>2. ~IsCurrent(w)
                BY <1>3, <1>10, <2>2, <4>1 DEF IsCurrent
            <4> QED
                BY <1>3, <1>7, <1>10, <2>2, <4>2 DEF UpdatesAreInHand
        <3> QED
            BY <3>1, <3>2, <3>3
    <2>3. CASE v = w /\ thread'[t].state = "matched"
        <3>1. Stub(t) # Revisions[w][index[w]]
            BY <1>3, <1>5, <1>10, <2>3 DEF IsCurrent
        <3>2. IsOutdated(t)
            BY <1>4, <1>5, <2>3, <3>1
            DEF IsOutdated, Checked, FirstReading, HoldingSubgraphs
        <3>3. Waiting(w, Lambdas \ {l})'
            BY <1>7, <3>2 DEF UpdatesAreInHand, t
        <3> QED
            BY <2>3, <3>3 DEF Waiting
    <2> QED
        BY <2>1, <2>2, <2>3
<1> QED
    BY <1>9, <1>10 DEF UpdatesAreInHand

\* And so does every other step.
LEMMA UpdatesStay ==
    ASSUME "torn" \notin FaultKinds, "unreadable" \notin FaultKinds, LambdaInv,
           UpdatesAreInHand, FoundWorksAreStored, [LambdaNext]_lambdaVars
    PROVE  UpdatesAreInHand'
<1>1. BatchInv /\ TypeOK /\ index \in [Works -> Nat] /\ queue \in [Works -> Nat]
    BY DEF LambdaInv, BatchInv, LambdaTypeOK, TypeOK, Messages
<1>2. ASSUME UNCHANGED <<index, graph, thread, queue, batch>> PROVE UpdatesAreInHand'
    <2>1. \A w, ls : Waiting(w, ls)' <=> Waiting(w, ls)
        BY <1>2 DEF Waiting, Unmatched, HasCurrentCopy
    <2>2. \A t : IsOutdated(t)' <=> IsOutdated(t)
        BY <1>2 DEF IsOutdated, Stub
    <2>3. \A w : IsCurrent(w)' <=> IsCurrent(w)
        BY <1>2 DEF IsCurrent
    <2> QED
        BY <1>2, <2>1, <2>2, <2>3 DEF UpdatesAreInHand
<1>3. ASSUME NEW v \in Works, PublishAndSend(v) PROVE UpdatesAreInHand'
    <2>1. /\ queue' = [queue EXCEPT ![v] = queue[v] + 1]
          /\ index' = [index EXCEPT ![v] = index[v] + 1]
          /\ UNCHANGED <<graph, thread, batch>>
        BY <1>3 DEF PublishAndSend, Publish
    <2>2. \A ls : Waiting(v, ls)'
        BY <1>1, <2>1 DEF Waiting
    <2>3. ASSUME NEW w \in Works, w # v
          PROVE  /\ index'[w] = index[w] /\ (IsCurrent(w) => IsCurrent(w)')
                 /\ \A ls : Waiting(w, ls) => Waiting(w, ls)'
        BY <1>1, <2>1, <2>3 DEF IsCurrent, Waiting, Unmatched, HasCurrentCopy
    <2>4. ASSUME NEW w \in Works, w # v, NEW l \in Lambdas, IsOutdated(<<l, w>>)'
          PROVE  IsOutdated(<<l, w>>)
        <3>1. thread[<<l, w>>].work = w
            BY <1>1, <2>1, <2>4
            DEF IsOutdated, BatchInv, MatchesTheBatch, Checked, FirstReading,
                HoldingSubgraphs, SecondReading
        <3> QED
            BY <2>1, <2>3, <2>4, <3>1 DEF IsOutdated, Stub
    <2> QED
        BY <2>2, <2>3, <2>4 DEF UpdatesAreInHand
<1>4. ASSUME NEW l \in Lambdas, BatchStep(l) PROVE UpdatesAreInHand'
    <2>1. BatchMoves(l) /\ UNCHANGED <<index, graph>>
        BY <1>1, <1>4, BatchStepMoves DEF BatchMoves
    \* A work that is not as it is now in the table is not found.
    <2>4. ASSUME NEW w \in Works, Unmatched(l, w), FinishBatch(l),
                 ~IsCurrent(w) \/ \E m \in Lambdas : IsOutdated(<<m, w>>)
          PROVE  w \in MissingMessages(l)
        <3>1. /\ AllEnded(l) /\ w \in InBatch(l) /\ HasCurrentCopy(l, w)
              /\ thread[<<l, w>>].state = "failed"
            BY <2>4 DEF FinishBatch, AllEnded, Unmatched, InBatch, Ended
        <3> QED
            BY <2>4, <3>1 DEF FoundWorksAreStored, MissingMessages
    <2>2. ASSUME NEW w \in Works, index'[w] > 0, ~IsCurrent(w)'
          PROVE  Waiting(w, Lambdas)'
        <3>1. Waiting(w, Lambdas) /\ ~IsCurrent(w)
            BY <2>1, <2>2 DEF UpdatesAreInHand, IsCurrent
        <3> QED
            BY <1>1, <1>4, <2>4, <3>1, BatchStepWaits
    <2>3. ASSUME NEW w \in Works, NEW m \in Lambdas, IsOutdated(<<m, w>>)'
          PROVE  Waiting(w, Lambdas \ {m})'
        <3>1. <<m, w>> \in Threads /\ thread'[<<m, w>>].state \notin {"idle", "starting"}
            BY <2>3, ThreadsOfLambdas
            DEF IsOutdated, Checked, FirstReading, HoldingSubgraphs, SecondReading
        <3>2. thread'[<<m, w>>] = thread[<<m, w>>]
            BY <2>1, <3>1 DEF BatchMoves
        <3>3. IsOutdated(<<m, w>>)
            BY <2>1, <2>3, <3>2 DEF IsOutdated, Stub
        <3>4. batch[m][w] > 0 /\ NoMessages[w] = 0
            BY <1>1, <3>1, <3>2 DEF BatchInv, MatchesTheBatch, NoMessages
        <3>5. l \in Lambdas \ {m} \/ batch[l] # NoMessages
            BY <3>4
        <3> QED
            BY <1>1, <1>4, <2>4, <3>3, <3>5, BatchStepWaits DEF UpdatesAreInHand
    <2> QED
        BY <2>2, <2>3 DEF UpdatesAreInHand
<1>5. CASE UNCHANGED lambdaVars
    BY <1>2, <1>5 DEF lambdaVars, vars
<1>6. ASSUME NEW k \in LockIds, LambdaExpireLock(k) PROVE UpdatesAreInHand'
    BY <1>2, <1>6 DEF LambdaExpireLock, ExpireLock
<1>7. ASSUME NEW l \in Lambdas, NEW w \in Works, LambdaStep(<<l, w>>)
      PROVE  UpdatesAreInHand'
    BY <1>7, MatchKeepsUpdates
<1> QED
    BY <1>3, <1>4, <1>5, <1>6, <1>7 DEF LambdaNext, BatchStep

\* In batches of any size, what the graph does not have yet of a work that was
\* published always has a message that is still to be handled, whatever fails
\* or dies, however often messages are delivered, and however many lambdas match
\* at once: as long as a work that failed, and that a result of its batch has,
\* is in the graph as it is now.  So this is the one way to lose an update.
THEOREM UpdatesAreNotLost ==
    ASSUME "torn" \notin FaultKinds, "unreadable" \notin FaultKinds
    PROVE  LambdaSpec /\ []RereadsFindTheirIds /\ []FoundWorksAreStored
               => []NoUpdateIsLost
<1>1. LambdaInit => LambdaInv /\ UpdatesAreInHand
    <2> SUFFICES ASSUME LambdaInit PROVE UpdatesAreInHand
        BY InitBatches
    <2>1. \A w \in Works : ~(index[w] > 0)
        <3>1. index = [w \in Works |-> 0]
            BY DEF LambdaInit, Init
        <3>2. \A w \in Works : index[w] = 0
            BY <3>1
        <3>3. ~(0 > 0)
            OBVIOUS
        <3> QED
            BY <3>2, <3>3
    <2>2. \A t \in Threads : ~IsOutdated(t)
        BY DEF LambdaInit, Init, IdleThread, IsOutdated, Checked, FirstReading,
               HoldingSubgraphs, SecondReading
    <2> QED
        BY <2>1, <2>2, ThreadsOfLambdas DEF UpdatesAreInHand
<1>2. LambdaInv /\ UpdatesAreInHand /\ RereadsFindTheirIds /\ FoundWorksAreStored
          /\ [LambdaNext]_lambdaVars
      => LambdaInv' /\ UpdatesAreInHand'
    BY LambdaStays, UpdatesStay
<1>3. UpdatesAreInHand => NoUpdateIsLost
    BY DEF UpdatesAreInHand, NoUpdateIsLost, Waiting, Unmatched, InHand
<1> QED
    BY <1>1, <1>2, <1>3, PTL DEF LambdaSpec

\* There is somebody to match what the graph has nothing of yet.
WorksAreInHand ==
    \A w \in Works : index[w] > 0 /\ ~IsStored(w) => Waiting(w, Lambdas)

\* What a match has read or computed has source data of no works but those that
\* the table has, and its own until it succeeds.
KnowsItsWorks(t) ==
    \A n \in WithSource(thread[t].before \union thread[t].after) :
        IsStored(n.id) \/ (n.id = thread[t].work /\ thread[t].state # "matched")

WorksInv == LambdaInv /\ WorksAreInHand /\ \A t \in Threads : KnowsItsWorks(t)

\* A work that the table has stays in it.
LEMMA StoredStays ==
    ASSUME TypeOK, SourceInv, NEW t \in Threads, MatchStep(t) \/ CallFails(t),
           NEW i, IsStored(i)
    PROVE  IsStored(i)'
<1>1. PICK n \in WithSource(graph) : n.id = i
    BY DEF IsStored
<1>2. CASE PutNode(t)
    <2>1. PICK p \in thread[t].toPut : graph' = PutAll(graph, {p})
        BY <1>2 DEF PutNode
    <2>2. \E m \in WithSource(graph') : m.id = n.id
        BY <2>1, SourcesOfPut
    <2> QED
        BY <1>1, <2>2 DEF IsStored, WithSource
<1>3. CASE ~PutNode(t)
    <2>1. UNCHANGED graph
        BY <1>3 DEF MatchStep, LockWorkIds, LockSubgraphs, TakeLocks, LockingFails,
                    CheckWorkIsCurrent, GetDirectlyAffected, QuerySubgraph,
                    UpdateGraph, CompareReads, FinishPut, Fail, EndInFailure, CallFails
    <2> QED
        BY <1>1, <2>1 DEF IsStored, WithSource
<1> QED
    BY <1>2, <1>3

\* The ways in which a match gets to know of source data.
LEMMA WaysToKnow ==
    ASSUME TypeOK, NEW t \in Threads, MatchStep(t) \/ CallFails(t)
    PROVE  \/ thread'[t].before = {} /\ thread'[t].after = {}
           \/ /\ thread'[t].before = thread[t].before
              /\ thread'[t].after = thread[t].after
              /\ thread'[t].state # "matched"
           \/ /\ QuerySubgraph(t)
              /\ thread'[t].before \subseteq thread[t].before \union graph
              /\ thread'[t].after = thread[t].after
              /\ thread'[t].state # "matched"
           \/ /\ UpdateGraph(t) /\ thread'[t].state = "updated"
              /\ thread'[t].before = thread[t].before
              /\ \E existing \in ById(thread[t].before) :
                     thread'[t].after = AfterNodes(thread[t].work, Stub(t), existing)
           \/ /\ thread'[t].state = "matched" /\ thread'[t].before = {}
              /\ thread'[t].after \subseteq thread[t].before \union thread[t].after
<1>1. thread[t] \in MatchState
    BY DEF TypeOK
<1> DEFINE Empty == thread'[t].before = {} /\ thread'[t].after = {}
           Same == /\ thread'[t].before = thread[t].before
                   /\ thread'[t].after = thread[t].after
                   /\ thread'[t].state # "matched"
<1>2. ASSUME EndInFailure(t) PROVE Empty
    BY <1>2 DEF EndInFailure, TypeOK, IdleThread
<1>3. ASSUME NEW next, Goto(t, next), next # "matched" PROVE Same
    BY <1>1, <1>3 DEF Goto, TypeOK, MatchState
<1>4. CASE LockWorkIds(t) \/ LockSubgraphs(t)
    BY <1>3, <1>4 DEF LockWorkIds, LockSubgraphs, TakeLocks
<1>5. CASE LockingFails(t) \/ CallFails(t)
    BY <1>2, <1>5 DEF LockingFails, CallFails, Fail
<1>6. CASE CheckWorkIsCurrent(t)
    BY <1>2, <1>3, <1>6 DEF CheckWorkIsCurrent, Fail
<1>7. CASE GetDirectlyAffected(t)
    BY <1>1, <1>7 DEF GetDirectlyAffected, TypeOK, MatchState
<1>8. CASE QuerySubgraph(t)
    <2>1. PICK s \in thread[t].toRead : thread' = [thread EXCEPT
              ![t].toRead = thread[t].toRead \ {s},
              ![t].before = IF thread[t].state = "reading"
                            THEN thread[t].before
                                     \union {n \in graph : n.subgraphId = s}
                            ELSE thread[t].before,
              ![t].reread = IF thread[t].state = "rereading"
                            THEN thread[t].reread
                                     \union {n \in graph : n.subgraphId = s}
                            ELSE thread[t].reread]
        BY <1>8 DEF QuerySubgraph
    <2>2. /\ thread'[t].after = thread[t].after
          /\ thread'[t].state = thread[t].state
          /\ thread'[t].before \subseteq thread[t].before \union graph
        BY <1>1, <2>1 DEF TypeOK, MatchState
    <2> QED
        BY <1>8, <2>2 DEF QuerySubgraph
<1>9. CASE UpdateGraph(t)
    <2>1. PICK existing \in ById(thread[t].before) :
              LET after == AfterNodes(thread[t].work, Stub(t), existing)
              IN  \/ Fail(t)
                  \/ after \subseteq thread[t].before /\ Succeed(t, after)
                  \/ thread' = [thread EXCEPT ![t].after = after,
                                              ![t].state = "updated"]
        BY <1>9 DEF UpdateGraph
    <2> DEFINE after == AfterNodes(thread[t].work, Stub(t), existing)
    <2>2. CASE Fail(t)
        BY <1>2, <2>2 DEF Fail
    <2>3. CASE after \subseteq thread[t].before /\ Succeed(t, after)
        BY <1>1, <2>3 DEF Succeed, TypeOK, IdleThread
    <2>4. CASE thread' = [thread EXCEPT ![t].after = after, ![t].state = "updated"]
        <3>1. /\ thread'[t].state = "updated" /\ thread'[t].after = after
              /\ thread'[t].before = thread[t].before
            BY <1>1, <2>4 DEF TypeOK, MatchState
        <3> QED
            BY <1>9, <3>1
    <2> QED
        BY <2>1, <2>2, <2>3, <2>4
<1>10. CASE CompareReads(t)
    <2>1. ASSUME thread' = [thread EXCEPT ![t].toPut = thread[t].after,
                                          ![t].state = "putting"]
          PROVE  Same
        BY <1>1, <2>1 DEF TypeOK, MatchState
    <2> QED
        BY <1>2, <1>10, <2>1 DEF CompareReads, Fail
<1>11. CASE PutNode(t)
    <2>1. PICK toPut : thread' = [thread EXCEPT ![t].toPut = toPut]
        BY <1>11 DEF PutNode
    <2> QED
        BY <1>1, <1>11, <2>1 DEF PutNode, TypeOK, MatchState
<1>12. CASE FinishPut(t)
    BY <1>1, <1>12 DEF FinishPut, Succeed, TypeOK, IdleThread
<1> QED
    BY <1>4, <1>5, <1>6, <1>7, <1>8, <1>9, <1>10, <1>11, <1>12 DEF MatchStep

\* The table has the work of a match that succeeds.
LEMMA MatchedIsThere ==
    ASSUME TypeOK, CommitInv, SourceInv, NEW t \in Threads,
           MatchStep(t) \/ CallFails(t), thread'[t].state = "matched"
    PROVE  \E m \in WithSource(graph') : m.id = thread[t].work
<1>1. MatchStep(t)
    BY DEF CallFails, EndInFailure, TypeOK, IdleThread
<1>2. PICK m \in graph : /\ m.id = thread[t].work /\ UNCHANGED graph
                         /\ m.sourceWork = SourceData(m.id, Stub(t))
    BY <1>1, MatchedIsStored
<1>3. thread[t].work \in Works /\ Stub(t) \in WorkStub
    BY MatchGoesOn, RunningType
<1> QED
    BY <1>2, <1>3, StubIdsType, NoSourceAssumption DEF WithSource

\* A match only gets to know of works that the table has, besides its own, and
\* has seen to that one when it succeeds.
LEMMA WorksKnown ==
    ASSUME TypeOK, CommitInv, SourceInv, NEW t \in Threads, KnowsItsWorks(t),
           MatchStep(t) \/ CallFails(t)
    PROVE  KnowsItsWorks(t)'
<1>1. /\ thread[t] \in MatchState /\ graph \subseteq WorkNode
      /\ thread[t].state \in Running /\ thread'[t].work = thread[t].work
    BY MatchGoesOn DEF TypeOK
<1>2. \A i : IsStored(i) => IsStored(i)'
    BY StoredStays
<1>3. thread[t].state # "matched"
    BY <1>1 DEF Running, HoldingIds, FirstReading, HoldingSubgraphs, SecondReading
<1>4. \A n \in WithSource(graph) : IsStored(n.id)
    BY DEF IsStored
<1> SUFFICES ASSUME NEW n \in WithSource(thread'[t].before \union thread'[t].after)
             PROVE  IsStored(n.id)' \/ (/\ n.id = thread[t].work
                                        /\ thread'[t].state # "matched")
    BY <1>1 DEF KnowsItsWorks, WithSource
<1>5. n \in WithSource(thread[t].before \union thread[t].after)
          => IsStored(n.id)' \/ n.id = thread[t].work
    BY <1>2 DEF KnowsItsWorks
<1>6. CASE thread'[t].before = {} /\ thread'[t].after = {}
    BY <1>6 DEF WithSource
<1>7. CASE /\ thread'[t].before = thread[t].before
           /\ thread'[t].after = thread[t].after
           /\ thread'[t].state # "matched"
    BY <1>5, <1>7
<1>8. CASE /\ thread'[t].before \subseteq thread[t].before \union graph
           /\ thread'[t].after = thread[t].after
           /\ thread'[t].state # "matched"
    BY <1>2, <1>4, <1>5, <1>8 DEF WithSource
<1>9. ASSUME thread'[t].state = "updated", thread'[t].before = thread[t].before,
             NEW existing \in ById(thread[t].before),
             thread'[t].after = AfterNodes(thread[t].work, Stub(t), existing)
      PROVE  IsStored(n.id)' \/ n.id = thread[t].work
    <2>1. /\ thread[t].work \in Works /\ Stub(t) \in WorkStub
          /\ existing \in SUBSET WorkNode /\ Keyed(existing)
          /\ existing \subseteq thread[t].before
        BY <1>1, RunningType DEF ById, Keyed, MatchState
    <2>2. CASE n \in WithSource(thread'[t].after) /\ n.id # thread[t].work
        <3>1. PICK m \in existing : m.id = n.id /\ m.sourceWork = n.sourceWork
            BY <1>9, <2>1, <2>2, SourcesOfRows
        <3>2. m \in WithSource(thread[t].before \union thread[t].after)
            BY <2>1, <2>2, <3>1 DEF WithSource
        <3> QED
            BY <1>2, <2>2, <3>1, <3>2 DEF KnowsItsWorks
    <2>3. CASE n \in thread[t].before
        BY <1>5, <2>3 DEF WithSource
    <2> QED
        BY <1>9, <2>2, <2>3 DEF WithSource
<1>10. ASSUME thread'[t].state = "matched", thread'[t].before = {},
              thread'[t].after \subseteq thread[t].before \union thread[t].after
       PROVE  IsStored(n.id)'
    <2>5. PICK m \in WithSource(graph') : m.id = thread[t].work
        BY <1>10, MatchedIsThere
    <2>6. n \in WithSource(thread[t].before \union thread[t].after)
        BY <1>10 DEF WithSource
    <2>7. CASE n.id = thread[t].work
        BY <2>5, <2>7 DEF IsStored
    <2> QED
        BY <1>5, <2>6, <2>7
<1> QED
    BY <1>6, <1>7, <1>8, <1>9, <1>10, WaysToKnow

\* So what the table has nothing of stays in hand: a match does not get to know
\* of it, and so no result of its batch has it.
LEMMA WorksStay ==
    ASSUME "torn" \notin FaultKinds, "unreadable" \notin FaultKinds, WorksInv,
           RereadsFindTheirIds, [LambdaNext]_lambdaVars
    PROVE  WorksInv'
<1>1. /\ BatchInv /\ TypeOK /\ CommitInv /\ SourceInv /\ LambdaInv'
      /\ index \in [Works -> Nat] /\ queue \in [Works -> Nat]
    BY LambdaStays DEF WorksInv, LambdaInv, BatchInv, LambdaTypeOK, TypeOK, Messages
<1>2. ASSUME UNCHANGED <<index, graph, thread, queue, batch>> PROVE WorksInv'
    <2>1. \A w : Waiting(w, Lambdas)' <=> Waiting(w, Lambdas)
        BY <1>2 DEF Waiting, Unmatched, HasCurrentCopy
    <2> QED
        BY <1>1, <1>2, <2>1 DEF WorksInv, WorksAreInHand, KnowsItsWorks, IsStored
<1>3. ASSUME NEW v \in Works, PublishAndSend(v) PROVE WorksInv'
    <2>1. /\ queue' = [queue EXCEPT ![v] = queue[v] + 1]
          /\ index' = [index EXCEPT ![v] = index[v] + 1]
          /\ UNCHANGED <<graph, thread, batch>>
        BY <1>3 DEF PublishAndSend, Publish
    <2>2. Waiting(v, Lambdas)'
        BY <1>1, <2>1 DEF Waiting
    <2>3. ASSUME NEW w \in Works, w # v, Waiting(w, Lambdas)
          PROVE  Waiting(w, Lambdas)'
        BY <1>1, <2>1, <2>3 DEF Waiting, Unmatched, HasCurrentCopy
    <2>4. \A w \in Works : w # v => index'[w] = index[w]
        BY <1>1, <2>1
    <2> QED
        BY <1>1, <2>1, <2>2, <2>3, <2>4
        DEF WorksInv, WorksAreInHand, KnowsItsWorks, IsStored
<1>4. ASSUME NEW l \in Lambdas, BatchStep(l) PROVE WorksInv'
    <2>1. BatchMoves(l) /\ UNCHANGED <<index, graph>>
        BY <1>1, <1>4, BatchStepMoves DEF BatchMoves
    <2>2. ASSUME NEW w \in Works, FinishBatch(l), Unmatched(l, w), ~IsStored(w)
          PROVE  w \in MissingMessages(l)
        <3>1. w \in InBatch(l)
            BY <2>2 DEF Unmatched, InBatch
        <3>2. ASSUME w \in FoundIdentifiers(l) PROVE FALSE
            <4>1. PICK t \in Results(l) :
                      \E n \in WithSource(thread[t].after) : n.id = w
                BY <3>2 DEF FoundIdentifiers, Shown, WithSource
            <4>2. t \in Threads /\ thread[t].state = "matched"
                BY <4>1, ThreadsOfLambdas DEF Results, InBatch
            <4> QED
                BY <2>2, <4>1, <4>2 DEF WorksInv, KnowsItsWorks, WithSource
        <3> QED
            BY <3>1, <3>2 DEF MissingMessages
    <2>3. ASSUME NEW w \in Works, index'[w] > 0, ~IsStored(w)'
          PROVE  Waiting(w, Lambdas)'
        <3>1. Waiting(w, Lambdas) /\ ~IsStored(w)
            BY <2>1, <2>3 DEF WorksInv, WorksAreInHand, IsStored
        <3> QED
            BY <1>1, <1>4, <2>2, <3>1, BatchStepWaits
    <2>4. ASSUME NEW t \in Threads PROVE KnowsItsWorks(t)'
        BY <2>1 DEF BatchMoves, WorksInv, KnowsItsWorks, WithSource, IsStored
    <2> QED
        BY <1>1, <2>3, <2>4 DEF WorksInv, WorksAreInHand
<1>5. CASE UNCHANGED lambdaVars
    BY <1>2, <1>5 DEF lambdaVars, vars
<1>6. ASSUME NEW k \in LockIds, LambdaExpireLock(k) PROVE WorksInv'
    BY <1>2, <1>6 DEF LambdaExpireLock, ExpireLock
<1>7. ASSUME NEW l \in Lambdas, NEW w \in Works, LambdaStep(<<l, w>>)
      PROVE  WorksInv'
    <2> DEFINE t == <<l, w>>
    <2>1. t \in Threads /\ (MatchStep(t) \/ CallFails(t))
        BY <1>7, ThreadsOfLambdas DEF LambdaStep, CheckIsUnreadable, Fault
    <2>2. /\ UNCHANGED index /\ thread[t].state \in Running
          /\ \A u \in Threads \ {t} : thread'[u] = thread[u]
        BY <1>1, <2>1, MatchGoesOn
    <2>3. thread[t].work = w
        BY <1>1, <2>1, <2>2
        DEF BatchInv, MatchesTheBatch, Running, HoldingIds, FirstReading,
            HoldingSubgraphs, SecondReading
    <2>4. ASSUME thread'[t].state = "matched" PROVE IsStored(w)'
        BY <1>1, <2>1, <2>3, <2>4, MatchedIsThere DEF IsStored
    <2>5. ASSUME NEW u \in Threads, u # t PROVE KnowsItsWorks(u)'
        <3>1. thread'[u] = thread[u]
            BY <2>2, <2>5
        <3>2. ASSUME NEW i, IsStored(i)
              PROVE  \E n \in WithSource(graph') : n.id = i
            BY <1>1, <2>1, <3>2, StoredStays DEF IsStored
        <3> QED
            BY <3>1, <3>2 DEF WorksInv, KnowsItsWorks, IsStored
    <2>6. KnowsItsWorks(t)'
        BY <1>1, <2>1, WorksKnown DEF WorksInv
    <2> HIDE DEF t
    <2>7. ASSUME NEW v \in Works, index'[v] > 0, ~IsStored(v)'
          PROVE  Waiting(v, Lambdas)'
        <3>1. ~IsStored(v)
            BY <1>1, <2>1, <2>7, StoredStays
        <3>2. Waiting(v, Lambdas)
            BY <2>2, <2>7, <3>1 DEF WorksInv, WorksAreInHand
        <3>3. v # w \/ thread'[t].state # "matched"
            BY <2>4, <2>7
        <3> QED
            BY <1>1, <1>7, <3>2, <3>3, MatchWaits DEF t
    <2> QED
        BY <1>1, <2>5, <2>6, <2>7 DEF WorksInv, WorksAreInHand
<1> QED
    BY <1>3, <1>4, <1>5, <1>6, <1>7 DEF LambdaNext, BatchStep

\* In batches of any size, whatever else fails, dies or comes twice, a published
\* work of which the graph has nothing, or a placeholder, has a message that is
\* still to be handled: a neighbour's result does not stand for a work that no
\* match has written.
THEOREM NewWorksAreNotLost ==
    ASSUME "torn" \notin FaultKinds, "unreadable" \notin FaultKinds
    PROVE  LambdaSpec /\ []RereadsFindTheirIds => []NoWorkIsLost
<1>1. LambdaInit => WorksInv
    <2> SUFFICES ASSUME LambdaInit
                 PROVE  WorksAreInHand /\ \A t \in Threads : KnowsItsWorks(t)
        BY InitBatches DEF WorksInv
    <2>1. \A w \in Works : ~(index[w] > 0)
        <3>1. index = [w \in Works |-> 0]
            BY DEF LambdaInit, Init
        <3>2. \A w \in Works : index[w] = 0
            BY <3>1
        <3>3. ~(0 > 0)
            OBVIOUS
        <3> QED
            BY <3>2, <3>3
    <2>2. \A t \in Threads : KnowsItsWorks(t)
        BY DEF LambdaInit, Init, IdleThread, KnowsItsWorks, WithSource
    <2> QED
        BY <2>1, <2>2 DEF WorksAreInHand
<1>2. WorksInv /\ RereadsFindTheirIds /\ [LambdaNext]_lambdaVars => WorksInv'
    BY WorksStay
<1>3. WorksInv => NoWorkIsLost
    BY DEF WorksInv, WorksAreInHand, NoWorkIsLost, Waiting, Unmatched, InHand
<1> QED
    BY <1>1, <1>2, <1>3, PTL DEF LambdaSpec

----------------------------------------------------------------------------
(***************************************************************************)
(* No news is lost.  A row that was changed and not shown downstream yet   *)
(* is in the subgraph of a work that has a message in hand: the match of   *)
(* that work will read the row, has read it, or is going to show it.  When *)
(* the row changes again, the match that changes it takes over.            *)
(***************************************************************************)

\* A row's subgraph is named by ids, its own among them.
RowsAreInTheirSubgraphs == \A n \in CommittedGraph : n.id \in n.subgraphId

\* Nothing is read before the first read begins.
NothingIsRead(t) ==
    thread[t].state \in {"starting", "locked", "current"} => thread[t].before = {}

\* The match of w in the batch of l will show the row n, unless it fails: it has
\* read it, and no other row of its id, or will read it, or has it in its result.
Handles(l, w, n) ==
    LET t == <<l, w>>
    IN  /\ batch[l][w] > 0
        /\ thread[t].state = "reading" =>
               /\ n.subgraphId \in thread[t].toRead \/ n \in thread[t].before
               /\ \A o \in thread[t].before : o.id = n.id => o = n
        /\ thread[t].state = "matched" => n \in thread[t].after

\* If the match t has found the work w, its result will show the row n as well.
ShowsWith(t, w, n) ==
    /\ thread[t].state = "reading" =>
           /\ \A o \in thread[t].before : o.id = n.id => o = n
           /\ (\E o \in WithSource(thread[t].before) : o.id = w) =>
                  n.subgraphId \in thread[t].toRead \/ n \in thread[t].before
    /\ /\ thread[t].state = "matched"
       /\ \E o \in WithSource(thread[t].after) : o.id = w
       => n \in thread[t].after

\* Should the match of w fail, then no result of its batch stands in for w that
\* does not show n.
IsBacked(l, w, n) ==
    thread[<<l, w>>].state \notin {"putting", "matched"} =>
        \A x \in Works \ {w} : ShowsWith(<<l, x>>, w, n)

Attends(l, w, n) == Handles(l, w, n) /\ IsBacked(l, w, n)

\* The row n is in the subgraph of the row of w.
IsWith(n, w) ==
    \E m \in CommittedGraph : m.id = w /\ m.subgraphId = n.subgraphId

IsCovered(n) ==
    \E w \in Works :
        IsWith(n, w) /\ (queue[w] > 0 \/ \E l \in Lambdas : Attends(l, w, n))

NewsIsInHand ==
    \A i \in untold : \E n \in WithSource(CommittedGraph) : n.id = i /\ IsCovered(n)

NewsInv ==
    /\ BatchInv /\ WritersHoldTheirLocks /\ CommitInv
    /\ RowsAreInTheirSubgraphs
    /\ \A t \in Threads : NothingIsRead(t)
    /\ NewsIsInHand

\* The rows that a match computes are one subgraph, that of its work, and have
\* the ids of all it has read with source data.
LEMMA RowsOfMatch ==
    ASSUME TypeOK, NEW t \in Threads, thread[t].state \in Running,
           NEW existing \in ById(thread[t].before),
           NEW after, after = AfterNodes(thread[t].work, Stub(t), existing)
    PROVE  /\ Keyed(after)
           /\ \E ids :
                  /\ thread[t].work \in ids
                  /\ \A n \in after : n.id \in ids /\ n.subgraphId = ids
                  /\ \A i \in ids : \E n \in after : n.id = i
                  /\ \A n \in WithSource(existing) : n.id \in ids
<1>1. thread[t].before \in SUBSET WorkNode
    BY DEF TypeOK, MatchState
<1>2. thread[t].work \in Works /\ Stub(t) \in WorkStub
    BY RunningType
<1>3. existing \in SUBSET WorkNode /\ Keyed(existing)
    BY <1>1 DEF ById, Keyed
<1> DEFINE sources == WithSource(AllWorks(thread[t].work, Stub(t), existing))
           ids == WorkIds(sources)
<1>4. /\ Keyed(after)
      /\ \A n \in sources : n.id \in ids
      /\ \A n \in after : n.id \in ids /\ n.subgraphId = ids
      /\ \A i \in ids : \E n \in after : n.id = i
    BY <1>2, <1>3, RowsOfUpdate
<1>5. /\ \E n \in sources : n.id = thread[t].work
      /\ \A n \in WithSource(existing) : n.id # thread[t].work => n \in sources
    BY <1>2, <1>3, SourcesOfUpdate
<1> HIDE DEF sources, ids
<1>6. thread[t].work \in ids /\ \A n \in WithSource(existing) : n.id \in ids
    BY <1>4, <1>5
<1> QED
    BY <1>4, <1>6

\* What a match writes is the subgraph of its work, and all of it.
LEMMA WritesItsSubgraph ==
    ASSUME TypeOK, CommitInv, RowsAreInTheirSubgraphs, NEW t \in Threads,
           thread[t].state = "putting", NEW n \in CommittedGraph
    PROVE  n \in thread[t].after <=> IsWith(n, thread[t].work)
<1>1. /\ thread[t].state \in Running /\ thread[t].after \subseteq CommittedGraph
      /\ IsComputed(t)
    BY DEF CommitInv, Matches, WritesAreCommitted, Running, HoldingIds,
           HoldingSubgraphs
<1>2. PICK existing \in ById(thread[t].before) :
          thread[t].after = AfterNodes(thread[t].work, Stub(t), existing)
    BY <1>1 DEF IsComputed, HoldingSubgraphs
<1>3. PICK ids :
          /\ thread[t].work \in ids
          /\ \A m \in thread[t].after : m.id \in ids /\ m.subgraphId = ids
          /\ \A i \in ids : \E m \in thread[t].after : m.id = i
    BY <1>1, <1>2, RowsOfMatch
<1>4. PICK own \in thread[t].after : own.id = thread[t].work
    BY <1>3
<1>5. ASSUME n \in thread[t].after PROVE IsWith(n, thread[t].work)
    BY <1>1, <1>3, <1>4, <1>5 DEF IsWith
<1>6. ASSUME IsWith(n, thread[t].work) PROVE n \in thread[t].after
    <2>1. own.subgraphId = n.subgraphId
        BY <1>1, <1>4, <1>6 DEF IsWith, CommitInv, Keyed
    <2>2. n.id \in ids
        BY <1>3, <1>4, <2>1 DEF RowsAreInTheirSubgraphs
    <2>3. PICK m \in thread[t].after : m.id = n.id
        BY <1>3, <2>2
    <2> QED
        BY <1>1, <2>3 DEF CommitInv, Keyed
<1> QED
    BY <1>5, <1>6

\* A row that the table does not have yet is being written.
LEMMA UnwrittenRows ==
    ASSUME CommitInv, NEW n \in CommittedGraph \ graph
    PROVE  \E u \in Threads : thread[u].state = "putting" /\ n \in thread[u].after
<1>1. PICK u \in Threads : n \in thread[u].toPut
    BY CommittedRows
<1> QED
    BY <1>1, RowsToPut DEF CommitInv, Matches, WritesAreCommitted

\* A match gets to read, or to succeed, in these ways.
LEMMA WaysToRead ==
    ASSUME TypeOK, NEW t \in Threads, MatchStep(t),
           thread'[t].state \in {"reading", "matched"}
    PROVE  \/ GetDirectlyAffected(t) /\ thread[t].state = "current"
           \/ QuerySubgraph(t) /\ thread[t].state = "reading"
           \/ UpdateGraph(t) /\ thread'[t].state = "matched"
           \/ FinishPut(t)
<1>1. thread[t] \in MatchState
    BY DEF TypeOK
<1>2. ASSUME Fail(t) PROVE FALSE
    BY <1>1, <1>2 DEF Fail, EndInFailure, TypeOK, IdleThread
<1>3. ASSUME NEW next, Goto(t, next), next \notin {"reading", "matched"}
      PROVE  FALSE
    BY <1>1, <1>3 DEF Goto, TypeOK, MatchState
<1>4. CASE LockWorkIds(t) \/ LockSubgraphs(t)
    BY <1>3, <1>4 DEF LockWorkIds, LockSubgraphs, TakeLocks
<1>5. CASE LockingFails(t)
    BY <1>2, <1>5 DEF LockingFails
<1>6. CASE CheckWorkIsCurrent(t)
    BY <1>2, <1>3, <1>6 DEF CheckWorkIsCurrent
<1>7. CASE GetDirectlyAffected(t)
    BY <1>1, <1>7 DEF GetDirectlyAffected, TypeOK, MatchState
<1>8. CASE QuerySubgraph(t)
    <2>1. PICK s \in thread[t].toRead : thread' = [thread EXCEPT
              ![t].toRead = thread[t].toRead \ {s},
              ![t].before = IF thread[t].state = "reading"
                            THEN thread[t].before
                                     \union {n \in graph : n.subgraphId = s}
                            ELSE thread[t].before,
              ![t].reread = IF thread[t].state = "rereading"
                            THEN thread[t].reread
                                     \union {n \in graph : n.subgraphId = s}
                            ELSE thread[t].reread]
        BY <1>8 DEF QuerySubgraph
    <2>2. thread'[t].state = thread[t].state
        BY <1>1, <2>1 DEF TypeOK, MatchState
    <2> QED
        BY <1>8, <2>2 DEF QuerySubgraph
<1>9. CASE UpdateGraph(t)
    <2>1. \/ Fail(t)
          \/ \E nodes : Succeed(t, nodes)
          \/ \E after : thread' = [thread EXCEPT ![t].after = after,
                                                 ![t].state = "updated"]
        BY <1>9 DEF UpdateGraph
    <2>2. ASSUME NEW after, thread' = [thread EXCEPT ![t].after = after,
                                                     ![t].state = "updated"]
          PROVE  FALSE
        BY <1>1, <2>2 DEF TypeOK, MatchState
    <2>3. ASSUME NEW nodes, Succeed(t, nodes) PROVE thread'[t].state = "matched"
        BY <1>1, <2>3 DEF Succeed, TypeOK, IdleThread
    <2> QED
        BY <1>2, <1>9, <2>1, <2>2, <2>3
<1>10. CASE CompareReads(t)
    <2>1. ASSUME thread' = [thread EXCEPT ![t].toPut = thread[t].after,
                                          ![t].state = "putting"]
          PROVE  FALSE
        BY <1>1, <2>1 DEF TypeOK, MatchState
    <2> QED
        BY <1>2, <1>10, <2>1 DEF CompareReads
<1>11. CASE PutNode(t)
    <2>1. PICK toPut : thread' = [thread EXCEPT ![t].toPut = toPut]
        BY <1>11 DEF PutNode
    <2> QED
        BY <1>1, <1>11, <2>1 DEF PutNode, TypeOK, MatchState
<1> QED
    BY <1>4, <1>5, <1>6, <1>7, <1>8, <1>9, <1>10, <1>11 DEF MatchStep

\* A query of the first read adds the rows of one subgraph.
LEMMA QueryReads ==
    ASSUME TypeOK, NEW t \in Threads, QuerySubgraph(t), thread[t].state = "reading"
    PROVE  \E s \in thread[t].toRead :
               /\ thread'[t].state = "reading"
               /\ thread'[t].toRead = thread[t].toRead \ {s}
               /\ thread'[t].before =
                      thread[t].before \union {m \in graph : m.subgraphId = s}
<1>1. PICK s \in thread[t].toRead : thread' = [thread EXCEPT
          ![t].toRead = thread[t].toRead \ {s},
          ![t].before = IF thread[t].state = "reading"
                        THEN thread[t].before
                                 \union {m \in graph : m.subgraphId = s}
                        ELSE thread[t].before,
          ![t].reread = IF thread[t].state = "rereading"
                        THEN thread[t].reread
                                 \union {m \in graph : m.subgraphId = s}
                        ELSE thread[t].reread]
    BY DEF QuerySubgraph
<1>2. thread[t] \in MatchState
    BY DEF TypeOK
<1> QED
    BY <1>1, <1>2 DEF TypeOK, MatchState

\* A match that has nothing to write succeeds with rows that it has read.
LEMMA UnwrittenResult ==
    ASSUME TypeOK, NEW t \in Threads, UpdateGraph(t), thread'[t].state = "matched"
    PROVE  \E existing \in ById(thread[t].before) :
               /\ thread[t].state = "reading" /\ thread[t].toRead = {}
               /\ thread'[t].after = AfterNodes(thread[t].work, Stub(t), existing)
               /\ thread'[t].after \subseteq thread[t].before
<1>1. thread[t] \in MatchState
    BY DEF TypeOK
<1>2. ASSUME Fail(t) PROVE FALSE
    BY <1>1, <1>2 DEF Fail, EndInFailure, TypeOK, IdleThread
<1>3. ASSUME NEW after, thread' = [thread EXCEPT ![t].after = after,
                                                 ![t].state = "updated"]
      PROVE  FALSE
    BY <1>1, <1>3 DEF TypeOK, MatchState
<1>4. PICK existing \in ById(thread[t].before) :
          LET after == AfterNodes(thread[t].work, Stub(t), existing)
          IN  after \subseteq thread[t].before /\ Succeed(t, after)
    BY <1>2, <1>3 DEF UpdateGraph
<1>5. thread'[t].after = AfterNodes(thread[t].work, Stub(t), existing)
    BY <1>1, <1>4 DEF Succeed, TypeOK, IdleThread
<1> QED
    BY <1>4, <1>5 DEF UpdateGraph

\* A step of a match that does not commit keeps the match at the rows of its
\* work's subgraph, or they are being written by another.
LEMMA HandlesOn ==
    ASSUME BatchInv, WritersHoldTheirLocks, CommitInv, RowsAreInTheirSubgraphs,
           NEW l \in Lambdas, NEW w \in Works, NothingIsRead(<<l, w>>),
           MatchStep(<<l, w>>), batch'[l][w] = batch[l][w],
           NEW n \in WithSource(CommittedGraph), IsWith(n, w), Handles(l, w, n)
    PROVE  \/ Handles(l, w, n)'
           \/ \E u \in Threads \ {<<l, w>>} :
                  thread[u].state = "putting" /\ n \in thread[u].after
<1> DEFINE t == <<l, w>>
           Elsewhere == \E u \in Threads \ {t} :
                            thread[u].state = "putting" /\ n \in thread[u].after
<1>1. /\ TypeOK /\ t \in Threads /\ thread[t] \in MatchState /\ Keyed(graph)
      /\ n \in CommittedGraph /\ n.sourceWork # NoSource
    BY ThreadsOfLambdas DEF BatchInv, LambdaTypeOK, TypeOK, WithSource
<1>2. thread[t].state \in Running /\ thread[t].work = w
    <2>1. thread[t].state \in Running
        BY <1>1, MatchGoesOn
    <2> QED
        BY <2>1 DEF BatchInv, MatchesTheBatch, Running, HoldingIds, FirstReading,
                    HoldingSubgraphs, SecondReading
<1>3. /\ batch[l][w] > 0
      /\ thread[t].state = "reading" =>
             /\ n.subgraphId \in thread[t].toRead \/ n \in thread[t].before
             /\ \A o \in thread[t].before : o.id = n.id => o = n
    BY DEF Handles
<1>4. ASSUME n \notin graph, thread[t].state # "putting" PROVE Elsewhere
    BY <1>1, <1>4, UnwrittenRows
<1>5. ASSUME thread'[t].state \notin {"reading", "matched"} PROVE Handles(l, w, n)'
    BY <1>3, <1>5 DEF Handles
<1>6. CASE GetDirectlyAffected(t) /\ thread[t].state = "current"
    <2>1. /\ thread'[t].state = "reading" /\ thread'[t].before = {}
          /\ thread'[t].toRead = {m.subgraphId : m \in {o \in graph : o.id \in Ids(t)}}
        BY <1>1, <1>6 DEF GetDirectlyAffected, TypeOK, MatchState, NothingIsRead
    <2>2. PICK own \in CommittedGraph : own.id = w /\ own.subgraphId = n.subgraphId
        BY DEF IsWith
    <2>3. CASE own \in graph
        <3>1. w \in Ids(t)
            BY <1>2 DEF Ids, StubIds
        <3>2. n.subgraphId \in thread'[t].toRead
            BY <2>1, <2>2, <2>3, <3>1
        <3> QED
            BY <1>3, <2>1, <3>2 DEF Handles
    <2>4. CASE own \notin graph
        <3>1. PICK u \in Threads : thread[u].state = "putting" /\ own \in thread[u].after
            BY <2>2, <2>4, UnwrittenRows
        <3>2. IsWith(own, thread[u].work)
            BY <1>1, <3>1, WritesItsSubgraph
        <3>3. IsWith(n, thread[u].work)
            BY <2>2, <3>2 DEF IsWith
        <3>4. n \in thread[u].after /\ u # t
            BY <1>1, <1>6, <3>1, <3>3, WritesItsSubgraph
        <3> QED
            BY <3>1, <3>4
    <2> QED
        BY <2>3, <2>4
<1>7. CASE QuerySubgraph(t) /\ thread[t].state = "reading"
    <2>1. PICK s \in thread[t].toRead :
              /\ thread'[t].state = "reading"
              /\ thread'[t].toRead = thread[t].toRead \ {s}
              /\ thread'[t].before =
                     thread[t].before \union {m \in graph : m.subgraphId = s}
        BY <1>1, <1>7, QueryReads
    <2>2. CASE n \in graph
        <3>1. \A o \in thread'[t].before : o.id = n.id => o = n
            BY <1>1, <1>3, <1>7, <2>1, <2>2 DEF Keyed
        <3>2. n.subgraphId \in thread'[t].toRead \/ n \in thread'[t].before
            BY <1>3, <1>7, <2>1, <2>2
        <3> QED
            BY <1>3, <2>1, <3>1, <3>2 DEF Handles
    <2> QED
        BY <1>4, <1>7, <2>2
<1>8. CASE UpdateGraph(t) /\ thread'[t].state = "matched"
    <2>1. PICK existing \in ById(thread[t].before) :
              /\ thread[t].state = "reading" /\ thread[t].toRead = {}
              /\ thread'[t].after = AfterNodes(thread[t].work, Stub(t), existing)
              /\ thread'[t].after \subseteq thread[t].before
        BY <1>1, <1>8, UnwrittenResult
    <2>2. n \in thread[t].before
        BY <1>3, <2>1
    <2>3. n \in WithSource(existing)
        BY <1>1, <1>3, <2>1, <2>2 DEF ById, WithSource
    <2>4. \E m \in thread'[t].after : m.id = n.id
        BY <1>1, <1>2, <2>1, <2>3, RowsOfMatch
    <2>5. n \in thread'[t].after
        BY <1>3, <2>1, <2>4
    <2> QED
        BY <1>3, <1>8, <2>5 DEF Handles
<1>9. CASE FinishPut(t)
    <2>1. /\ thread[t].state = "putting" /\ thread'[t].after = thread[t].after
          /\ thread'[t].state = "matched"
        BY <1>1, <1>9 DEF FinishPut, Succeed, TypeOK, IdleThread
    <2>2. n \in thread[t].after
        BY <1>1, <1>2, <2>1, WritesItsSubgraph
    <2> QED
        BY <1>3, <2>1, <2>2 DEF Handles
<1> QED
    BY <1>1, <1>5, <1>6, <1>7, <1>8, <1>9, WaysToRead

\* A step of a match that does not commit leaves it with rows to show together
\* with those of w, or they are being written by another.
LEMMA ShowsOn ==
    ASSUME BatchInv, CommitInv, RowsAreInTheirSubgraphs,
           NEW t \in Threads, NEW w \in Works, NothingIsRead(t), MatchStep(t),
           NEW n \in WithSource(CommittedGraph), IsWith(n, w), ShowsWith(t, w, n)
    PROVE  \/ ShowsWith(t, w, n)'
           \/ \E u \in Threads \ {t} :
                  thread[u].state = "putting" /\ n \in thread[u].after
<1>1. /\ TypeOK /\ thread[t] \in MatchState /\ Keyed(graph)
      /\ n \in CommittedGraph /\ n.sourceWork # NoSource
      /\ Keyed(CommittedGraph)
    BY DEF BatchInv, LambdaTypeOK, TypeOK, WithSource, CommitInv
<1>2. thread[t].state \in Running
    BY <1>1, MatchGoesOn
<1>3. PICK own \in CommittedGraph : own.id = w /\ own.subgraphId = n.subgraphId
    BY DEF IsWith

\* What is not in the table yet, or is with what is not, another writes.
<1>4. ASSUME NEW m \in CommittedGraph, m \notin graph,
             m.subgraphId = n.subgraphId, thread[t].state # "putting"
      PROVE  \E u \in Threads \ {t} :
                 thread[u].state = "putting" /\ n \in thread[u].after
    <2>1. PICK u \in Threads : thread[u].state = "putting" /\ m \in thread[u].after
        BY <1>1, <1>4, UnwrittenRows
    <2>2. IsWith(m, thread[u].work)
        BY <1>1, <2>1, WritesItsSubgraph
    <2>3. IsWith(n, thread[u].work)
        BY <1>4, <2>2 DEF IsWith
    <2>4. n \in thread[u].after
        BY <1>1, <2>1, <2>3, WritesItsSubgraph
    <2> QED
        BY <1>4, <2>1, <2>4
<1>5. ASSUME thread'[t].state \notin {"reading", "matched"} PROVE ShowsWith(t, w, n)'
    BY <1>5 DEF ShowsWith
<1>6. CASE GetDirectlyAffected(t) /\ thread[t].state = "current"
    <2>1. /\ thread'[t].state = "reading" /\ thread'[t].before = {}
        BY <1>1, <1>6 DEF GetDirectlyAffected, TypeOK, MatchState, NothingIsRead
    <2> QED
        BY <2>1 DEF ShowsWith, WithSource
<1>7. CASE QuerySubgraph(t) /\ thread[t].state = "reading"
    <2>1. PICK s \in thread[t].toRead :
              /\ thread'[t].state = "reading"
              /\ thread'[t].toRead = thread[t].toRead \ {s}
              /\ thread'[t].before =
                     thread[t].before \union {m \in graph : m.subgraphId = s}
        BY <1>1, <1>7, QueryReads
    <2>2. CASE n \in graph /\ own \in graph
        <3>1. \A o \in thread'[t].before : o.id = n.id => o = n
            BY <1>1, <1>7, <2>1, <2>2 DEF Keyed, ShowsWith
        <3>2. ASSUME NEW o \in WithSource(thread'[t].before), o.id = w
              PROVE  n.subgraphId \in thread'[t].toRead \/ n \in thread'[t].before
            <4>1. CASE o \in WithSource(thread[t].before)
                BY <1>7, <2>1, <2>2, <3>2, <4>1 DEF ShowsWith
            <4>2. CASE o \in graph /\ o.subgraphId = s
                <5>1. o = own
                    BY <1>1, <1>3, <2>2, <3>2, <4>2 DEF Keyed
                <5> QED
                    BY <1>3, <2>1, <2>2, <4>2, <5>1
            <4> QED
                BY <2>1, <4>1, <4>2 DEF WithSource
        <3> QED
            BY <2>1, <3>1, <3>2 DEF ShowsWith
    <2>3. CASE n \notin graph \/ own \notin graph
        BY <1>1, <1>3, <1>4, <1>7, <2>3
    <2> QED
        BY <2>2, <2>3
<1>8. CASE UpdateGraph(t) /\ thread'[t].state = "matched"
    <2>1. PICK existing \in ById(thread[t].before) :
              /\ thread[t].state = "reading" /\ thread[t].toRead = {}
              /\ thread'[t].after = AfterNodes(thread[t].work, Stub(t), existing)
              /\ thread'[t].after \subseteq thread[t].before
        BY <1>1, <1>8, UnwrittenResult
    <2>2. ASSUME NEW o \in WithSource(thread'[t].after), o.id = w
          PROVE  n \in thread'[t].after
        <3>1. o \in WithSource(thread[t].before)
            BY <2>1 DEF WithSource
        <3>2. /\ n \in thread[t].before
              /\ \A m \in thread[t].before : m.id = n.id => m = n
            BY <2>1, <2>2, <3>1 DEF ShowsWith
        <3>3. n \in WithSource(existing)
            BY <1>1, <2>1, <3>2 DEF ById, WithSource
        <3>4. PICK ids : /\ \A i \in ids : \E m \in thread'[t].after : m.id = i
                         /\ \A m \in WithSource(existing) : m.id \in ids
            <4>1. ASSUME NEW after, after = AfterNodes(thread[t].work, Stub(t), existing)
                  PROVE  \E ids : /\ \A i \in ids : \E m \in after : m.id = i
                                 /\ \A m \in WithSource(existing) : m.id \in ids
                BY <1>1, <1>2, <4>1, RowsOfMatch
            <4> QED
                BY <2>1, <4>1
        <3>5. \E m \in thread'[t].after : m.id = n.id
            BY <3>3, <3>4
        <3> QED
            BY <2>1, <3>2, <3>5
    <2> QED
        BY <1>8, <2>2 DEF ShowsWith
<1>9. CASE FinishPut(t)
    <2>1. /\ thread[t].state = "putting" /\ thread'[t].after = thread[t].after
          /\ thread'[t].state = "matched"
        BY <1>1, <1>9 DEF FinishPut, Succeed, TypeOK, IdleThread
    <2>2. ASSUME NEW o \in WithSource(thread[t].after), o.id = w
          PROVE  n \in thread[t].after
        <3>1. o \in thread[t].after /\ o \in CommittedGraph
            BY <2>1 DEF WithSource, CommitInv, Matches, WritesAreCommitted
        <3>2. o = own
            BY <1>1, <1>3, <2>2, <3>1 DEF Keyed
        <3>3. IsWith(own, thread[t].work)
            BY <1>1, <2>1, <3>1, <3>2, WritesItsSubgraph
        <3>4. IsWith(n, thread[t].work)
            BY <1>3, <3>3 DEF IsWith
        <3> QED
            BY <1>1, <2>1, <3>4, WritesItsSubgraph
    <2> QED
        BY <2>1, <2>2 DEF ShowsWith
<1> QED
    BY <1>1, <1>5, <1>6, <1>7, <1>8, <1>9, WaysToRead

\* A match that is writing covers what it writes.
LEMMA PuttersCover ==
    ASSUME BatchInv, CommitInv, RowsAreInTheirSubgraphs, NEW t \in Threads,
           thread[t].state = "putting", NEW n \in thread[t].after
    PROVE  /\ n \in CommittedGraph /\ t = <<t[1], t[2]>>
           /\ t[1] \in Lambdas /\ t[2] \in Works
           /\ IsWith(n, t[2]) /\ batch[t[1]][t[2]] > 0
<1>1. TypeOK /\ n \in CommittedGraph
    BY DEF BatchInv, LambdaTypeOK, CommitInv, Matches, WritesAreCommitted
<1>2. /\ t = <<t[1], t[2]>> /\ t[1] \in Lambdas /\ t[2] \in Works
      /\ thread[t].work = t[2] /\ batch[t[1]][t[2]] > 0
    BY ThreadsOfLambdas DEF BatchInv, MatchesTheBatch
<1> QED
    BY <1>1, <1>2, WritesItsSubgraph

\* Until its match begins to read, nothing is read.
LEMMA NothingIsReadYet ==
    ASSUME TypeOK, NEW t \in Threads, NothingIsRead(t),
           MatchStep(t) \/ CheckIsUnreadable(t) \/ CallFails(t)
    PROVE  NothingIsRead(t)'
<1>1. thread[t] \in MatchState
    BY DEF TypeOK
<1> SUFFICES ASSUME thread'[t].state \in {"starting", "locked", "current"}
             PROVE  thread'[t].before = {}
    BY DEF NothingIsRead
<1>2. ASSUME EndInFailure(t) PROVE FALSE
    BY <1>1, <1>2 DEF EndInFailure, TypeOK, IdleThread
<1>3. ASSUME NEW next, Goto(t, next), thread[t].state \in {"starting", "locked"}
      PROVE  thread'[t].before = {}
    BY <1>1, <1>3 DEF Goto, TypeOK, MatchState, NothingIsRead
<1>4. CASE LockWorkIds(t)
    BY <1>3, <1>4 DEF LockWorkIds, TakeLocks
<1>5. CASE LockSubgraphs(t)
    BY <1>1, <1>5 DEF LockSubgraphs, TakeLocks, Goto, TypeOK, MatchState
<1>6. CASE CheckWorkIsCurrent(t)
    BY <1>2, <1>3, <1>6 DEF CheckWorkIsCurrent, Fail
<1>7. CASE CheckIsUnreadable(t)
    BY <1>3, <1>7 DEF CheckIsUnreadable
<1>8. CASE LockingFails(t) \/ CallFails(t)
    BY <1>2, <1>8 DEF LockingFails, Fail, CallFails
<1>9. CASE GetDirectlyAffected(t)
    BY <1>1, <1>9 DEF GetDirectlyAffected, TypeOK, MatchState
<1>10. CASE QuerySubgraph(t)
    <2>1. PICK s \in thread[t].toRead : thread' = [thread EXCEPT
              ![t].toRead = thread[t].toRead \ {s},
              ![t].before = IF thread[t].state = "reading"
                            THEN thread[t].before
                                     \union {n \in graph : n.subgraphId = s}
                            ELSE thread[t].before,
              ![t].reread = IF thread[t].state = "rereading"
                            THEN thread[t].reread
                                     \union {n \in graph : n.subgraphId = s}
                            ELSE thread[t].reread]
        BY <1>10 DEF QuerySubgraph
    <2>2. thread'[t].state = thread[t].state
        BY <1>1, <2>1 DEF TypeOK, MatchState
    <2> QED
        BY <1>10, <2>2 DEF QuerySubgraph
<1>11. CASE UpdateGraph(t)
    <2>1. \/ Fail(t)
          \/ \E nodes : Succeed(t, nodes)
          \/ \E after : thread' = [thread EXCEPT ![t].after = after,
                                                 ![t].state = "updated"]
        BY <1>11 DEF UpdateGraph
    <2>2. ASSUME NEW after, thread' = [thread EXCEPT ![t].after = after,
                                                     ![t].state = "updated"]
          PROVE  FALSE
        BY <1>1, <2>2 DEF TypeOK, MatchState
    <2>3. ASSUME NEW nodes, Succeed(t, nodes) PROVE FALSE
        BY <1>1, <2>3 DEF Succeed, TypeOK, IdleThread
    <2> QED
        BY <1>2, <2>1, <2>2, <2>3 DEF Fail
<1>12. CASE CompareReads(t)
    <2>1. ASSUME thread' = [thread EXCEPT ![t].toPut = thread[t].after,
                                          ![t].state = "putting"]
          PROVE  FALSE
        BY <1>1, <2>1 DEF TypeOK, MatchState
    <2> QED
        BY <1>2, <1>12, <2>1 DEF CompareReads, Fail
<1>13. CASE PutNode(t)
    <2>1. PICK toPut : thread' = [thread EXCEPT ![t].toPut = toPut]
        BY <1>13 DEF PutNode
    <2> QED
        BY <1>1, <1>13, <2>1 DEF PutNode, TypeOK, MatchState
<1>14. CASE FinishPut(t)
    BY <1>1, <1>14 DEF FinishPut, Succeed, TypeOK, IdleThread
<1> QED
    BY <1>4, <1>5, <1>6, <1>7, <1>8, <1>9, <1>10, <1>11, <1>12, <1>13, <1>14
    DEF MatchStep

\* A match that writes goes on writing, or succeeds.
LEMMA WritersGoOn ==
    ASSUME TypeOK, NEW t \in Threads, MatchStep(t), thread[t].state = "putting"
    PROVE  thread'[t].state \in {"putting", "matched"}
<1>1. thread[t] \in MatchState
    BY DEF TypeOK
<1>2. CASE PutNode(t)
    <2>1. PICK toPut : thread' = [thread EXCEPT ![t].toPut = toPut]
        BY <1>2 DEF PutNode
    <2> QED
        BY <1>1, <2>1 DEF TypeOK, MatchState
<1>3. CASE FinishPut(t)
    BY <1>1, <1>3 DEF FinishPut, Succeed, TypeOK, IdleThread
<1>4. ~LockingFails(t)
    BY DEF LockingFails, Wanted
<1> QED
    BY <1>2, <1>3, <1>4 DEF MatchStep, LockWorkIds, LockSubgraphs, CheckWorkIsCurrent,
                            GetDirectlyAffected, QuerySubgraph, UpdateGraph, CompareReads

\* Steps of a match that do not commit leave every row covered that was, and
\* cover those they write.
LEMMA MatchKeepsNews ==
    ASSUME NewsInv, NEW l \in Lambdas, NEW w \in Works, LambdaStep(<<l, w>>),
           WritersSucceed, UNCHANGED CommittedGraph
    PROVE  NewsIsInHand'
<1> DEFINE t == <<l, w>>
<1>1. /\ TypeOK /\ BatchInv /\ WritersHoldTheirLocks /\ CommitInv
      /\ RowsAreInTheirSubgraphs /\ NothingIsRead(t) /\ t \in Threads
      /\ NewsIsInHand
    BY ThreadsOfLambdas DEF NewsInv, BatchInv, LambdaTypeOK
<1>2. /\ MatchStep(t) \/ CheckIsUnreadable(t) \/ CallFails(t)
      /\ UNCHANGED <<queue, batch>>
      /\ untold' = untold \union {n.id : n \in WithSource(graph' \ graph)}
    BY DEF LambdaStep
<1>3. \A u \in Threads \ {t} : thread'[u] = thread[u]
    BY <1>1, <1>2, MatchGoesOn
<1>4. \A n, v : IsWith(n, v) => IsWith(n, v)'
    BY DEF IsWith

\* What is no match step makes a match neither read nor succeed.
<1>5. \/ MatchStep(t)
      \/ thread'[t].state = "failed"
      \/ thread'[t].state = "current" /\ thread[t].state = "locked"
    <2>1. thread[t] \in MatchState /\ thread \in [Threads -> MatchState]
        BY <1>1 DEF TypeOK
    <2>2. ASSUME CheckIsUnreadable(t)
          PROVE  thread'[t].state = "current" /\ thread[t].state = "locked"
        BY <1>1, <2>1, <2>2 DEF CheckIsUnreadable, Goto, MatchState
    <2>3. ASSUME CallFails(t) PROVE thread'[t].state = "failed"
        BY <1>1, <2>1, <2>3 DEF CallFails, EndInFailure, IdleThread
    <2> QED
        BY <1>2, <2>2, <2>3
<1>6. ASSUME NEW u \in Threads, thread'[u].state = "putting",
             thread[u].state = "putting", NEW n \in thread[u].after
      PROVE  n \in CommittedGraph /\ IsCovered(n)'
    <2>1. /\ n \in CommittedGraph /\ u = <<u[1], u[2]>>
          /\ u[1] \in Lambdas /\ u[2] \in Works
          /\ IsWith(n, u[2]) /\ batch[u[1]][u[2]] > 0
        BY <1>1, <1>6, PuttersCover
    <2>2. Attends(u[1], u[2], n)'
        BY <1>2, <1>6, <2>1 DEF Attends, Handles, IsBacked
    <2> QED
        BY <1>4, <2>1, <2>2 DEF IsCovered
<1>7. ASSUME NEW n \in WithSource(CommittedGraph), IsCovered(n)
      PROVE  IsCovered(n)'
    <2>1. PICK v \in Works :
              IsWith(n, v) /\ (queue[v] > 0 \/ \E m \in Lambdas : Attends(m, v, n))
        BY <1>7 DEF IsCovered
    <2>2. CASE queue[v] > 0
        BY <1>2, <1>4, <2>1, <2>2 DEF IsCovered
    <2>3. CASE \E u \in Threads \ {t} : thread[u].state = "putting" /\ n \in thread[u].after
        BY <1>3, <1>6, <2>3
    <2>4. ASSUME NEW m \in Lambdas, Attends(m, v, n),
                 ~\E u \in Threads \ {t} : thread[u].state = "putting"
                                          /\ n \in thread[u].after
          PROVE  IsCovered(n)'
        <3>1. Handles(m, v, n)'
            <4>1. CASE <<m, v>> # t
                <5>1. thread'[<<m, v>>] = thread[<<m, v>>]
                    BY <1>3, <4>1, ThreadsOfLambdas
                <5> QED
                    BY <1>2, <2>4, <5>1 DEF Attends, Handles
            <4>2. CASE <<m, v>> = t /\ MatchStep(t)
                BY <1>1, <1>2, <1>7, <2>1, <2>4, <4>2, HandlesOn DEF Attends
            <4>3. CASE <<m, v>> = t /\ thread'[t].state \in {"current", "failed"}
                BY <1>2, <2>4, <4>3 DEF Attends, Handles
            <4> QED
                BY <1>5, <4>1, <4>2, <4>3
        <3>2. ASSUME thread'[<<m, v>>].state \notin {"putting", "matched"},
                     NEW x \in Works \ {v}
              PROVE  ShowsWith(<<m, x>>, v, n)'
            \* A match that fails when it has written has no neighbours.
            <4>1. CASE <<m, v>> = t /\ thread[t].state = "putting"
                <5>1. thread'[t].state = "failed"
                    BY <1>1, <1>5, <3>2, <4>1, WritersGoOn
                <5>2. InBatch(m) = {v}
                    BY <4>1, <5>1 DEF WritersSucceed
                <5>3. x \in Works /\ x # v /\ <<m, x>> # t
                    BY <4>1
                <5>4. thread[<<m, x>>].state = "idle"
                    BY <1>1, <5>2, <5>3 DEF BatchInv, MatchesTheBatch, InBatch
                <5>5. thread'[<<m, x>>] = thread[<<m, x>>]
                    BY <1>3, <5>3, ThreadsOfLambdas
                <5> QED
                    BY <5>4, <5>5 DEF ShowsWith
            <4>2. CASE thread[<<m, v>>].state \notin {"putting", "matched"}
                <5>1. ShowsWith(<<m, x>>, v, n)
                    BY <2>4, <4>2 DEF Attends, IsBacked
                <5>2. CASE <<m, x>> # t
                    <6>1. thread'[<<m, x>>] = thread[<<m, x>>]
                        BY <1>3, <5>2, ThreadsOfLambdas
                    <6> QED
                        BY <5>1, <6>1 DEF ShowsWith
                <5>3. CASE <<m, x>> = t /\ MatchStep(t)
                    BY <1>1, <1>7, <2>1, <2>4, <5>1, <5>3, ShowsOn
                <5>4. CASE <<m, x>> = t /\ thread'[t].state \in {"current", "failed"}
                    BY <5>4 DEF ShowsWith
                <5> QED
                    BY <1>5, <5>2, <5>3, <5>4
            <4>3. thread[<<m, v>>].state # "matched"
                <5>1. CASE <<m, v>> # t
                    BY <1>3, <3>2, <5>1, ThreadsOfLambdas
                <5>2. CASE <<m, v>> = t
                    BY <1>1, <1>2, <5>2, MatchGoesOn
                    DEF Running, HoldingIds, FirstReading, HoldingSubgraphs,
                        SecondReading
                <5> QED
                    BY <5>1, <5>2
            <4>4. <<m, v>> = t \/ thread[<<m, v>>].state # "putting"
                BY <1>3, <3>2, ThreadsOfLambdas
            <4> QED
                BY <4>1, <4>2, <4>3, <4>4
        <3>3. Attends(m, v, n)'
            BY <3>1, <3>2 DEF Attends, IsBacked
        <3> QED
            BY <1>4, <2>1, <3>3 DEF IsCovered
    <2> QED
        BY <2>1, <2>2, <2>3, <2>4
<1>8. ASSUME NEW n \in WithSource(graph' \ graph)
      PROVE  n \in WithSource(CommittedGraph) /\ IsCovered(n)'
    <2>1. n \in graph' /\ n \notin graph /\ n.sourceWork # NoSource
        BY DEF WithSource
    <2>2. /\ thread[t].state = "putting" /\ thread'[t].state = "putting"
          /\ n \in thread[t].toPut
        BY <1>1, <1>2, <2>1, NewsOfAStep
    <2>3. n \in thread[t].after
        BY <1>1, <2>2 DEF CommitInv, Matches, WritesAreCommitted
    <2> QED
        BY <1>1, <1>6, <2>1, <2>2, <2>3 DEF WithSource
<1>9. WithSource(CommittedGraph)' = WithSource(CommittedGraph)
    BY DEF WithSource
<1>10. ASSUME NEW i \in untold'
       PROVE  \E n \in WithSource(CommittedGraph) : n.id = i /\ IsCovered(n)'
    <2>1. CASE i \in untold
        BY <1>1, <1>7, <2>1 DEF NewsIsInHand
    <2> QED
        BY <1>2, <1>8, <1>10, <2>1
<1> QED
    BY <1>9, <1>10 DEF NewsIsInHand

\* A match that commits takes over all that it has read.
LEMMA CommitKeepsNews ==
    ASSUME NewsInv, RereadsFindTheirIds, NEW l \in Lambdas, NEW w \in Works,
           LambdaStep(<<l, w>>), CompareReads(<<l, w>>),
           thread[<<l, w>>].reread = thread[<<l, w>>].before
    PROVE  NewsIsInHand' /\ RowsAreInTheirSubgraphs'
<1> DEFINE t == <<l, w>>
           before == thread[t].before
           after == thread[t].after
<1>1. /\ TypeOK /\ BatchInv /\ WritersHoldTheirLocks /\ CommitInv
      /\ RowsAreInTheirSubgraphs /\ NewsIsInHand
      /\ t \in Threads
    BY ThreadsOfLambdas DEF NewsInv, BatchInv, LambdaTypeOK
<1>2. /\ thread[t].state = "rereading" /\ UNCHANGED graph
      /\ thread'[t].state = "putting"
      /\ \A u \in Threads \ {t} : thread'[u] = thread[u]
      /\ UNCHANGED <<queue, batch>>
      /\ untold' = untold \union {n.id : n \in WithSource(graph' \ graph)}
      /\ thread[t].state \in Running
    BY <1>1 DEF CompareReads, TypeOK, MatchState, LambdaStep, Running, HoldingIds,
                HoldingSubgraphs, SecondReading
<1>3. UNCHANGED untold
    BY <1>2 DEF WithSource
<1>4. thread[t].work = w /\ batch[l][w] > 0 /\ w \in Works /\ Stub(t) \in WorkStub
    BY <1>1, <1>2, RunningType DEF BatchInv, MatchesTheBatch
<1>5. PICK sources, ids :
          UpdateOf(CommittedGraph, PutAll(CommittedGraph, after), w, Stub(t), before,
                   sources, ids, after)
    BY <1>1, <1>4, CommitUpdates
<1>6. CommittedGraph' = PutAll(CommittedGraph, after)
    BY <1>1, Commit
<1>7. /\ CommittedGraph \in SUBSET WorkNode /\ Keyed(CommittedGraph)
      /\ LinksClosed(CommittedGraph)
    BY <1>1, CommittedType DEF CommitInv
<1> HIDE DEF before, after
<1>8. /\ before \in SUBSET WorkNode /\ Keyed(before)
      /\ after = AfterNodes(w, Stub(t), before)
      /\ after \subseteq CommittedGraph'
      /\ \A n \in CommittedGraph' : n.id \notin ids => n \in CommittedGraph
      /\ \A n \in CommittedGraph' : n.id \in ids => n \in after
      /\ \A n \in WithSource(before) : n.id \in ids
    BY <1>4, <1>5, <1>6, <1>7, WritesOfUpdate DEF UpdateOf
<1>9. /\ \A i \in ids : \E n \in after : n.id = i
      /\ \A n \in after : n.id \in ids /\ n.subgraphId = ids
    BY <1>4, <1>5, <1>8, RowsOfUpdate DEF UpdateOf
<1>10. PICK own \in after : own.id = w
    BY <1>4, <1>8, SourcesOfRows
<1>11. ASSUME NEW n \in after PROVE IsCovered(n)'
    <2>1. IsWith(n, w)'
        BY <1>8, <1>9, <1>10 DEF IsWith
    <2>2. Attends(l, w, n)'
        BY <1>2, <1>4 DEF Attends, Handles, IsBacked
    <2> QED
        BY <2>1, <2>2 DEF IsCovered
<1>12. ASSUME NEW n \in WithSource(before)
       PROVE  \E m \in WithSource(after) : m.id = n.id
    <2>1. PICK m \in after : m.id = n.id
        BY <1>8, <1>9
    <2>2. CASE n.id = w
        <3>1. m.sourceWork = SourceData(w, Stub(t))
            BY <1>4, <1>8, <2>1, <2>2, SourcesOfRows
        <3> QED
            BY <1>4, <2>1, <3>1, StubIdsType, NoSourceAssumption DEF WithSource
    <2>3. CASE n.id # w
        <3>1. m.sourceWork = n.sourceWork
            BY <1>4, <1>8, <2>1, <2>3, SourcesOfRows
        <3> QED
            BY <2>1, <3>1 DEF WithSource
    <2> QED
        BY <2>2, <2>3

\* What it has not read stays as it is, its subgraph included.
<1>13. ASSUME NEW n \in CommittedGraph \ before, IsCovered(n)
       PROVE  n \in CommittedGraph' /\ IsCovered(n)'
    <2>1. /\ n \in CommittedGraph'
          /\ \A m \in CommittedGraph :
                 m.subgraphId = n.subgraphId => m \in CommittedGraph'
        BY <1>4, <1>5, <1>6, <1>7, UnreadByUpdate
    <2>2. \A v : IsWith(n, v) => IsWith(n, v)'
        BY <2>1 DEF IsWith
    <2>3. ASSUME NEW m \in Lambdas, NEW v \in Works, Attends(m, v, n)
          PROVE  Attends(m, v, n)'
        <3>1. CASE <<m, v>> = t
            BY <1>2, <2>3, <3>1 DEF Attends, Handles, IsBacked
        <3>2. CASE <<m, v>> # t
            <4>1. thread'[<<m, v>>] = thread[<<m, v>>]
                BY <1>2, <3>2, ThreadsOfLambdas
            <4>2. ASSUME NEW x \in Works, ShowsWith(<<m, x>>, v, n)
                  PROVE  ShowsWith(<<m, x>>, v, n)'
                <5>1. CASE <<m, x>> = t
                    BY <1>2, <5>1 DEF ShowsWith
                <5>2. CASE <<m, x>> # t
                    <6>1. thread'[<<m, x>>] = thread[<<m, x>>]
                        BY <1>2, <5>2, ThreadsOfLambdas
                    <6> QED
                        BY <4>2, <6>1 DEF ShowsWith
                <5> QED
                    BY <5>1, <5>2
            <4> QED
                BY <1>2, <2>3, <4>1, <4>2 DEF Attends, Handles, IsBacked
        <3> QED
            BY <3>1, <3>2
    <2> QED
        BY <1>2, <1>13, <2>1, <2>2, <2>3 DEF IsCovered
<1>14. ASSUME NEW i \in untold
       PROVE  \E n \in WithSource(CommittedGraph') : n.id = i /\ IsCovered(n)'
    <2>1. PICK n \in WithSource(CommittedGraph) : n.id = i /\ IsCovered(n)
        BY <1>1 DEF NewsIsInHand
    <2>2. CASE n \in before
        <3>1. PICK m \in WithSource(after) : m.id = n.id
            BY <1>12, <2>1, <2>2 DEF WithSource
        <3> QED
            BY <1>8, <1>11, <2>1, <3>1 DEF WithSource
    <2>3. CASE n \notin before
        BY <1>13, <2>1, <2>3 DEF WithSource
    <2> QED
        BY <2>2, <2>3
<1>15. NewsIsInHand'
    BY <1>3, <1>14 DEF NewsIsInHand, WithSource
<1>16. RowsAreInTheirSubgraphs'
    BY <1>1, <1>8, <1>9 DEF RowsAreInTheirSubgraphs
<1> QED
    BY <1>15, <1>16

\* A batch begins or ends: its messages are covered by matches from then on, or
\* come back, unless what they stood for was shown.
LEMMA BatchKeepsNews ==
    ASSUME NewsInv, NEW l \in Lambdas, BatchStep(l),
           UNCHANGED <<graph, CommittedGraph>>
    PROVE  NewsIsInHand'
<1>1. /\ TypeOK /\ BatchInv /\ CommitInv /\ RowsAreInTheirSubgraphs /\ NewsIsInHand
      /\ queue \in [Works -> Nat] /\ batch \in [Lambdas -> Messages]
      /\ \A m \in Lambdas : batch[m] \in [Works -> Nat]
    BY DEF NewsInv, BatchInv, LambdaTypeOK, Messages
<1>2. \A n, v : IsWith(n, v) => IsWith(n, v)'
    BY DEF IsWith
<1>3. WithSource(CommittedGraph)' = WithSource(CommittedGraph)
    BY DEF WithSource
<1>4. ASSUME untold' \subseteq untold,
             \A n \in WithSource(CommittedGraph) :
                 IsCovered(n) => IsCovered(n)' \/ n.id \notin untold'
      PROVE  NewsIsInHand'
    <2>1. ASSUME NEW i \in untold'
          PROVE  \E n \in WithSource(CommittedGraph) : n.id = i /\ IsCovered(n)'
        BY <1>1, <1>4, <2>1 DEF NewsIsInHand
    <2> QED
        BY <1>3, <2>1 DEF NewsIsInHand
<1>5. CASE StartAnyBatch(l)
    <2>1. PICK messages \in [Works -> 0..MaxBatch] :
              /\ \A v \in Works : messages[v] <= queue[v]
              /\ StartBatch(l, messages)
        BY <1>5 DEF StartAnyBatch
    <2>2. /\ queue' = [v \in Works |-> queue[v] - messages[v]]
          /\ batch' = [batch EXCEPT ![l] = messages]
          /\ batch[l] = NoMessages /\ UNCHANGED untold
          /\ \A t \in Threads : thread'[t] =
                 IF t[1] = l /\ messages[t[2]] > 0
                 THEN Starting(t[2], index[t[2]]) ELSE thread[t]
        BY <2>1 DEF StartBatch, Starting
    <2>6. \A x \in Works : thread'[<<l, x>>].state \in {"idle", "starting"}
        <3>1. ASSUME NEW x \in Works
              PROVE  thread'[<<l, x>>].state \in {"idle", "starting"}
            <4>1. index[x] \in Nat /\ <<l, x>> \in Threads
                BY <1>1, ThreadsOfLambdas DEF TypeOK
            <4>2. thread[<<l, x>>].state = "idle"
                <5>1. batch[l][x] = 0
                    BY <2>2 DEF NoMessages
                <5> QED
                    BY <1>1, <5>1 DEF BatchInv, MatchesTheBatch
            <4> QED
                BY <2>2, <4>1, <4>2, StartingThread
        <3> QED
            BY <3>1
    <2>3. ASSUME NEW v \in Works, queue[v] > 0, NEW n, IsWith(n, v)
          PROVE  IsCovered(n)'
        <3>1. messages[v] \in Nat /\ queue[v] \in Nat
            BY <1>1, <2>1, LambdaAssumption
        <3>2. CASE messages[v] > 0
            <4>1. thread'[<<l, v>>].state = "starting"
                <5>1. index[v] \in Nat
                    BY <1>1 DEF TypeOK
                <5> QED
                    BY <2>2, <3>2, <5>1, ThreadsOfLambdas, StartingThread
            <4>2. batch'[l][v] > 0
                BY <1>1, <2>2, <3>2
            <4>3. Attends(l, v, n)'
                BY <2>6, <4>1, <4>2 DEF Attends, Handles, IsBacked, ShowsWith
            <4> QED
                BY <1>2, <2>3, <4>3 DEF IsCovered
        <3>3. CASE messages[v] = 0
            <4>1. queue'[v] > 0
                BY <2>2, <2>3, <3>1, <3>3
            <4> QED
                BY <1>2, <2>3, <4>1 DEF IsCovered
        <3> QED
            BY <3>1, <3>2, <3>3
    <2>4. ASSUME NEW v \in Works, NEW m \in Lambdas, NEW n, IsWith(n, v),
                 Attends(m, v, n)
          PROVE  IsCovered(n)'
        <3>1. batch[m][v] > 0 /\ NoMessages[v] = 0
            BY <2>4 DEF Attends, Handles, NoMessages
        <3>2. m # l
            BY <2>2, <3>1
        <3>3. /\ \A x \in Works : thread'[<<m, x>>] = thread[<<m, x>>]
              /\ batch'[m] = batch[m]
            BY <1>1, <2>2, <3>2, ThreadsOfLambdas
        <3>4. Attends(m, v, n)'
            BY <2>4, <3>3 DEF Attends, Handles, IsBacked, ShowsWith
        <3> QED
            BY <1>2, <2>4, <3>4 DEF IsCovered
    <2>5. ASSUME NEW n \in WithSource(CommittedGraph), IsCovered(n)
          PROVE  IsCovered(n)'
        BY <2>3, <2>4, <2>5 DEF IsCovered
    <2> QED
        BY <1>4, <2>2, <2>5

\* At the end of a batch, what its messages covered has to be taken over.
<1>6. ASSUME NEW returned, Returned(l, returned), EndBatch(l, returned),
             ThreadsOver(l), untold' \subseteq untold,
             \A v \in Works, n \in WithSource(CommittedGraph) :
                 Attends(l, v, n) /\ IsWith(n, v) =>
                     returned[v] > 0 \/ IsCovered(n)' \/ n.id \notin untold'
      PROVE  NewsIsInHand'
    <2>1. \A v \in Works : /\ returned[v] \in Nat /\ queue[v] \in Nat
                           /\ queue'[v] = queue[v] + returned[v]
        BY <1>1, <1>6 DEF Returned, Messages, EndBatch
    <2>2. \A v \in Works : queue[v] > 0 \/ returned[v] > 0 => queue'[v] > 0
        BY <2>1
    <2>3. ASSUME NEW v \in Works, NEW m \in Lambdas, m # l, NEW n,
                 Attends(m, v, n)
          PROVE  Attends(m, v, n)'
        <3>1. /\ \A x \in Works : thread'[<<m, x>>] = thread[<<m, x>>]
              /\ batch'[m] = batch[m]
            BY <1>1, <1>6, <2>3, ThreadsOfLambdas DEF ThreadsOver, EndBatch
        <3> QED
            BY <2>3, <3>1 DEF Attends, Handles, IsBacked, ShowsWith
    <2>4. ASSUME NEW n \in WithSource(CommittedGraph), IsCovered(n)
          PROVE  IsCovered(n)' \/ n.id \notin untold'
        <3>1. PICK v \in Works :
                  /\ IsWith(n, v)
                  /\ queue[v] > 0 \/ \E m \in Lambdas : Attends(m, v, n)
            BY <2>4 DEF IsCovered
        <3>2. CASE queue[v] > 0
            BY <1>2, <2>2, <3>1, <3>2 DEF IsCovered
        <3>3. ASSUME NEW m \in Lambdas, m # l, Attends(m, v, n)
              PROVE  IsCovered(n)'
            BY <1>2, <2>3, <3>1, <3>3 DEF IsCovered
        <3>4. CASE Attends(l, v, n)
            <4>1. CASE returned[v] > 0
                BY <1>2, <2>2, <3>1, <4>1 DEF IsCovered
            <4> QED
                BY <1>6, <3>1, <3>4, <4>1
        <3> QED
            BY <3>1, <3>2, <3>3, <3>4
    <2> QED
        BY <1>4, <1>6, <2>4
<1>7. /\ Returned(l, [v \in Works |-> IF v \in MissingMessages(l) THEN 1 ELSE 0])
      /\ Returned(l, batch[l])
    BY <1>1, BatchesEnd DEF BatchInv
<1>8. CASE FinishBatch(l)
    <2> DEFINE returned == [v \in Works |-> IF v \in MissingMessages(l) THEN 1 ELSE 0]
    <2>1. /\ EndBatch(l, returned) /\ ThreadsOver(l) /\ Returned(l, returned)
          /\ AllEnded(l)
          /\ untold' = untold \ {n.id : n \in Shown(Results(l)) \intersect graph}
        BY <1>7, <1>8 DEF FinishBatch
    <2>2. ASSUME NEW v \in Works, NEW n \in WithSource(CommittedGraph),
                 Attends(l, v, n), IsWith(n, v)
          PROVE  returned[v] > 0 \/ IsCovered(n)' \/ n.id \notin untold'
        <3>1. v \in InBatch(l) /\ thread[<<l, v>>].state \in {"failed", "matched"}
            BY <2>1, <2>2 DEF Attends, Handles, InBatch, AllEnded, Ended
        \* The work comes back, or the result that it is found in shows the row.
        <3>2. CASE thread[<<l, v>>].state = "failed" /\ n \in graph
            <4>1. CASE v \in MissingMessages(l)
                BY <4>1
            <4>2. CASE v \in FoundIdentifiers(l)
                <5>1. PICK x \in InBatch(l) :
                          /\ thread[<<l, x>>].state = "matched"
                          /\ \E o \in WithSource(thread[<<l, x>>].after) : o.id = v
                    BY <4>2 DEF FoundIdentifiers, Shown, Results, WithSource
                <5>2. ShowsWith(<<l, x>>, v, n)
                    BY <2>2, <3>2, <5>1 DEF Attends, IsBacked, InBatch
                <5>3. n \in thread[<<l, x>>].after /\ <<l, x>> \in Results(l)
                    BY <5>1, <5>2 DEF ShowsWith, Results
                <5>4. n \in Shown(Results(l)) \intersect graph
                    BY <3>2, <5>3 DEF Shown
                <5> QED
                    BY <2>1, <5>4
            <4> QED
                BY <3>1, <4>1, <4>2 DEF MissingMessages
        <3>3. CASE thread[<<l, v>>].state = "matched" /\ n \in graph
            <4>1. n \in thread[<<l, v>>].after /\ <<l, v>> \in Results(l)
                BY <2>2, <3>1, <3>3 DEF Attends, Handles, Results
            <4>2. n \in Shown(Results(l)) \intersect graph
                BY <3>3, <4>1 DEF Shown
            <4> QED
                BY <2>1, <4>2
        \* The row is not in the table yet: a match of another batch writes it.
        <3>4. CASE n \notin graph
            <4>1. n \in CommittedGraph \ graph
                BY <3>4 DEF WithSource
            <4>2. PICK u \in Threads :
                      thread[u].state = "putting" /\ n \in thread[u].after
                BY <1>1, <4>1, UnwrittenRows
            <4>3. /\ u = <<u[1], u[2]>> /\ u[1] \in Lambdas /\ u[2] \in Works
                  /\ IsWith(n, u[2]) /\ batch[u[1]][u[2]] > 0
                BY <1>1, <4>2, PuttersCover
            <4>4. u[1] # l
                BY <2>1, <4>2, <4>3 DEF AllEnded, InBatch, Ended
            <4>5. thread'[u] = thread[u] /\ batch'[u[1]] = batch[u[1]]
                BY <1>1, <2>1, <4>3, <4>4 DEF ThreadsOver, EndBatch
            <4>6. Attends(u[1], u[2], n)'
                BY <4>2, <4>3, <4>5 DEF Attends, Handles, IsBacked
            <4> QED
                BY <1>2, <4>3, <4>6 DEF IsCovered
        <3> QED
            BY <3>1, <3>2, <3>3, <3>4
    <2> HIDE DEF returned
    <2> QED
        BY <1>6, <2>1, <2>2
<1>9. CASE NotifyFails(l) \/ LambdaDies(l)
    <2>1. /\ EndBatch(l, batch[l]) /\ ThreadsOver(l) /\ Returned(l, batch[l])
          /\ untold' \subseteq untold
        BY <1>7, <1>9 DEF NotifyFails, LambdaDies
    <2>2. \A v, n : Attends(l, v, n) => batch[l][v] > 0
        BY DEF Attends, Handles
    <2> QED
        BY <1>6, <2>1, <2>2
<1>10. CASE \E v \in Works : Redeliver(l, v)
    <2>1. PICK v \in Works : queue' = [queue EXCEPT ![v] = queue[v] + 1]
        BY <1>10 DEF Redeliver
    <2>2. \A w \in Works : queue[w] > 0 => queue'[w] > 0
        BY <1>1, <2>1
    <2>3. UNCHANGED <<batch, thread, untold>>
        BY <1>10 DEF Redeliver
    <2>4. \A m, w, n : Attends(m, w, n) => Attends(m, w, n)'
        BY <2>3 DEF Attends, Handles, IsBacked, ShowsWith
    <2>5. \A n : IsCovered(n) => IsCovered(n)'
        BY <1>2, <2>2, <2>4 DEF IsCovered
    <2> QED
        BY <1>4, <2>3, <2>5
<1> QED
    BY <1>5, <1>8, <1>9, <1>10 DEF BatchStep

\* Every step of the lambdas keeps the news in hand.
LEMMA NewsStays ==
    ASSUME "torn" \notin FaultKinds, NewsInv, RereadsFindTheirIds,
           [LambdaNext]_lambdaVars, [WritersSucceed]_lambdaVars
    PROVE  NewsInv'
<1>1. /\ TypeOK /\ BatchInv /\ WritersHoldTheirLocks /\ CommitInv
      /\ RowsAreInTheirSubgraphs /\ NewsIsInHand
      /\ queue \in [Works -> Nat]
      /\ \A t \in Threads : NothingIsRead(t) /\ thread[t] \in MatchState
    BY DEF NewsInv, BatchInv, LambdaTypeOK, TypeOK, Messages
<1>2. BatchInv'
    BY <1>1, BatchesStay

\* Steps that are not of a match, and leave the committed graph alone.
<1>3. ASSUME WritersHoldTheirLocks', CommitInv', UNCHANGED CommittedGraph,
             \A u \in Threads : thread'[u] = thread[u] \/ thread'[u].before = {},
             NewsIsInHand'
      PROVE  NewsInv'
    <2>1. RowsAreInTheirSubgraphs'
        BY <1>1, <1>3 DEF RowsAreInTheirSubgraphs
    <2>2. \A u \in Threads : NothingIsRead(u)'
        BY <1>1, <1>3 DEF NothingIsRead
    <2> QED
        BY <1>2, <1>3, <2>1, <2>2 DEF NewsInv
<1>4. ASSUME NEW l \in Lambdas, BatchStep(l) PROVE NewsInv'
    <2>1. BatchMoves(l) /\ UNCHANGED graph
        BY <1>1, <1>4, BatchStepMoves DEF BatchMoves
    <2>2. WritersHoldTheirLocks' /\ CommitInv' /\ UNCHANGED CommittedGraph
        BY <1>1, <1>4, <2>1, BatchStepHolds, BatchStepAside
    <2>3. \A u \in Threads : thread'[u] = thread[u] \/ thread'[u].before = {}
        BY <2>1 DEF BatchMoves
    <2>4. NewsIsInHand'
        BY <1>4, <2>1, <2>2, BatchKeepsNews
    <2> QED
        BY <1>3, <2>2, <2>3, <2>4
<1>5. ASSUME [Next]_vars, UNCHANGED <<graph, thread, batch, untold>>,
             \A w \in Works : queue[w] > 0 => queue'[w] > 0
      PROVE  NewsInv'
    <2>1. UNCHANGED CommittedGraph
        BY <1>5, SameRows
    <2>2. WritersHoldTheirLocks' /\ CommitInv'
        BY <1>1, <1>5, NextHolds, NextSerial
    <2>3. \A n, w : IsWith(n, w) => IsWith(n, w)'
        BY <2>1 DEF IsWith
    <2>4. \A l, w, n : Attends(l, w, n) => Attends(l, w, n)'
        BY <1>5 DEF Attends, Handles, IsBacked, ShowsWith
    <2>5. \A n : IsCovered(n) => IsCovered(n)'
        BY <1>5, <2>3, <2>4 DEF IsCovered
    <2>6. NewsIsInHand'
        BY <1>1, <1>5, <2>1, <2>5 DEF NewsIsInHand, WithSource
    <2> QED
        BY <1>3, <1>5, <2>1, <2>2, <2>6
<1>6. ASSUME NEW v \in Works, PublishAndSend(v) PROVE NewsInv'
    <2>1. queue' = [queue EXCEPT ![v] = queue[v] + 1]
        BY <1>6 DEF PublishAndSend
    <2>2. \A w \in Works : queue[w] > 0 => queue'[w] > 0
        BY <1>1, <2>1
    <2> QED
        BY <1>5, <1>6, <2>2 DEF PublishAndSend, Publish, Next
<1>7. ASSUME NEW k \in LockIds, LambdaExpireLock(k) PROVE NewsInv'
    BY <1>5, <1>7 DEF LambdaExpireLock, ExpireLock, Next
<1>8. CASE UNCHANGED lambdaVars
    BY <1>5, <1>8 DEF lambdaVars, vars
<1>9. ASSUME NEW l \in Lambdas, NEW w \in Works, LambdaStep(<<l, w>>),
             WritersSucceed
      PROVE  NewsInv'
    <2> DEFINE t == <<l, w>>
    <2>1. /\ t \in Threads
          /\ MatchStep(t) \/ CheckIsUnreadable(t) \/ CallFails(t)
        BY <1>9, ThreadsOfLambdas DEF LambdaStep
    <2>2. [Next]_vars
        BY <2>1 DEF Next
    <2>3. WritersHoldTheirLocks' /\ CommitInv'
        BY <1>1, <2>2, NextHolds, NextSerial
    <2>4. \A u \in Threads \ {t} : thread'[u] = thread[u]
        BY <1>1, <2>1, MatchGoesOn
    <2>5. NothingIsRead(t)'
        BY <1>1, <2>1, NothingIsReadYet
    <2>6. \A u \in Threads : NothingIsRead(u)'
        BY <1>1, <2>4, <2>5 DEF NothingIsRead
    <2>7. CASE UNCHANGED CommittedGraph
        <3>1. NewsIsInHand'
            BY <1>9, <2>7, MatchKeepsNews
        <3>2. RowsAreInTheirSubgraphs'
            BY <1>1, <2>7 DEF RowsAreInTheirSubgraphs
        <3> QED
            BY <1>2, <2>3, <2>6, <3>1, <3>2 DEF NewsInv
    <2>8. CASE CompareReads(t) /\ thread[t].reread = thread[t].before
        BY <1>2, <1>9, <2>3, <2>6, <2>8, CommitKeepsNews DEF NewsInv
    <2>9. ASSUME ~UNCHANGED CommittedGraph
          PROVE  CompareReads(t) /\ thread[t].reread = thread[t].before
        <3>1. CASE MatchStep(t)
            BY <1>1, <2>1, <2>9, <3>1, MatchStepSerial DEF Serially
        <3>2. CASE CheckIsUnreadable(t) \/ CallFails(t)
            <4>1. UNCHANGED graph
                BY <3>2 DEF CheckIsUnreadable, CallFails, EndInFailure
            <4>2. thread'[t].toPut = thread[t].toPut
                <5>1. CASE CheckIsUnreadable(t)
                    BY <1>1, <2>1, <5>1 DEF CheckIsUnreadable, Goto, TypeOK, MatchState
                <5>2. CASE CallFails(t)
                    <6>1. thread[t].toPut = {}
                        BY <1>1, <2>1, <5>2, InterruptedStep DEF CallFails
                    <6>2. thread'[t].toPut = {}
                        BY <1>1, <2>1, <5>2 DEF CallFails, EndInFailure, TypeOK, IdleThread
                    <6> QED
                        BY <6>1, <6>2
                <5> QED
                    BY <3>2, <5>1, <5>2
            <4>3. \A u \in Threads : thread'[u].toPut = thread[u].toPut
                BY <2>4, <4>2
            <4> QED
                BY <2>9, <4>1, <4>3, SameRows
        <3> QED
            BY <2>1, <3>1, <3>2
    <2> HIDE DEF t
    <2> QED
        BY <2>7, <2>8, <2>9
<1> QED
    BY <1>4, <1>6, <1>7, <1>8, <1>9 DEF LambdaNext, BatchStep

\* In batches of any size, every row that changed is shown to the merger before
\* the last message is gone: also when the match that wrote it could not say so,
\* when its lambda died, when other matches moved the row in the meantime, or
\* when a match that failed is taken for done because a neighbour's result has
\* its work: that result then shows the news too.  Only a match that fails when
\* it has written its rows, over an unlock, can leave them to such a neighbour
\* that read the table before it wrote; without neighbours it comes back itself.
THEOREM NewsIsNotLost ==
    ASSUME "torn" \notin FaultKinds
    PROVE  LambdaSpec /\ []RereadsFindTheirIds /\ [][WritersSucceed]_lambdaVars
               => []NoNewsIsLost
<1>1. LambdaInit => NewsInv
    <2> SUFFICES ASSUME LambdaInit PROVE NewsInv
        OBVIOUS
    <2>1. BatchInv /\ WritersHoldTheirLocks /\ CommitInv /\ CommittedGraph = {}
        BY InitBatches, InitCommits DEF LambdaInv, LambdaInit
    <2>2. \A t \in Threads : NothingIsRead(t)
        BY DEF LambdaInit, Init, IdleThread, NothingIsRead
    <2>3. RowsAreInTheirSubgraphs /\ NewsIsInHand
        BY <2>1 DEF LambdaInit, RowsAreInTheirSubgraphs, NewsIsInHand
    <2> QED
        BY <2>1, <2>2, <2>3 DEF NewsInv
<1>2. NewsInv /\ RereadsFindTheirIds /\ [WritersSucceed]_lambdaVars
          /\ [LambdaNext]_lambdaVars
      => NewsInv'
    BY NewsStays
<1>3. NewsInv => NoNewsIsLost
    BY DEF NewsInv, NewsIsInHand, NoNewsIsLost, IsCovered, Attends, Handles, InHand
<1> QED
    BY <1>1, <1>2, <1>3, PTL DEF LambdaSpec
=============================================================================
