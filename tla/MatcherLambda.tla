--------------------------- MODULE MatcherLambda ---------------------------
(***************************************************************************)
(* The matcher as deployed: lambdas that take batches of messages from an  *)
(* SQS queue, match the works of a batch concurrently, notify the merger   *)
(* of every result, and hand the messages they think have failed back to   *)
(* the queue (MatcherSQSLambda, StoredWorksMatcher,                        *)
(* SQSBatchResponseLambdaApp).  The thread <<l, w>> is the match of work w *)
(* in the current batch of lambda l.                                       *)
(***************************************************************************)
EXTENDS Matcher, FiniteSetsExt

CONSTANTS
    Lambdas,
    MaxBatch    \* the most messages in a batch

ASSUME LambdaAssumption == Threads = Lambdas \X Works /\ MaxBatch \in Nat \ {0}

VARIABLES
    queue,      \* queue[w]: how many messages about w are in the queue
    batch,      \* batch[l][w]: how many messages about w lambda l is handling
    untold      \* the works whose row no result sent downstream has shown yet

lambdaVars == <<vars, queue, batch, untold>>

Messages == [Works -> Nat]
NoMessages == [w \in Works |-> 0]
Size(messages) == MapThenSumSet(LAMBDA w : messages[w], Works)

\* messagesMap: several messages about a work are one entry, that of the last.
InBatch(l) == {w \in Works : batch[l][w] > 0}

LambdaInit ==
    /\ Init
    /\ queue = NoMessages
    /\ batch = [l \in Lambdas |-> NoMessages]
    /\ untold = {}

----------------------------------------------------------------------------
\* The id minter writes a work and then sends its id.
PublishAndSend(w) ==
    /\ Publish(w)
    /\ queue' = [queue EXCEPT ![w] = @ + 1]
    /\ UNCHANGED <<batch, untold>>

\* A lambda takes a batch and fetches all of its works at once.
StartBatch(l, messages) ==
    /\ batch[l] = NoMessages
    /\ messages # NoMessages
    /\ Size(messages) <= MaxBatch
    /\ queue' = [w \in Works |-> queue[w] - messages[w]]
    /\ batch' = [batch EXCEPT ![l] = messages]
    /\ thread' = [t \in Threads |->
           IF t[1] = l /\ messages[t[2]] > 0
           THEN [IdleThread EXCEPT !.state = "starting", !.work = t[2],
                                   !.rev = index[t[2]]]
           ELSE thread[t]]
    /\ UNCHANGED <<index, graph, locks, latest, faults, untold>>

\* One step of the match of one work.  A row that a put changes is news.
LambdaStep(t) ==
    /\ MatchStep(t) \/ CallFails(t) \/ CheckIsUnreadable(t)
    /\ untold' = untold \union {n.id : n \in WithSource(graph' \ graph)}
    /\ UNCHANGED <<queue, batch>>

Results(l) == {<<l, w>> : w \in {v \in InBatch(l) :
                                    thread[<<l, v>>].state = "matched"}}

AllEnded(l) ==
    /\ InBatch(l) # {}
    /\ \A w \in InBatch(l) : thread[<<l, w>>].state \in Ended

\* The rows that the results of the threads in sent are made of.
Shown(sent) == UNION {thread[t].after : t \in sent}

\* The ids that occur in a result, whichever work the result is for.
FoundIdentifiers(l) == {n.id : n \in WithSource(Shown(Results(l)))}

\* Mutant: no message is ever reported as failed.
NothingIsMissing(l) == {}

\* findMissingMessages: the works of the batch that occur in no result.
MissingMessages(l) == InBatch(l) \ FoundIdentifiers(l)

EndBatch(l, returned) ==
    /\ queue' = [w \in Works |-> queue[w] + returned[w]]
    /\ batch' = [batch EXCEPT ![l] = NoMessages]

ThreadsOver(l) ==
    thread' = [t \in Threads |-> IF t[1] = l THEN IdleThread ELSE thread[t]]

\* Every result was sent.  Only the messages reported as missing come back,
\* one for each work.
FinishBatch(l) ==
    /\ AllEnded(l)
    /\ EndBatch(l, [w \in Works |-> IF w \in MissingMessages(l) THEN 1 ELSE 0])
    /\ ThreadsOver(l)
    /\ untold' = untold \ {n.id : n \in Shown(Results(l)) \intersect graph}
    /\ UNCHANGED <<index, graph, locks, latest, faults>>

\* Mutant: a failed notification does not fail the batch.
NotifyFailsQuietly(l) ==
    /\ AllEnded(l)
    /\ Fault("call")
    /\ \E sent \in SUBSET Results(l) :
           /\ sent # Results(l)
           /\ untold' = untold \ {n.id : n \in Shown(sent) \intersect graph}
    /\ EndBatch(l, [w \in Works |-> IF w \in MissingMessages(l) THEN 1 ELSE 0])
    /\ ThreadsOver(l)
    /\ UNCHANGED <<index, graph, locks, latest>>

\* Some result could not be sent: the lambda throws, and the whole batch comes
\* back, although the other results did reach the merger.
NotifyFails(l) ==
    /\ AllEnded(l)
    /\ Fault("call")
    /\ \E sent \in SUBSET Results(l) :
           /\ sent # Results(l)
           /\ untold' = untold \ {n.id : n \in Shown(sent) \intersect graph}
    /\ EndBatch(l, batch[l])
    /\ ThreadsOver(l)
    /\ UNCHANGED <<index, graph, locks, latest>>

\* The lambda runs out of time or crashes: its messages become visible again,
\* its locks stay until they expire.
LambdaDies(l) ==
    /\ InBatch(l) # {}
    /\ Fault("death")
    /\ \A w \in InBatch(l) :
           thread[<<l, w>>].state \in Running => Interruptible(<<l, w>>)
    /\ Abandon({l} \X Works)
    /\ EndBatch(l, batch[l])
    /\ ThreadsOver(l)
    /\ UNCHANGED <<index, graph, latest, untold>>

\* SQS delivers a message that is being handled once more.
Redeliver(l, w) ==
    /\ batch[l][w] > 0
    /\ Fault("redelivery")
    /\ queue' = [queue EXCEPT ![w] = @ + 1]
    /\ UNCHANGED <<index, graph, locks, thread, latest, batch, untold>>

LambdaExpireLock(k) == ExpireLock(k) /\ UNCHANGED <<queue, batch, untold>>

\* Any messages that are in the queue, in any order, as SQS pleases.
StartAnyBatch(l) ==
    \E messages \in {f \in [Works -> 0..MaxBatch] :
                        \A w \in Works : f[w] <= queue[w]} :
        StartBatch(l, messages)

LambdaNext ==
    \/ \E w \in Works : PublishAndSend(w)
    \/ \E l \in Lambdas :
           \/ StartAnyBatch(l)
           \/ FinishBatch(l)
           \/ NotifyFails(l)
           \/ LambdaDies(l)
           \/ \E w \in Works : LambdaStep(<<l, w>>) \/ Redeliver(l, w)
    \/ \E k \in LockIds : LambdaExpireLock(k)

LambdaSpec == LambdaInit /\ [][LambdaNext]_lambdaVars

----------------------------------------------------------------------------
LambdaTypeOK ==
    /\ TypeOK
    /\ queue \in Messages
    /\ batch \in [Lambdas -> Messages]
    /\ untold \subseteq Works

\* The table holds what the current revision of w says.
IsCurrent(w) ==
    \E n \in graph : /\ n.id = w
                     /\ n.sourceWork = SourceData(w, Revisions[w][index[w]])

\* Somebody still has a message about w to handle.
InHand(w) == queue[w] > 0 \/ \E l \in Lambdas : batch[l][w] > 0

\* A published work that the graph does not have as it is now has a message that
\* is still to be handled (StoredWorksMatcher.scala: "the caller will check
\* whether all expected works are in the output list").
NoUpdateIsLost ==
    \A w \in Works : index[w] > 0 /\ ~IsCurrent(w) => InHand(w)

\* The table has source data of w.
IsStored(w) == \E n \in WithSource(graph) : n.id = w

\* A published work of which the graph has nothing, or a placeholder, has a
\* message that is still to be handled, however large the batches are: a
\* placeholder in the result of a neighbour does not stand for the work itself
\* (WorkMatcher.scala: "We only send identifiers that correspond to real Works").
NoWorkIsLost ==
    \A w \in Works : index[w] > 0 /\ ~IsStored(w) => InHand(w)

\* Once nothing is in hand, every row has been shown to the merger, whatever
\* failed between the put and the notification: the match that skips the
\* write still reports the whole subgraph.
NoNewsIsLost ==
    (\A w \in Works : ~InHand(w)) => untold = {}

\* The states of a match that has passed the check.
Checked == FirstReading \union {"updated"} \union HoldingSubgraphs

\* The copy of w that its match in the batch of l was given is still current.
HasCurrentCopy(l, w) ==
    Revisions[w][thread[<<l, w>>].rev] = Revisions[w][index[w]]

\* The match of t has passed the check with a copy that is out of date since.
IsOutdated(t) ==
    /\ thread[t].state \in Checked
    /\ Stub(t) # Revisions[thread[t].work][index[thread[t].work]]

\* What findMissingMessages takes for granted of a work that failed with its
\* current copy and occurs in the result of a neighbour in its batch: that the
\* graph has the work as it is now, and that no match under way is about to
\* write an earlier revision.
FoundWorksAreStored ==
    \A l \in Lambdas : AllEnded(l) =>
        \A w \in InBatch(l) \intersect FoundIdentifiers(l) :
            thread[<<l, w>>].state = "failed" /\ HasCurrentCopy(l, w) =>
                IsCurrent(w) /\ \A m \in Lambdas : ~IsOutdated(<<m, w>>)

\* A match that has written its rows does not fail on the way out, as it does
\* when an unlock fails (WorkMatcher.failureToException: FailedUnlock), unless it
\* has its batch to itself.
WritersSucceed ==
    \A l \in Lambdas, w \in Works :
        thread[<<l, w>>].state = "putting" /\ InBatch(l) # {w} =>
            thread'[<<l, w>>].state # "failed"

\* The graph catches up with works-identified for good once no more works are
\* published.
GraphCatchesUp ==
    <>[](\A w \in Works : index[w] > 0 => IsCurrent(w))

----------------------------------------------------------------------------
(***************************************************************************)
(* A lambda that has been given work goes on with it, SQS goes on          *)
(* delivering what is in the queue, a lock of the dead expires, and two    *)
(* matches that want the same locks do not forever try to take them at the *)
(* same moment: a message that comes back waits for its visibility timeout *)
(* while the other match goes on.                                          *)
(***************************************************************************)
Fairness ==
    /\ \A l \in Lambdas, w \in Works :
           WF_lambdaVars(LambdaStep(<<l, w>>) /\ faults' = faults)
    /\ \A l \in Lambdas : WF_lambdaVars(FinishBatch(l))
    /\ \A w \in Works :
           /\ SF_lambdaVars(\E l \in Lambdas : StartAnyBatch(l) /\ batch'[l][w] > 0)
           /\ SF_lambdaVars(\E l \in Lambdas :
                  LockWorkIds(<<l, w>>) /\ UNCHANGED <<queue, batch, untold>>)
           /\ SF_lambdaVars(\E l \in Lambdas :
                  LockSubgraphs(<<l, w>>) /\ UNCHANGED <<queue, batch, untold>>)
    /\ \A k \in LockIds : WF_lambdaVars(LambdaExpireLock(k))

FairLambdaSpec == LambdaSpec /\ Fairness
=============================================================================
