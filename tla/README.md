# Catalogue pipeline: a verification development

TLA+ models of the Wellcome Collection catalogue pipeline, TLC runs that check
them on small instances, and TLAPS proofs of what holds for instances of every
size. Paths are relative to the repository.

Run a check with `tlc -config <run>.cfg <module>.tla`, a proof with
`tlapm <module>.tla`. `PROJECT.json` lists the runs, what each is about, the
lines that every definition models, and the hazards the properties are for.

## 1. The system

Records of several catalogues become works, works get canonical ids, works
that describe one thing are grouped and merged, and the result is indexed.

```
adapters -> transformers -> works-source -> id minter -> works-identified
                                                              |  ids, SNS/SQS
   works-indexed <- ingestor, graph <- works-denormalised <- merger <- matcher
```

Every arrow from the id minter to the merger is an SQS queue that says only
*which* work or *which* group of works to look at; the content is read from an
Elasticsearch index when the message is handled, and may have changed by then.

| part | state | operations | what is hard | what makes it correct |
|---|---|---|---|---|
| **matcher** `pipeline/matcher_merger/matcher` | graph table and lock table in DynamoDB | match a work; lambda over a batch | concurrent matches of one subgraph, stale copies, non-atomic writes, partly failed batches, dead holders of locks | the table is what whole updates in some order leave; groups are the connected components; no update is lost or reverted; the merger hears of every change |
| **merger** `pipeline/matcher_merger/merger` | works-denormalised, images-initial | merge the works of a group; lambda over a batch of groups | results out of order, works read later than the result, refused documents, groups that only share an image | the indexes come to hold the merge of the current groups; no work, digitisation or image is lost or doubled |
| **id minter** `catalogue_graph/src/id_minter` | MySQL registry and pool of free ids; works-identified | look up, mint, inherit from a predecessor, top up | races of two transactions for one source id or one free id; stale snapshots; lost connections | a source id has one canonical id for ever; a free id is nobody's; predecessor and successor agree |
| **OAI-PMH adapters** `catalogue_graph/src/adapters` | adapter store and window store (Iceberg) | trigger, harvest windows, publish, stamp | crash between records and their window's row, failed windows behind later ones, records that move on while they are listed | no window is marked that is not stored; every stored change is published |
| **adapter store** `adapters/utils` | Iceberg table | incremental update, snapshot sync | versions in any order, deletions that must keep content, records that come back | the newest version of a record wins; the table is the last snapshot |
| **TEI adapter** `tei_adapter` | tree in S3, path id table in MySQL, adapter store | poll the repository, follow ids from path to path, store, tell the transformer | moves that swap paths, deletions that overtake changes, transactions that fail after they have sent | the catalogue comes to hold the manuscripts of the tree; one that only moves is never deleted |
| Sierra adapter `sierra_adapter` | versioned stores | link items, holdings and orders to bibs, merge them | updates in any order, links that move | the newest record of each source wins |
| METS, Calm adapters, EBSCO download | versioned stores, S3 | store, delete | conditional writes | the same |
| transformers `pipeline/transformer`, `adapters/transformers` | none | map one record to works | none that is not data | |
| reindexer `reindexer` | none | scan and send again | parallel scan segments | every record is sent |
| graph `catalogue_graph/src/graph`, ingestor `ingestor` | Neptune, works-indexed | load, remove, ingest windows over merge time | works that move between windows, removal thresholds | nothing indexed stays behind |
| inferrer `pipeline/inferrer` | images-augmented | features of an image | | |

The parts in bold are modelled. The matcher is where the concurrency is: many
lambdas change one shared graph under locks that never wait, that expire, and
that cover only a part of what is read. It comes first, and the id minter
second: everything downstream hangs on a work's canonical id staying the same.

### How a match runs

`WorkMatcher.matchWork` gets a copy of a work that was fetched *before* it
takes any lock.

1. Lock the ids of the work and of its merge candidates. A lock that is taken
   fails the match; the message returns to the queue.
2. Fetch the work again; fail if it is not the copy it has.
3. Read the rows of those ids, and then, one query each, the rows of their
   subgraphs.
4. Compute the new rows of the subgraph (`WorkGraphUpdater.update`). If none
   differs from what was read, the result is made of them and the match ends.
5. Lock the ids of the subgraphs before and after.
6. Read again as in 3; fail if anything differs.
7. Write every row, in batches that are not atomic, and unlock.

`MatcherSQSLambda` runs the matches of a batch concurrently, sends every
result to the merger, and reports as failed those messages whose work occurs in
*no* result of the batch.

### How ids are minted

`MintingResolver.mint_ids` is one MySQL transaction (REPEATABLE READ) for all
the source ids of a chunk of works.

1. Look up the source ids and their predecessors, without locks.
2. Raise if two requests name different predecessors, if a registered source id
   disagrees with its registered predecessor, or if a predecessor is missing.
3. Insert the rows that inherit; a row that is there already is left alone. Read
   them again, FOR SHARE, and raise if one has another id.
4. Claim a free id for each other row, skipping those that others have locked.
5. Insert the new rows in the same way.
6. Read them again, FOR SHARE: that is what is returned.
7. Mark as assigned only the claimed ids that the rows have now, and commit.

Any exception rolls everything back. Beside it, `pregenerate.top_up_ids` counts
the free ids and inserts random ones, twice at most.

### How a group is merged

A message of the matcher is a set of groups of ids and the time it was made.
`MergerSQSLambda` runs a batch through `MergeProcessor`:

1. Fetch the works of every group, as they are now (`IdentifiedWorkLookup`),
   whatever version the matcher saw.
2. Merge every group: keep works apart that hang together only by a Miro image
   or by a physical bib with several e-bibs, choose the target, give it the
   items, images and redirects the rules find, make inner works from the stubs
   of a TEI work, delete those that have gone.
3. Write the works, then the images, each under the result's time; an older
   time never replaces a newer one.
4. Report the messages that have a document Elasticsearch refused, and announce
   the images of the others. What SNS answers is not looked at.

### How records are harvested

One state machine (`infra/adapters/modules/adapter/state_machine.tf`) runs one
execution at a time.

1. The trigger takes a range: from the end of the last *published* window, or
   an uncovered gap before it, to now.
2. The loader cuts it into windows, drops those that are stored and published,
   reports again those that are only stored, and harvests the others: a batch
   is written to the store as a changeset, and then the window's row, as
   `partial_success`, names the changeset. When the listing ends the row says
   `success`, `partial_success` or `failed`.
3. An event carries the changesets to the transformer.
4. The successful windows of the response are stamped as published.

### How a manuscript moves

The updater compares the tree with the one it has stored, sends every change by
path, then every deletion, and then stores the tree. The id extractor holds, in
MySQL, which id is at which path; it turns a change by path into changes by
id: the manuscript at the path, and the deletion of one whose path was taken.
The adapter keeps the newest of each id and tells the transformer. Both wait
with deletions, so that a move is not a deletion for a while.

## 2. The modules

An arrow reads "is used by":

```
WorkGraph -> SerialMatcher -> (refined by) Matcher -> MatcherLambda
WorkGraph, MergeRules -> Merger
IdRegistry -> (refined by) IdMinter
AdapterTable -> AdapterStore
AdapterTable, WindowCoverage -> WindowHarvest
TeiAdapter
```

Proofs are in `<module>Proofs`, instances for TLC in `MC<module>`.

**WorkGraph** - `workgraph/WorkGraphUpdater.scala` and the grouping in
`WorkMatcher.toMatchedIdentifiers`, as pure operators on sets of rows. A
subgraph id is a SHA-256 of sorted ids in the code and the set of ids here
(two sets with the same hash are not considered). `Component` defines a
connected component by the sets no link crosses, instead of by a traversal.
The successive contents of each work are the constant `Revisions`; a
document's attributes that matching ignores are the number `other`, because
`checkWorkIsCurrent` compares them all the same. Source identifiers are not
kept: a work's never changes.

**SerialMatcher** - what the matcher promises. Its only action does a whole
match at once, for any revision of any work, in any order.

**Matcher** - concurrent matches. A `thread` is the local state of one
`matchWork`; each action is one call to Elasticsearch or DynamoDB, or one
decision between two of them:

| action | code |
|---|---|
| `Publish` | the id minter indexes a newer content of a work (environment) |
| `StartMatch` | the copy is fetched (`StoredWorksMatcher.retrieveWorks`) |
| `LockWorkIds`, `LockSubgraphs`, `LockingFails` | `withLocks`, steps 1 and 5 |
| `CheckWorkIsCurrent` | step 2 |
| `GetDirectlyAffected`, `QuerySubgraph` | steps 3 and 6, one call at a time |
| `UpdateGraph` | step 4: version conflict, nothing to write, or go on |
| `CompareReads`, `PutNode`, `FinishPut` | steps 6 and 7, one row at a time |
| `Collect` | the caller takes the outcome |
| `CallFails`, `CheckIsUnreadable`, `Die`, `ExpireLock` | faults |

The lock service is a library outside the repository, modelled by how it is
used: all locks of a call or none, released in whatever way the match ends, a
failed unlock leaving the lock to expire. Locks are taken in one step; that the
library takes them one by one is visible only when two matches get in each
other's way, and `LockingFails` allows that. An `Orphan` owns the locks of a
match that is gone.

**MatcherLambda** - lambdas, the queue and what the merger has been told, on
top of `Matcher` with `Threads = Lambdas \X Works`. Messages are numbers of
messages for each work, because their bodies are ids and SQS keeps no order. A
batch with several messages for a work makes one match, and when it fails only
one of the messages is handed back (`messagesMap` keeps the last). `untold` is
history: the works whose row has changed since a result with that row reached
the merger.

**IdRegistry** - what the id minter promises: rows are registered once, for
ever, each with an id that no other row has or with that of a predecessor that
was registered before.

**IdMinter** - concurrent calls of `mint_ids`, and the generator. `registry`
and `pool` are the two tables as committed; `minter[m]` is a call with what its
transaction has seen (`found`), written, locked and claimed.

| action | code |
|---|---|
| `LookUp`, `LookUpFails` | steps 1 and 2 |
| `InsertInherited`, `InsertNew` | steps 3 and 5, one row at a time |
| `CheckInherited`, `InheritanceFails` | step 3, the locking read |
| `Claim`, `PoolExhausted` | step 4 |
| `Commit`, `CommitReplyIsLost` | steps 6 and 7; the second when the connection goes with the answer |
| `StatementFails` | any statement, and the rollback |
| `Collect` | the transformer takes the outcome |
| `CountFreeIds`, `SaveNewIds`, `GeneratorStops` | `top_up_ids` |

MySQL is modelled by what the code expects of it, and says in its comments: a
plain read returns the snapshot that the first one took, a locking read what is
committed and the transaction's own writes; an insert of a row, a duplicate one
included, locks the row to the end; rows become visible at the commit. The
order of the rows of one insert is free. A wait that takes too long and a
circle of waits are `StatementFails`; gap locks and those of foreign keys only
add waits. `SourceId` has a collation that ignores case and accents, so that
the requested source ids (`SourceIds`) and the rows (`Rows`) are two sets,
related by `RowOf`.

**MergeRules** - `merger/services` and `merger/rules`, as pure operators from
the works of one matched group to the works and images that are indexed. A
group is a set, and a work has its `place` in the list that was fetched, which
decides between equals (`ComesFirst`). A work is what the rules ask about: its
source, status, items with the kinds of their
locations, format, whether it is `digmiro`, its candidates in order and which
of them are MARC 776 pairs, its stubs and lost parts. `Components` are the parts
of a group that no link leaves and that have no such part of their own, which is
what the fold of `partitionSharedMiro` computes. Which thumbnail, other
identifiers and licences the target shows does not decide what is merged with
what and is left out. `PartitionSharedMiro` and `PartitionAudiovisual` cut a
group before it is merged.

**Merger** - lambdas, the queue of results, and the two indexes, over
`MergeRules`; the matcher that makes the results is what `SerialMatcher`
promises (`Match`), so that its groups follow one another in time (`clock`). The
matcher's groups are sets; a message has each in some order, one of the
scenario's `orders`, which it keeps when it is delivered again. `Merged` is the
merge of every group there can be.

| action | code |
|---|---|
| `Publish`, `Match` | the id minter and the matcher (environment) |
| `Receive`, `FetchAndMerge` | steps 1 and 2, one group at a time |
| `IndexDocument` | step 3, one document at a time, works before images |
| `Finish` | step 4 |
| `FetchFails`, `RefuseDocument`, `CallFails`, `Redeliver`, `NotifyFails` | faults |

The batch of `processBatched` is modelled because one environment sets
`merger_batch_indexing` (`2026-10-20/main.tf`). It is off by default, and each
message is then indexed by itself: the scenarios with batches of one cover that.

**AdapterTable** - `PipelineStore` and `AdapterStore`: inserts, updates,
filters, the content that deletions keep, and the commit that tags rows with
their changeset. A changeset is the set of records and dates it writes instead
of a random id; `CommitChangeset` is one Iceberg commit.

**AdapterStore** - one store under an incremental or a snapshot loader.

**WindowCoverage** - `WindowGenerator`, `WindowReporter`'s gaps and the gaps
the trigger retries, as operators on intervals of minutes.

**WindowHarvest** - the state machine, the window store and the source, one
action per step that a crash can separate from the next:

| action | code |
|---|---|
| `Tick`, `Modify` | time, and a record that changes at its source (environment) |
| `Trigger`, `Backfill` | `build_window_request`; an operator's range |
| `StartLoader`, `StartWindow` | `harvest_range`, and the row a window is resumed from |
| `ProcessBatch`, `SaveProgress` | `_process_single_batch`: the commit, and then the row |
| `FinishWindow`, `FinishLoader` | the end of `process_window`, and the response |
| `PublishEvent`, `MarkPublished` | the event, and `mark_published` |
| `BatchFails`, `LoaderIsRetried`, `ExecutionFails` | faults; the state machine starts a failed loader again with the same event |

**TeiAdapter** - updater, id extractor and adapter, with their three queues:

| action | code |
|---|---|
| `Push` | the repository (environment) |
| `Poll` | `tei_updater.py` |
| `HandlePath` | `PathIdManager`, one transaction, with its sends before its commit |
| `HandleId` | `TeiAdapterWorkerService`: store, and tell |
| `PollFails`, `HandlePathFails`, `TellFails`, and `late` | faults: a poll that stops, a rollback after sends, a message to the transformer that is not sent, a message delivered again |

`Patient` stands for the delays: half an hour in the id extractor, two minutes
in the adapter, half an hour between polls. When it holds, deletions come after
the changes of their poll, and changes after those of earlier polls.

The **MC** modules give the constants: three works and two threads, or two
works and two lambdas; two minters, four source ids and three canonical ids;
for the others see the next section. `MCMergeRules` and `MCWindowCoverage` also
hold the little state machines that grow every group of works and every set of
windows.

## 3. The runs

| run | instance | shows |
|---|---|---|
| `serial` | three works, every content at two versions | components, subgraphs and independence of updates, in every order of updates |
| `faults` | B->A->C with C a placeholder, B drops its link; two threads, two faults | locks protect their holder; every interleaving is serial |
| `lambda` | B->A, B drops its link; two lambdas, one message per batch; one fault, fairness | nothing is lost, the merger hears of everything, nothing reverts, the graph catches up |
| `minter` | a source id in two spellings, a successor of it, a third; two minters, three ids, the generator | no id is given twice, lost or changed; the result is what is registered |
| `store` | two records, one edited, deleted and restored, in any order; or four snapshots | the newest version wins; the table is the snapshot; content stays |
| `coverage` | up to four windows in eight minutes, windows of three | gaps are what is not covered; reruns find their windows |
| `harvest` | two records, three minutes, two windows a run, batches of one; a backfill; two faults, fairness | what is marked is stored; nothing stored is forgotten; all of it is published |
| `merge_rules` | every group of four works of nine shapes, or five of the audiovisual ones | nothing lost or doubled, nothing merged with what it should not be |
| `merger` | a picture and its METS work that part, two equal pictures, a digitisation that is withdrawn, a manuscript that loses its part, one deleted with it; two lambdas, one fault, fairness | the indexes come to hold the merge of the current groups |
| `tei` | three paths, two manuscripts, two pushes of any trees; one fault | one path for an id; the catalogue is the tree; moves are not deletions |
| `lambda_batch`, `harvest_unrecorded` | | the two findings of section 4 |

The properties:

- `ComponentsAreConnections`, `LinksStayInSubgraph`: the stored groups are the
  connected components of the *whole* table's live links, though an update
  reads only the subgraphs it names. The second is why that suffices.
- `OnlyTheMatchedWorkChanges`: an update that rewrites every row of a subgraph
  still changes what is known of one work, and never to an older version.
- `SerialSpec`: the table, seen with the puts under way completed, changes as
  `SerialMatcher` does. The commit point of a match is its second read. That
  this holds with locks on the first ids alone at the first read, and with
  subgraph locks taken afterwards, is the heart of the matcher's design; the
  mutant that skips the comparison breaks it.
- `GraphNeverReverts`: an older content never replaces a newer one of the same
  version, for which `checkWorkIsCurrent` was added.
- `WritersHoldTheirLocks`: no writer loses a lock to another.
- `NoUpdateIsLost`, `NoNewsIsLost`, `GraphCatchesUp`: the at-least-once side.
  The listed run has batches of one, for a reason that `lambda_batch` shows;
  what remains true of larger ones is proved (section 5), and checked with
  batches of two by `MCMatcherLambdaBatches`, to be run by hand: a work of which
  the graph has nothing is not lost (`NoWorkIsLost`), and the merger hears of
  every change if writers succeed (`NoNewsIsLost` under `WritersSucceed`).
- `RegistrySpec`: the committed rows change as `IdRegistry` does. The mutant
  that claims ids without a lock gives one id to two source ids.
- `PoolMatchesRegistry`: an id is marked as assigned if and only if a row has
  it. An id claimed by the loser of a race goes back to the pool.
- `ReturnedIdsAreRegistered`: what `mint_ids` returned is still what the
  registry holds, for the source id and for its predecessor. The mutant that
  does not read inherited rows again returns an id that the registry does not
  have.
- `NewestVersionWins`, `TableMatchesSnapshot`, `ContentIsKept`: rows are
  compared by content alone and gated by date, and deletions come without
  content; these say what that adds up to over any sequence of deliveries.
- `GapsAreTheUncoveredMinutes`, `RerunsFindTheirWindows`: the interval
  arithmetic, against the set of minutes it is about. A window is keyed by its
  ends, so that a rerun that cuts elsewhere would harvest everything again.
- `SuccessWindowsAreStored`: a record dated in a window marked as harvested is
  in the store as the source has it, though it may have moved out of the window
  while it was listed and though other batches of the window have failed.
- `NoChangeIsHidden`: every changeset in the store was in an event, or is in a
  row that is not stamped, or with the execution under way.
- `EverythingIsPublished`: each record comes to be stored and its changeset
  published, unless an execution died.
- `EveryWorkComesOutOnce`, `DigitisationIsKept`, `NoPoolingThroughMiro`,
  `ImagesHaveOneParent`, `EbibsKeepTheirMets`: rules are chosen one by one by
  predicates on works and their links; these relate the choices of all of them.
- `SettledDocumentsAreCurrent`, `IndexesCatchUp`: when there is nothing left to
  do the indexes hold the merge of the current works in the matcher's current
  groups, although works are merged in groups made for other versions of them.
- `LostPartsAreDeleted`: an inner work has no message of its own; its deletion
  is a document of its parent's merges and can be overtaken by an older one.
- `ImagesAreAnnounced`: an image of the current works is announced after it was
  last stored, also when other documents of its batch were refused.
- `StoredIsToldOrPending`: a retry that finds nothing to change must still tell
  what the first attempt changed.
- `QuietCatalogueMatchesTree`, `MovedManuscriptsStay`: the catalogue follows
  the tree, and a manuscript that was in every tree is never deleted. The second
  is a matter of dates: a deletion by path deletes the manuscript of whatever row
  it finds, and only if the row is older; each manuscript must have gone from a
  path before the deletion of that path is handled.

### Bounds, and why they are enough

*Matcher.* Two concurrent matches are enough for every race that the locks and
the comparison are for: each relates one match's reads to another's writes. The
proofs of section 5 are for any number of them, and what they had to assume is
the one race that needs four works and two other matches in between
(`MCMatcherMoved`); `MCMatcherReads` checks over the instance of `faults` that
it does not occur there. Three works are the smallest chain with an end that the
first locks do not cover, the case the comment in `writeUpdate` describes; two
works with a cut are the smallest for acknowledgement. Two faults allow a death
in the retry of what failed. `MaxFaults` bounds failures, deaths, unreadable
checks and redeliveries together, `FaultKinds` says which are in a run,
`MaxBatch` bounds a batch, and the length of `Revisions[w]` the publications of
a work.

*Id minter.* Two calls meet in every way over one row and one id; `MCBatches`
has a batch for each way a source id is resolved and each way a call can fail,
with two ids wanted at once; three ids, of which the generator keeps two free
(`Desired`), make the pool run dry and let the generator draw an assigned id
again. Nothing else is bounded there: calls are repeated for ever.

*Adapter store.* One record with an edit, a deletion and a restoration and one
with a deletion and a restoration, in batches together or alone; four
snapshots, so that a record comes, goes and comes back while another changes.
A record does not return to content it had: section 4 says what happens then.

*Harvest.* `MaxNow` is the last minute and `LastChange` the last in which a
record changes: three minutes make a window that fails, one that succeeds after
it, and one in which both are retried. `MaxPending` is how many windows a run
harvests, `BatchSize` one record, so that a window has two batches and each can
fail alone; `Backfills` is one range behind the cursor. `MaxLag`, the circuit
breaker, is too high to trip: with it tripped an operator has to act.
`Lookback` is two windows. In `coverage`, four windows can nest, touch, overlap
and leave gaps at either end of every range.

*Merger.* `merge_rules` has every group with every permitted set of links up to
its bound: the smallest groups in which a partition, a pair and a third work
meet have four works, and five in the audiovisual case. In `merger` a scenario
is a set of works, the size of a batch and the orders of groups; only the
picture has batches of two, in which a refused document is of one message and
not of the other. Works that change have two contents. In one scenario the group
of two equal pictures comes in either order, and the first of them is the
target; in one the image is withdrawn while a message that stored it is still to
be tried again.

*TEI.* Two pushes make a move and a move back, or a swap of paths through a
third; a text `y` is only A's, since texts are compared and not read. `MaxFaults`
is one: `poll`, `send`, `announce` and `again` each with every interleaving. That
is not enough for everything: it takes four pushes until a message that is
delivered again does harm (`MCTeiDuplicate`), which came out of the proof of
`MovedManuscriptsAreKept`.

Symmetry sets are used where nothing compares the values: threads in `faults`,
the works up to their names in `serial`, minters and canonical ids in `minter`,
paths in `tei`. The runs with liveness properties use none.

Matches never stop being possible in `faults`, nor calls in `minter`; these and
`serial` are checked for deadlock. Elsewhere the system rightly stops: a queue
has run dry, all records are delivered, or the time of the instance is over.

### Fairness

`FairLambdaSpec` assumes that a running lambda goes on (weak fairness), that
SQS keeps delivering a message that is in the queue (strong: batches may be
filled with others in between), and that orphaned locks expire. Two matches
that want common locks can make each other fail; a failed message waits for
its visibility timeout, twice the lambda's timeout (`service_matcher.tf:24`),
so they do not meet for ever: strong fairness on taking the locks of a work,
in whichever lambda it is matched. Ten failed
receives send a message to a dead letter queue (`max_receive_count`), which is
not modelled, here or for the merger: liveness is of a system whose messages
are redriven.

`ExpireLock` frees only locks of the dead: the expiry is the lambda's timeout
(`pipeline_services/matcher/locals.tf:11-14`), so that a live holder does not
lose its lock. The mutant `ExpireAnyLock` shows what a shorter one would do.

`Merger!FairSpec` assumes the same of the merger's lambdas and its queue, and
that the matcher gets round to every work, which `GraphCatchesUp` shows of the
matcher itself.

`WindowHarvest!FairSpec` assumes that an execution goes on, that time passes,
and strong fairness of `Trigger`: the schedule fires again and again
(EventBridge), and an operator's backfills do not keep it out for ever. It is
strong because executions in between disable it.

## 4. Where the code and its comments disagree

Two of these are runs of `PROJECT.json`:

- **A failed work can be acknowledged** (`lambda_batch`).
  `findMissingMessages` looks for the work in *any* result of the batch. A batch
  has A and B. The match of B has B's current copy and fails, because another
  match has one of its locks or because its two reads differ; A's, in the same
  batch, reports the group {A, B} with the row that the table has of B from an
  earlier revision. So B's message is acknowledged, and the graph keeps the
  earlier revision until B is published again: nothing retries it, although the
  comment at the comparison says that "the SQS logic" will. A match that fails
  because its copy is *stale* loses nothing, since the newer revision was
  published with a message of its own. `NoNewsIsLost` fails in batches of two
  for the same cause, in one case: B's match writes its rows and then fails on an
  unlock, while A's result is from a read before B's write, and has B. This is
  why `lambda` has batches of one message; the batches of production
  (`batch_size = 100`) have the behaviour of `lambda_batch`.
- **A committed changeset can be published by nobody** (`harvest_unrecorded`).
  A batch is committed before the window's row names its changeset. When the
  loader dies in between, or the row cannot be written and the loader then
  dies, the window is harvested again; the records are unchanged, there is no
  changeset, and the event never carries the first one. This is why `harvest`
  and `NothingIsHidden` exclude the kind `unrecorded`.

The others have a configuration each, to be run by hand with the component's MC
module (`MCMatcher` for those of matches); TLC finds a violation in every one of
them. Each is a reason for a bound of a listed run.

- **The time of an unwritten result can be too new** (`MCMatcherStale`). A match
  with nothing to write does not lock subgraphs or read again, yet stamps its
  result with the current time. Another match can have committed and reported
  in between; the merger, whose writes are ordered by that time, keeps the old
  grouping. `merger` takes its results from the serial matcher, which has no
  such result.
- **An interrupted write can erase a work** (`MCMatcherTorn`). After a failure
  between two rows of a put, the rows of a subgraph have two subgraph ids; a
  later match that finds only one half replaces the other half's works by
  placeholders. `faults` and `lambda` interrupt a put only before its first row
  or after its last.
- **A subgraph that moves twice can be read as none** (`MCMatcherMoved`).
  `findAffectedWorks` reads the rows of the ids, then queries their subgraphs,
  and returns only what the queries found: a row that another match moves to
  another subgraph in between is in neither. In the chain D->C->A->B, the match
  of B sees its row in {A, B}, which C's match moves to {A, B, C} before the
  query; its second read sees it in {A, B, C}, which D's match moves before that
  query. Both reads are empty, so they are equal, and B is written as a work that
  nothing links to, while the table says that it is in {A, B, C, D}. The comment
  in `writeUpdate` says that "the subgraph IDs should be sufficient", and that
  the second read checks that "our graph store data is still correct". The
  theorems about the matcher have the hypothesis that this does not happen
  (`RereadsFindTheirIds`).
- **A check that cannot be made passes** (`MCMatcherUnreadable`). A failed read
  of the one document counts as "not in the store". `lambda` has no such fault.
- **Content that comes back is lost under reordering** (`MCAdapterRecurring`).
  Unchanged content does not update the date of a row; delivered after that, a
  version between the two replaces the newer one.
- **A record that is restored as it was stays deleted** (`MCAdapterRestored`).
  Deletions keep the content, rows are compared by content, and so the restored
  record is no update.
- **A stranded window** (`MCHarvestStranded`). A window that was stored by an
  execution that then died is emitted again only if the next range reaches back
  to it; once a later window is published the cursor is past it, and the gaps
  the trigger retries are of windows that failed, not of loaded ones. `died`
  exempts this from `EverythingIsPublished`; `NoChangeIsHidden` says that the
  row is still there for an operator.
- **Online items of an e-bib are lost** (`MCMergeOnline`). The rule that copies
  them is not reached when a METS work makes the items, and not defined when
  only the e-bib names the bib; the e-bib is redirected all the same, and its
  web links go with it, though the rule's comment says "make sure we copy" them.
- **A deleted work in front** (`MCMergeDeleted`). The target is the first work
  of the highest precedence, and when that one is deleted there is none: works
  that would be merged without it are not, though a test says that it "ignores a
  deleted Work when deciding how to merge the other Works".
- **A lost notification** (`MCMergerUntold`). An image that SNS refuses is not
  announced until its work is merged again. `ImagesAreAnnounced` exempts runs in
  which that has happened (`unheard`).
- **A withdrawn image can stay unannounced.** A message stores an image, fails on
  another document and comes back; meanwhile the digitisation is withdrawn, and
  the message is merged without it. The image stays in images-initial, from which
  nothing is deleted, and no message announces it. Nothing in the code says that
  it should be, since no work has it any more: `ImagesAreAnnounced` is about the
  images of the current works. The proof of it (section 5) is where this came out;
  the scenario of the withdrawn digitisation is in `merger` since then.
- **A poll that stops halfway** (`MCTeiFailedPoll`). What it sent is compared
  with the old tree by the next poll; a file that was put back in between is no
  difference then, and what was sent of it stays. `retry` exempts it.
- **A change that outlasts the delays** (`MCTeiImpatient`). Without `Patient` a
  deletion can be handled before the change that moves the manuscript, and a
  change after one of a later poll.
- **A change that comes again after later polls** (`MCTeiDuplicate`). A deletion
  removes the row, and with it the date by which an old change would be refused.
  Here B takes the path of A, whose own change is still waiting, so that A has no
  row; an old change of A, delivered again, makes one at the path that A left
  first, and the deletion of that path, which was sent when *B* left it, deletes
  A. It is back when its change is handled: the deletions are delayed, as
  `TeiIdExtractorWorkerService` says, because they "could make thing disappear
  temporarily from the api", and the delay does not cover this.
  `QuietCatalogueMatchesTree` holds in the instance.

## 5. Proofs

Of the matcher, for any finite or infinite sets of works and threads, any
contents and any number of faults, from the named assumptions: versions of a
work's contents do not decrease (`RevisionsAssumption`), the special values are
not nodes or threads (`NoSourceAssumption`, `OwnersAssumption`), `MaxFaults` is
a number (`FaultsAssumption`). Of the others, from the assumptions that their
modules name, which TLC evaluates in every run.

**WorkGraphProofs**: what one update returns. `AfterNodesType` and
`PutAllType` (rows, one for each id), `SourcesOfUpdate` and `RowsOfUpdate`
(which rows an update writes and what they say), `ComponentIsConnected` (the
definition by cuts is closed under links and cannot be cut). In a table whose
links stay in their subgraphs (`LinksClosed`), an update reads every row that it
replaces, writes only rows of its ids (`WritesOfUpdate`), spares the subgraphs
that it has not read (`UnreadByUpdate`) and leaves such a table again
(`LinksOfUpdate`). Both matchers are proved from these.

**SerialMatcherProofs**: `SerialTypeCorrect`; `SubgraphsHoldTheirLinks`, whose
induction needs that rows outside the affected subgraphs are untouched and
that no row of an affected one is left out unless nothing links to it;
`UpdatesAreIndependent`; `GroupsAreConnections`. Components alone are not
inductive: that a component of an untouched subgraph stays closed needs that
no link leaves a subgraph, so that the invariant is
`TypeOK /\ LinksStayInSubgraph /\ ComponentsStayInSubgraph /\
ComponentsAreConnections`.

**MatcherProofs**: about `Matcher` and `MatcherLambda`.

- `TypeCorrect` and `LambdaTypeCorrect`, one lemma for each way a match can end
  or go on; for the lambda together with the correspondence of threads and
  batches (`BatchInv`).
- `LockDiscipline`, inductive with the type invariant because only a lock's own
  thread ever releases it and only free locks are taken: a match that may still
  write has every lock it asked for.
- `MatchesAreSerial` and `LambdasAreSerial`, the refinement of `SerialMatcher`.
  The state of the specification is `CommittedGraph`, the table with the puts
  under way completed; it changes when a match passes the comparison, and every
  other step is a stutter. `CommitInv` says why the update that was computed from
  the *first* read is one of `CommittedGraph` at that moment: no link leaves a
  subgraph, so that the subgraphs of the ids are all that the update depends on;
  what the second read finds in a subgraph that the match has locked is all of
  it, and stays so (`RereadsAreCurrent`), because whoever would change it needs
  the same lock; and the rows that others have yet to put are in subgraphs of
  *their* locks (`WritesAreCommitted`), so that completing puts in any order
  gives one table.
- `RowsNeverRevert` and `LambdasNeverRevert`, with `SourceInv`: every row is of
  a published revision; a match that has passed `checkWorkIsCurrent` has one no
  older than the row of its work, and keeps that advantage while it holds the
  work's lock, since the others only copy what that row says.
- `UpdatesAreNotLost`, with `UpdatesAreInHand`, for batches of any size: when
  the table has not the last revision of a work, some message about it is queued
  or with a lambda whose match has not succeeded; and this must hold *beside*
  any match that is about to succeed with a revision that has gone out of date.
  Its hypothesis `FoundWorksAreStored` is what `findMissingMessages` takes for
  granted: when a batch has ended, a work that failed with its current copy, and
  that a neighbour's result has, is in the table as it is now, and no outdated
  match is about to overwrite it. So what `lambda_batch` finds is the only way to
  lose an update. In a batch of one there are no neighbours, and nothing is
  assumed.
- `NewWorksAreNotLost`, with `WorksInv`, is what holds in batches of any size
  without that hypothesis (`NoWorkIsLost`): a published work of which the table
  has nothing, or only a placeholder, has a message in hand. A neighbour's result
  cannot stand for it, as a match knows of no source data but what the table has
  and its own (`KnowsItsWorks`), and a work that the table has stays in it.
- `NewsIsNotLost`, with `NewsInv`, for batches of any size: a row that changed
  and has not been shown is in the subgraph of a work with a message in hand. The
  match of that message, if it is under way, will read the row, has read it and no
  other of its id, or has it in its result (`Handles`); and should it fail, then a
  neighbour's result that has its work, and so takes its message away, shows the
  row too (`IsBacked`). When the row is changed again, a match that is in its way
  fails and returns its message, or the match that changes it takes over. The
  hypothesis `WritersSucceed` excludes only that a match fails after its put, on
  an unlock, in a batch with others: they may have read the table before it wrote.

Their hypotheses are those under which they are true, and each has a run that
shows what happens without it:

| hypothesis | of | without it |
|---|---|---|
| `"torn" \notin FaultKinds` | all but types and locks | `MCMatcherTorn` |
| `[]RereadsFindTheirIds` | the same | `MCMatcherMoved` |
| `"unreadable" \notin FaultKinds` | revisions, `UpdatesAreNotLost` | `MCMatcherUnreadable` |
| `[]FoundWorksAreStored` | `UpdatesAreNotLost` | `lambda_batch` |
| `[][WritersSucceed]_lambdaVars` | `NewsIsNotLost` | `MCMatcherLambdaBatches` without its `ACTION_CONSTRAINT` |

`RereadsFindTheirIds` is about the states of a run and not about constants,
because it fails only by a coincidence of three matches; `MCMatcherReads` checks
it on every state of the instance of `faults`. The kind `torn` and large
batches are also what limits the runs: neither `faults` nor `lambda` has that
kind, and `lambda` has batches of one message. With batches of two,
`MCMatcherLambdaBatches` checks `NoWorkIsLost` and `NoNewsIsLost` under
`WritersSucceed` (113,373 states); `NoWorkIsLost` holds without that constraint
too, and `NoUpdateIsLost` with the constraint `FoundWorksAreStored`.

**IdMinterProofs**: for any sets of minters, source ids, rows and batches, any
finite set of ids and any number of wanted ones (`SourceIdsAssumption`,
`IdsAssumption`), all four properties of `minter`: `MinterTypeCorrect`,
`PoolAgrees`, `ReturnsAgree`, and `MintingImplementsRegistry`, the refinement.
They follow from one inductive invariant, `MintingInv`. Its core is
`WritesAreNew`: a row that a transaction has inserted and not yet committed is
locked by it alone, is not registered, and its id is that of a registered
predecessor or one that is claimed for it; claimed ids are free and each
claimed once (`ClaimsAreFree`, `ClaimsAreExclusive`), so that no other commit
can register the row or use the id. That registered rows never change makes
what the lookup has found (`FoundStays`) and what the locking read has checked
(`InheritedAreChecked`) still true at the commit. `OthersKeep` says it once
for every minter that does not move: its part of the invariant survives
whatever adds rows that it is not inserting and spares the ids that it claims.

**MergerProofs**: first about `MergeRules`, for any group.

- `MergeIsOutcome`: whatever the rules choose, a merge has one document of each
  of its works, one of each part of those that it makes again, images with one
  parent each (`IsOutcome`), and beside them the deletions of lost parts that it
  has not made. It needs that what is merged as one partitions the group
  (`GroupsArePartition`): the components are disjoint and have every work, a Miro
  work goes with one component at most because there is at most one target
  (`TargetIsOne`: places differ), and an audiovisual e-bib keeps the works that
  are linked to no other.
- `MergedAreConnected` and `EbibsKeepWorks`: a work and the target it is merged
  into are in one component without the Miro works, if the whole group is
  connected: either there is one such component, or each of them has a Miro work
  to which it links, and is carved out unless it has the target.
- With `RulesInv` - the works of `MCMergeRules` have their ids for places, and no
  set of them is apart - these are `WorksComeOutOnce`, `ImagesAreOfOneParent`,
  `NothingPoolsThroughMiro` and `MetsStayWithTheirEbib`, for families of any
  shapes and sizes.
- `DigitisationStays`, under a hypothesis stated in it: no family has EBSCO works
  (`NoEbscoWorks`). Each other target takes the items of METS works by the first
  of its rules that takes anything (`MetsAreTaken`); a document that is no inner
  work has no location but its own work's and, if it is the target's, those of
  its group (`LocationsInGroup`), and locations say whose they are (`ShapesInv`).
  Without the hypothesis it does not hold: an EBSCO work as target takes the METS
  work of a picture beside it for its image, and not its item, so that the METS
  work is redirected and its location is nowhere.

Then about `Merger`, for any works, contents, scenarios, lambdas, faults and
batches, all four safety properties of `merger`. What is assumed of the constants
is named in `Merger`: works keep their ids, stubs are made of them, no work is
its own part or has a part that it has lost (`ContentsAssumption`;
`TeiTransformer.scala:76` computes the lost parts as those no longer there); and
a scenario's works are finitely many, share no parts, and a message orders each
of its groups (`MergerAssumption`). That a merge makes documents of its own works
and their parts only, one for each id, and deletes what is lost, follows
(`OutcomeOfGroup`). `MergedKnows` shows that no group that can be fetched is
outside `Merged`.

- `TypeCorrect`, with `Inv`: the graph is one of `SerialMatcher`
  (`GraphInv`), so that its groups are disjoint and an update replaces whole
  groups (`GroupsOfUpdate`); messages have their own creation times and disjoint
  groups of published works (`MessagesInv`); a lambda holds documents of its
  batch only (`LambdasInv`); a stored document is no later than the clock
  (`StoredInv`).
- `SettledIsCurrent` and `ImagesAreHeard`, with `CurrentInv`: of every group that
  no unmatched work belongs to there was a *last* result, at a time t and in an
  order f, such that (`KeepsUp`) no message or stored document of a later time
  has to do with the group's ids, and each of its documents is stored under t,
  or its message is in hand and will yet index it from the works as they are now.
  Three things keep this. A work that is published again is unmatched until a
  later result replaces the group. A merge from works that have changed
  since cannot be in hand, or the group would have an unmatched work. A
  document of an earlier result cannot replace one of t; if it is written first
  it is replaced. An image that waits to be announced has a message that
  will announce it: it has not failed, or it comes back.
- `LostPartsAreGone`: a part that is lost is deleted by a document of its
  parent's group, which is stored by then; and it is the only document under its
  key.

| assumption | without it |
|---|---|
| no parts in common (`MergerAssumption`) | two groups write one document; `Merger.scala:281` warns of it |
| creation times in the order of the matches (`Match`) | `MCMatcherStale` |
| no refused notification (in `ImagesAreAnnounced`) | `MCMergerUntold` |

**AdapterStoreProofs**, and at its head what one update or sync writes, and that
a commit keeps the shape of the table: for any ids, revisions and snapshots,
`StoreTypeCorrect` and `ContentStays`; and, each under a hypothesis stated in
the theorem, `NewestWins` (`ContentsDoNotRecur`: no revision of a record has the
content of an earlier one, nor is there a second deletion) and `SyncsMatch`
(`ReturnsAreFresh`: a record that returns after a deletion has other content
than the row has kept). The hypotheses are what `MCAdapterRecurring` and
`MCAdapterRestored` drop. The invariant behind the first (`DateGate`) dates each
row by its newest delivered revision, and says that its content, if that is a
deletion, is from one that was delivered.

**WindowHarvestProofs**, which begins with the same about incremental updates:
for any ids, contents, windows, backfills and faults, and any number of minutes,

- `HarvestTypeCorrect`, by `TypeInv`: types, and that no window ends after the
  last boundary there has been (`Placements`), which needs that the lookback is
  no shorter than a window and that backfills are aligned;
- `NothingIsHidden`, by `HiddenInv`: a changeset is in the execution's summaries
  or its progress before it is in an event, a summary is a row, and a row is
  stamped only when its changesets were emitted; it needs no types, only that
  `unrecorded` is not among the faults;
- `HarvestedIsStored`, by `StoredInv`: each row of the table is of a version the
  source once had (`TableIsOfSource`), and what a window has seen and not failed
  on is written (`SeenIsWritten`); a record that changes while its window is
  harvested is dated out of it.

It proves both properties of `coverage` as well, of any finite set of windows
and any range (`GapsAreFound`, `RerunsAreFound`); `HarvestTypeCorrect` needs the
first of them for the range that the trigger goes back for.

- Sorting: `Before` orders windows totally, so that the number of windows before
  one (`Rank`) is another for each, and each position is some window's
  (`SortedHasAll`).
- Merging: `MergedFrom` is the invariant of the loop over the sorted windows: the
  intervals so far have the minutes of the windows so far; `MergedApart`, that
  they are in order, and neither overlap nor touch. A step preserves both
  (`MergedFromNext`, `MergedApartNext`), and a least counterexample takes the
  place of an induction over the steps.
- Gaps: before, between and after intervals that are apart is what they do not
  have, each gap by itself (`GapsHaveTheRest`, `GapsAreApart`).
- Windows of a range: each minute is in the one cell of the grid that its
  quotient names (`CellType`), so that the cells have no hole and no overlap
  (`WindowsFillRange`); and where a range begins only changes its first cell
  (`LaterWindowsAreAmong`).

**TeiAdapterProofs**: for any paths, ids, texts, trees, pushes and faults,

- with `Patient` or without, `TeiTypeCorrect` (with `IdsAreUnique`: no handler,
  in any order, makes two rows for a path or an id, so that the database never
  refuses one) and `NothingStoredIsUntold`;
- `QuietCatalogueIsTheTree`, when `Patient` holds. Two invariants say why.
  `OrderInv` orders what is on its way: messages are no newer than the last poll,
  a poll has one message for a path and one for an id, and a row is older than
  any message of its path that is still to be handled for the first time.
  `FollowsTree` says of every manuscript of the saved tree that the last word
  about it is waiting, or is in the path id table and on its way to the store or
  there (`Lives`); and of every other that it never came, or was deleted after
  everything else that was said of it, or that a deletion is waiting that will
  find its row (`Goes`). The quiet states are those in which only the last case
  of each is left;
- `MovedManuscriptsAreKept`, when `Patient` holds and, on the states of the run,
  `DuplicatesArePrompt`. Its `StaysInv` says of a manuscript that stays: a
  message that could take its row comes no earlier than a change of it
  (`RowIsSpared`), also at the paths that it has yet to come to
  (`LeavesInTime`); its deletions by id are older than what is stored of it or
  than a change that comes first (`DeletionsAreTooOld`); and what is delivered
  again brings back no older row (`DuplicatesAreOld`).

Without `Patient` see `MCTeiImpatient`, and without `DuplicatesArePrompt`, which
is about states because messages may be late as long as they do not meet later
ones, `MCTeiDuplicate`.

Only model-checked: the liveness properties, which are outside the prover's
reach: `GraphCatchesUp`, `EverythingIsPublished`, `IndexesCatchUp`.

## 6. What is left out

**Of the modelled parts.**

- Matcher: the global secondary index behind the queries by subgraph id, which
  DynamoDB keeps eventually consistent (the model's reads are current: a lagging
  index could make both reads agree on an old state); the read by ids before them
  (`WorkNodeDao.get`), a BatchGetItem, which is eventually consistent as well and
  no snapshot of its rows, where `GetDirectlyAffected` reads all of them at once
  and as they are; paging of the queries;
  the dead letter queue; messages that cannot be parsed; the older worker for
  ECS.
- Id minter: how the ids are put into a work, the transformer's second try, one
  work at a time, after a batch has failed (to the resolver it is more calls),
  and what the sink and the publication of ids do beyond `Publish`. One
  generator runs at a time.
- OAI-PMH adapters: harvests by id, the reconcile and enrichment states between
  loader and publication, the reloader, the buffered mode of the command line,
  ranges widened over a change of clocks. The loader is retried up to three
  times in production, here as often as `MaxFaults` allows. A backfill is
  aligned at its start (`trigger.py _require_aligned_start`) and is taken to end
  in the past, which the code does not check: one that ends in the future would
  mark minutes that have not happened. Gaps older than the lookback, and a
  backlog above the maximum lag, are the operator's.
- Adapter store: `overwrite_records`, which only the enrichment step uses.
- Merger: thumbnails, other identifiers and licences. The fetch of a group
  (`IdentifiedWorkLookup`) is a multiget and no snapshot across documents, where
  `FetchAndMerge` reads the group at one instant; a work that is published
  between two of its reads gets a later result. Results of the same
  millisecond. An image is never deleted from images-initial, so there is no
  property of images that are gone; an inner work that moves from one parent to
  another is written by both (`Merger.scala:281` warns of it), and no scenario
  has one.
- TEI adapter: which files are TEI files, how their ids are read, S3. Every
  upsert of the adapter makes a new version, also when nothing changes, so that
  what is sent last is what the transformer takes; the numbers are left out.
  Row locks make each transaction atomic.

**Not modelled at all**: the transformers, the adapter's transformer step, the
graph's extractors, loaders and removers, the ingestor, the inferrer, the
reindexer, the Sierra, METS and Calm adapters, the synchronisation from Axiell
to FOLIO, the batch merger, infrastructure, scripts and index mappings. Most of
the repository's lines are of these kinds: mappings of fields that keep no
state, clients and queries, Terraform, notebooks, operators' scripts and
generators of test documents. A model of them would either repeat a table of
fields or say nothing, which is why the map covers a small share of the lines:
it covers those in which order, failure or concurrency decides what happens.

**What would come next**, most important first:

1. The Sierra linker and merger: item messages that are reordered link an item
   to a bib again, and a removal that is retried after a failed send finds
   nothing to change and sends nothing.
2. The id minter's sink: versioned writes and the publication of ids after them,
   in which a crash leaves works that are indexed and not announced.
3. The matcher with a lagging index; `Merger` composed with `Matcher` instead of
   its serial specification.
4. The ingestor's windows over merge time and the graph's removers; the
   reconcile step; Calm's windows and deletion marks; what the synchronisation
   from Axiell to FOLIO does again after a failure.
