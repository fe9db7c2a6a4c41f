--------------------------- MODULE WindowHarvest ---------------------------
(***************************************************************************)
(* The OAI-PMH adapters: a scheduled execution asks the trigger for a      *)
(* range of time, the loader harvests its windows into the adapter store,  *)
(* the changesets are published in an event, and the windows are stamped   *)
(* as published (adapters/steps/oai_pmh, adapters/utils/window_harvester.py *)
(* and the state machine of catalogue_graph/infra/adapters).  The source   *)
(* goes on changing, and whatever runs may fail at any step.               *)
(*                                                                         *)
(* One execution runs at a time: the state machine sees to that.           *)
(***************************************************************************)
EXTENDS AdapterTable, WindowCoverage

CONSTANTS
    MaxNow,         \* bounds the time
    LastChange,     \* the source changes until then
    Lookback,       \* window_lookback_days
    MaxLag,         \* max_lag_minutes
    MaxPending,     \* max_pending_windows
    BatchSize,      \* BATCH_SIZE
    Backfills,      \* ranges that operators ask for
    MaxFaults,      \* bounds the faults
    FaultKinds

ASSUME HarvestAssumption ==
    /\ {MaxNow, LastChange, Lookback, MaxLag, MaxPending, BatchSize, MaxFaults} \subseteq Nat
    /\ MaxPending > 0 /\ BatchSize > 0 /\ Lookback >= WindowMinutes
    /\ Backfills \subseteq [start : Nat, end : Nat]
    /\ \A b \in Backfills : b.start < b.end /\ b.start % WindowMinutes = 0
    /\ 0..MaxNow \subseteq Contents
    /\ FaultKinds \subseteq
           {"list",       \* the source does not answer
            "batch",      \* a batch cannot be written
            "row",        \* the row of a batch cannot be written
            "loader",     \* the loader dies and is started again
            "death",      \* the execution fails
            "unrecorded"} \* either of these between a batch and its row

VARIABLES
    now,
    source,     \* what the OAI-PMH endpoint serves: id -> Update
    table,      \* the adapter store
    rows,       \* the window store
    run,        \* the execution
    emitted,    \* the changesets of the events published
    died,       \* whether an execution failed
    faults      \* how many faults there have been

vars == <<now, source, table, rows, run, emitted, died, faults>>

Window == [start : Int, end : Int]
Changesets == SUBSET SUBSET (Ids \X Nat)

\* WindowSummary, with what the model needs of its tags.
WindowRow ==
    [window : Window, state : {"success", "partial_success", "failed"},
     ids : SUBSET Ids, changesets : Changesets, published : BOOLEAN]

\* The loader's memory of the window it is at: BatchProgress.
BatchProgress ==
    [window : Window, ids : SUBSET Ids, changesets : Changesets,
     succeeded : BOOLEAN, failed : BOOLEAN, seen : SUBSET Ids]

NoProgress ==
    [window |-> [start |-> 0, end |-> 0], ids |-> {}, changesets |-> {},
     succeeded |-> FALSE, failed |-> FALSE, seen |-> {}]

Run ==
    [step : {"idle", "load", "harvest", "window", "batched", "publish", "mark"},
     range : Window, scheduled : BOOLEAN, todo : SUBSET Window,
     summaries : SUBSET WindowRow, progress : BatchProgress]

Idle ==
    [step |-> "idle", range |-> [start |-> 0, end |-> 0], scheduled |-> FALSE,
     todo |-> {}, summaries |-> {}, progress |-> NoProgress]

Init ==
    /\ now = 0
    /\ source = <<>>
    /\ table = <<>>
    /\ rows = {}
    /\ run = Idle
    /\ emitted = {}
    /\ died = FALSE
    /\ faults = 0

----------------------------------------------------------------------------
(***************************************************************************)
(* The environment                                                         *)
(***************************************************************************)
Tick == now < MaxNow /\ now' = now + 1
        /\ UNCHANGED <<source, table, rows, run, emitted, died, faults>>

\* A record is created, edited or deleted, and served from now on with the
\* new date and no other.  A record changes once a minute at most, and the
\* content is the date.
Modify ==
    now <= LastChange /\ \E id \in Ids, deleted \in BOOLEAN :
        /\ id \in DOMAIN source => source[id].lastModified < now
        /\ deleted => id \in DOMAIN source /\ ~source[id].deleted
        /\ source' = [i \in DOMAIN source \union {id} |->
               IF i = id THEN [content |-> IF deleted THEN NoContent ELSE now,
                               deleted |-> deleted, lastModified |-> now]
                         ELSE source[i]]
        /\ UNCHANGED <<now, table, rows, run, emitted, died, faults>>

----------------------------------------------------------------------------
(***************************************************************************)
(* Run trigger                                                             *)
(***************************************************************************)
WindowsOf(rs) == {r.window : r \in rs}
SuccessRows == {r \in rows : r.state = "success"}
Ends(rs) == {r.window.end : r \in rs}

\* The last published window, else the last successful one, else the lookback.
CursorEnd ==
    LET published == {r \in SuccessRows : r.published}
    IN  IF published # {} THEN Max(Ends(published))
        ELSE IF SuccessRows # {} THEN Max(Ends(SuccessRows))
        ELSE now - Lookback

\* The gaps before the cursor, since the first row.
StrandedGaps(cursor) ==
    LET before == {w.start : w \in {v \in WindowsOf(rows) : v.start < cursor}}
    IN  IF before = {} THEN {}
        ELSE CoverageGaps(WindowsOf(SuccessRows), Min(before), cursor)

\* Mutant: gaps behind the cursor are left alone.
StartAtCursor(cursor) == cursor

RequestStart(cursor) ==
    LET retries == RetryStarts(StrandedGaps(cursor), now, Lookback, MaxLag)
    IN  IF retries = {} THEN cursor ELSE Min(retries)

\* build_window_request.
Trigger ==
    /\ run.step = "idle"
    /\ SuccessRows # {} => now - Max(Ends(SuccessRows)) <= MaxLag
    /\ \E start \in {RequestStart(cursor) : cursor \in {CursorEnd}} :
           /\ start < now
           /\ run' = [Idle EXCEPT !.step = "load", !.scheduled = TRUE,
                                  !.range = [start |-> start, end |-> now]]
    /\ UNCHANGED <<now, source, table, rows, emitted, died, faults>>

\* An operator gives the range.
Backfill ==
    /\ run.step = "idle"
    /\ \E range \in Backfills :
           /\ range.end <= now
           /\ run' = [Idle EXCEPT !.step = "load", !.range = range]
    /\ UNCHANGED <<now, source, table, rows, emitted, died, faults>>

----------------------------------------------------------------------------
(***************************************************************************)
(* Run loader                                                              *)
(***************************************************************************)
RowsOf(window) == {r \in rows : r.window = window}
Succeeded(window) == \E r \in RowsOf(window) : r.state = "success"

\* Published windows are finished; loaded ones are emitted again.
ReusedSummaries(windows) ==
    {r \in SuccessRows : r.window \in windows /\ ~r.published}

\* harvest_range, up to the first window.
StartLoader ==
    /\ run.step = "load"
    /\ LET windows == GenerateWindows(run.range.start, run.range.end)
           pending == {w \in windows : ~Succeeded(w)}
       IN  run' = [run EXCEPT
               !.step = "harvest",
               !.todo = {w \in pending :
                             Cardinality({v \in pending : Before(v, w)}) < MaxPending},
               !.summaries = ReusedSummaries(windows)]
    /\ UNCHANGED <<now, source, table, rows, emitted, died, faults>>

\* A window that did not succeed is resumed from its row.
Resumed(window) ==
    LET ids == UNION {r.ids : r \in RowsOf(window)}
    IN  [NoProgress EXCEPT
            !.window = window, !.ids = ids, !.seen = ids,
            !.changesets = UNION {r.changesets : r \in RowsOf(window)}]

StartWindow ==
    /\ run.step = "harvest"
    /\ \E window \in run.todo :
           /\ \A w \in run.todo : window.start <= w.start
           /\ run' = [run EXCEPT
                  !.step = "window",
                  !.todo = @ \ {window},
                  !.progress = Resumed(window)]
    /\ UNCHANGED <<now, source, table, rows, emitted, died, faults>>

\* What the source still has to say of the window.
Remaining ==
    {id \in DOMAIN source \ run.progress.seen :
        source[id].lastModified \in Minutes({run.progress.window})}

Batches ==
    {b \in SUBSET Remaining :
        Cardinality(b) = IF Cardinality(Remaining) < BatchSize
                         THEN Cardinality(Remaining) ELSE BatchSize}

\* _process_single_batch, up to the row: fetched and written.
ProcessBatch ==
    /\ run.step = "window"
    /\ Remaining # {}
    /\ \E batch \in Batches :
           LET changes == IncrementalChanges(table, [id \in batch |-> source[id]])
           IN  /\ table' = CommitChangeset(table, changes)
               /\ run' = [run EXCEPT
                      !.step = "batched",
                      !.progress.ids = @ \union batch,
                      !.progress.seen = @ \union batch,
                      !.progress.succeeded = TRUE,
                      !.progress.changesets =
                          @ \union (IF DOMAIN changes = {} THEN {} ELSE {Changeset(changes)})]
    /\ UNCHANGED <<now, source, rows, emitted, died, faults>>

Fault(kind) ==
    /\ kind \in FaultKinds
    /\ faults < MaxFaults
    /\ faults' = faults + 1

BatchFails ==
    /\ run.step = "window"
    /\ Fault("batch")
    /\ \E batch \in Batches \ {{}} :
           run' = [run EXCEPT
               !.step = IF run.progress.succeeded THEN "batched" ELSE "window",
               !.progress.seen = @ \union batch,
               !.progress.failed = TRUE]
    /\ UNCHANGED <<now, source, table, rows, emitted, died>>

\* Mutant: a window with a failed batch is taken for done.
AlwaysSuccess(p) == "success"

\* BatchProgress.final_state.
FinalState(p) ==
    CASE ~p.failed   -> "success"
      [] p.succeeded -> "partial_success"
      [] OTHER       -> "failed"

Summary(p, state) ==
    [window |-> p.window, state |-> state, ids |-> p.ids,
     changesets |-> p.changesets, published |-> FALSE]

\* Mutant: the row of an earlier attempt stays.
UpsertBeside(row) == rows' = rows \union {row}

Upsert(row) == rows' = {r \in rows : r.window # row.window} \union {row}

\* The row of a window on the way; that it cannot be written is no error.
SaveProgress ==
    /\ run.step = "batched"
    /\ run' = [run EXCEPT !.step = "window"]
    /\ \/ Upsert(Summary(run.progress, "partial_success")) /\ UNCHANGED faults
       \/ Fault("row") /\ UNCHANGED rows
    /\ UNCHANGED <<now, source, table, emitted, died>>

\* The listing ends, or breaks off, and the window gets its row.
FinishWindow ==
    /\ run.step = "window"
    /\ \E progress \in {run.progress, [run.progress EXCEPT !.failed = TRUE]} :
           /\ IF progress = run.progress THEN Remaining = {} /\ UNCHANGED faults
                                         ELSE Fault("list")
           /\ LET summary == Summary(progress, FinalState(progress))
              IN  /\ Upsert(summary)
                  /\ run' = [run EXCEPT !.step = "harvest", !.progress = NoProgress,
                                        !.summaries = @ \union {summary}]
    /\ UNCHANGED <<now, source, table, emitted, died>>

FinishLoader ==
    /\ run.step = "harvest"
    /\ run.todo = {}
    /\ run' = [run EXCEPT !.step = "publish"]
    /\ UNCHANGED <<now, source, table, rows, emitted, died, faults>>

----------------------------------------------------------------------------
(***************************************************************************)
(* Publish event, Mark published                                           *)
(***************************************************************************)
\* OAIPMHLoaderResponse.from_summaries.
ResponseChangesets == UNION {s.changesets : s \in run.summaries}
CoveredWindows == WindowsOf({s \in run.summaries : s.state = "success"})

PublishEvent ==
    /\ run.step = "publish"
    /\ emitted' = emitted \union ResponseChangesets
    /\ run' = [run EXCEPT !.step = "mark"]
    /\ UNCHANGED <<now, source, table, rows, died, faults>>

\* Mutant: every successful window is stamped.
StampAll(windows) == {[r EXCEPT !.published = @ \/ r.state = "success"] : r \in rows}

\* mark_published.handler.
Stamped(windows) ==
    {[r EXCEPT !.published = @ \/ (r.window \in windows /\ r.state = "success")] :
        r \in rows}

MarkPublished ==
    /\ run.step = "mark"
    /\ rows' = Stamped(CoveredWindows)
    /\ run' = Idle
    /\ UNCHANGED <<now, source, table, emitted, died, faults>>

----------------------------------------------------------------------------
(***************************************************************************)
(* Faults                                                                  *)
(***************************************************************************)
Loading == run.step \in {"load", "harvest", "window", "batched"}

\* What the loader has written of its window is in the row of the window.
Recorded ==
    run.progress.changesets \subseteq
        UNION {r.changesets : r \in RowsOf(run.progress.window)}

MayDie == Recorded \/ "unrecorded" \in FaultKinds

LoaderIsRetried ==
    /\ Loading /\ MayDie /\ Fault("loader")
    /\ run' = [Idle EXCEPT !.step = "load", !.range = run.range,
                           !.scheduled = run.scheduled]
    /\ UNCHANGED <<now, source, table, rows, emitted, died>>

ExecutionFails ==
    /\ run.step # "idle" /\ MayDie /\ Fault("death")
    /\ run' = Idle
    /\ died' = TRUE
    /\ UNCHANGED <<now, source, table, rows, emitted>>

\* The steps of an execution that nothing stops.
Execute ==
    \/ StartLoader \/ StartWindow \/ ProcessBatch \/ SaveProgress
    \/ FinishWindow \/ FinishLoader \/ PublishEvent \/ MarkPublished

Next ==
    \/ Tick \/ Modify \/ Trigger \/ Backfill \/ Execute
    \/ BatchFails \/ LoaderIsRetried \/ ExecutionFails

Spec == Init /\ [][Next]_vars

\* Executions are scheduled again and again, and an execution goes on.
FairSpec == Spec /\ SF_vars(Trigger) /\ WF_vars(Execute) /\ WF_vars(Tick)

----------------------------------------------------------------------------
TypeOK ==
    /\ now \in 0..MaxNow
    /\ DOMAIN source \subseteq Ids /\ \A id \in DOMAIN source : source[id] \in Update
    /\ IsTable(table)
    /\ rows \subseteq WindowRow
    /\ \A r, s \in rows : r.window = s.window => r = s
    /\ run \in Run
    /\ emitted \in Changesets
    /\ died \in BOOLEAN
    /\ faults \in 0..MaxFaults

\* The store says of a record what the source says.
Agrees(id) ==
    /\ id \in DOMAIN table
    /\ table[id].deleted = source[id].deleted
    /\ ~source[id].deleted => table[id].content = source[id].content

\* What the source says of a record, dated in a window that is marked as
\* harvested, is in the store (BatchProgress, _flush: never "marking
\* never-committed windows as successful").
SuccessWindowsAreStored ==
    \A r \in SuccessRows : \A id \in DOMAIN source :
        source[id].lastModified \in Minutes({r.window}) => Agrees(id)

\* A change of the store is not forgotten before it is published: the changeset
\* of a row was in an event, or is in a window that is not stamped, or with the
\* execution under way (state machine: "No data is skipped, because the trigger
\* resumes from the last published window").
NoChangeIsHidden ==
    \A id \in DOMAIN table :
        table[id].changeset \in
            emitted \union run.progress.changesets \union ResponseChangesets
            \union UNION {r.changesets : r \in {s \in rows : ~s.published}}

\* Once there are stamps, "Loaded-but-unpublished windows stay inside the next
\* range" (trigger.py).
LoadedWindowsStayInRange ==
    run.step = "load" /\ run.scheduled /\ (\E r \in SuccessRows : r.published) =>
        \A r \in SuccessRows :
            ~r.published => r.window.start >= run.range.start

FirstHarvested == IF rows = {} THEN 0 ELSE Min({w.start : w \in WindowsOf(rows)})

\* In the end every record dated since the first window that was ever harvested
\* is stored as the source has it, and every change of the store was in an event,
\* unless an execution failed (of that see the README).
EverythingIsPublished ==
    <>[](\A id \in DOMAIN source : ~died /\ source[id].lastModified >= FirstHarvested =>
             Agrees(id) /\ table[id].changeset \in emitted)
=============================================================================
