------------------------------ MODULE IdMinter ------------------------------
(***************************************************************************)
(* Concurrent minting of canonical ids                                     *)
(* (id_minter/resolvers/minting_resolver.py) and the job that fills the    *)
(* pool of free ids (id_minter/pregenerate.py), over one MySQL database.   *)
(*                                                                         *)
(* A call of mint_ids is one transaction under REPEATABLE READ: its plain  *)
(* lookups see the registry as it was at the first of them, its inserts    *)
(* and locking reads see what is committed now and its own writes, a row   *)
(* that it has inserted or tried to insert is locked until it ends, and    *)
(* its writes are seen by others all at once, when it commits.             *)
(***************************************************************************)
EXTENDS Naturals, FiniteSets, Functions

CONSTANTS
    Minters,    \* connections that call mint_ids
    SourceIds,  \* source identifiers as they are requested
    Rows,       \* source identifiers as the table compares them
    RowOf,      \* RowOf[s]: the row of s; its collation ignores case
    Ids,        \* canonical ids
    None,       \* no id, or no predecessor
    Batches,    \* the lists of mint requests, as sets
    Desired     \* desired_free_ids_count

MintRequest == [sid : SourceIds, pred : SourceIds \union {None}]

ASSUME SourceIdsAssumption ==
    /\ RowOf \in [SourceIds -> Rows]
    /\ None \notin SourceIds
    /\ Batches \subseteq SUBSET MintRequest
ASSUME IdsAssumption ==
    IsFiniteSet(Ids) /\ None \notin Ids /\ Desired \in Nat \ {0}

VARIABLES
    registry,   \* the identifiers table, as committed: registry[r] is r's id
    pool,       \* the canonical_ids table, as committed
    minter,     \* minter[m]: the call that m is in
    topUp       \* the run of the id generator

vars == <<registry, pool, minter, topUp>>

Status == {"unknown", "free", "assigned"}
IdOrNone == Ids \union {None}

Minting == {"inheriting", "claiming", "inserting"}

Minter ==
    [state : {"idle", "returned", "raised"} \union Minting,
     batch : SUBSET MintRequest,
     found : [Rows -> IdOrNone],        \* the lookup, over all rows
     toInherit : SUBSET SourceIds,      \* still to insert with a predecessor's id
     toMint : SUBSET SourceIds,         \* still to insert with an id of the pool
     claimed : [SourceIds -> IdOrNone], \* claimed_mapping
     written : [Rows -> IdOrNone],      \* the rows it has inserted
     locked : SUBSET Rows,
     result : [SourceIds -> IdOrNone]]

NoRows == [r \in Rows |-> None]
NoResult == [s \in SourceIds |-> None]

Idle ==
    [state |-> "idle", batch |-> {}, found |-> NoRows, toInherit |-> {},
     toMint |-> {}, claimed |-> NoResult, written |-> NoRows, locked |-> {},
     result |-> NoResult]

NoTopUp == [attempts |-> 0, shortfall |-> 0]

Init ==
    /\ registry = NoRows
    /\ pool = [c \in Ids |-> "unknown"]
    /\ minter = [m \in Minters |-> Idle]
    /\ topUp = NoTopUp

----------------------------------------------------------------------------
\* One source id with two predecessors, which the code's dict could not hold.
Conflicting(batch) ==
    \E p, q \in batch : p.sid = q.sid /\ p.pred # q.pred

\* check_predecessor_matches, over every request of the batch.
PredecessorsMatch(batch, found) ==
    \A q \in batch :
        q.pred # None /\ found[RowOf[q.sid]] # None /\ found[RowOf[q.pred]] # None
            => found[RowOf[q.pred]] = found[RowOf[q.sid]]

Missing(batch, found) == {q \in batch : found[RowOf[q.sid]] = None}

\* What a locking read of minter m returns.
Current(m) ==
    [r \in Rows |-> IF minter[m].written[r] # None THEN minter[m].written[r]
                                                   ELSE registry[r]]

\* Rolled back: nothing that was written or claimed is left.
Raise(m) ==
    /\ minter' = [minter EXCEPT ![m] = [Idle EXCEPT !.state = "raised"]]
    /\ UNCHANGED <<registry, pool, topUp>>

----------------------------------------------------------------------------
\* Steps 1 and 2: look everything up, and tell what is to be inherited from
\* what is to be minted.
LookUp(m, batch) ==
    /\ minter[m].state = "idle"
    /\ ~Conflicting(batch)
    /\ PredecessorsMatch(batch, registry)
    /\ \A q \in Missing(batch, registry) : q.pred # None => registry[RowOf[q.pred]] # None
    /\ minter' = [minter EXCEPT ![m] =
           [Idle EXCEPT
               !.state = "inheriting",
               !.batch = batch,
               !.found = registry,
               !.toInherit = {q.sid : q \in {p \in Missing(batch, registry) : p.pred # None}},
               !.toMint = {q.sid : q \in {p \in Missing(batch, registry) : p.pred = None}}]]
    /\ UNCHANGED <<registry, pool, topUp>>

LookUpFails(m, batch) ==
    /\ minter[m].state = "idle"
    /\ \/ Conflicting(batch)
       \/ ~PredecessorsMatch(batch, registry)
       \/ \E q \in Missing(batch, registry) : q.pred # None /\ registry[RowOf[q.pred]] = None
    /\ Raise(m)

\* No other transaction has locked row r: an insert waits for it.
Unlocked(m, r) == \A u \in Minters \ {m} : r \notin minter[u].locked

\* INSERT ... ON DUPLICATE KEY UPDATE CanonicalId = CanonicalId
InsertRow(m, r, id) ==
    [minter[m] EXCEPT
        !.locked = @ \union {r},
        !.written[r] = IF Current(m)[r] = None THEN id ELSE @]

Predecessor(m, s) == (CHOOSE q \in minter[m].batch : q.sid = s).pred

\* Step 3: one row of the inherited ones.
InsertInherited(m, s) ==
    /\ minter[m].state = "inheriting"
    /\ s \in minter[m].toInherit
    /\ Unlocked(m, RowOf[s])
    /\ LET id == minter[m].found[RowOf[Predecessor(m, s)]]
       IN  minter' = [minter EXCEPT ![m] =
               [InsertRow(m, RowOf[s], id) EXCEPT !.toInherit = @ \ {s}]]
    /\ UNCHANGED <<registry, pool, topUp>>

\* The rows of the batch that were not found and have a predecessor.
Inherited(m) == {q \in Missing(minter[m].batch, minter[m].found) : q.pred # None}

InheritedAsExpected(m) ==
    \A q \in Inherited(m) :
        Current(m)[RowOf[q.sid]] = minter[m].found[RowOf[q.pred]]

\* Mutant: the inherited rows are not read again.
TrustInherited(m) ==
    /\ minter[m].state = "inheriting"
    /\ minter[m].toInherit = {}
    /\ minter' = [minter EXCEPT ![m].state = "claiming"]
    /\ UNCHANGED <<registry, pool, topUp>>

\* Step 3: the inserted rows are read again, FOR SHARE; a concurrent mint may
\* have stored another id.
CheckInherited(m) ==
    /\ minter[m].state = "inheriting"
    /\ minter[m].toInherit = {}
    /\ InheritedAsExpected(m)
    /\ minter' = [minter EXCEPT ![m].state = "claiming"]
    /\ UNCHANGED <<registry, pool, topUp>>

InheritanceFails(m) ==
    /\ minter[m].state = "inheriting"
    /\ minter[m].toInherit = {}
    /\ ~InheritedAsExpected(m)
    /\ Raise(m)

\* FOR UPDATE SKIP LOCKED: the free ids that no other transaction has claimed.
FreeIds(m) ==
    {c \in Ids : /\ pool[c] = "free"
                 /\ \A u \in Minters \ {m} : c \notin Range(minter[u].claimed)}

\* Mutant: free ids are read without a lock.
ClaimUnlocked(m) ==
    /\ minter[m].state = "claiming"
    /\ \E f \in Injection(minter[m].toMint, {c \in Ids : pool[c] = "free"}) :
           minter' = [minter EXCEPT
               ![m].claimed = [s \in SourceIds |->
                                  IF s \in minter[m].toMint THEN f[s] ELSE None],
               ![m].state = "inserting"]
    /\ UNCHANGED <<registry, pool, topUp>>

\* Step 4: one id for each source id that needs one.
Claim(m) ==
    /\ minter[m].state = "claiming"
    /\ \E f \in Injection(minter[m].toMint, FreeIds(m)) :
           minter' = [minter EXCEPT
               ![m].claimed = [s \in SourceIds |->
                                  IF s \in minter[m].toMint THEN f[s] ELSE None],
               ![m].state = "inserting"]
    /\ UNCHANGED <<registry, pool, topUp>>

PoolExhausted(m) ==
    /\ minter[m].state = "claiming"
    /\ Injection(minter[m].toMint, FreeIds(m)) = {}
    /\ Raise(m)

\* Step 5: one row of the new ones.
InsertNew(m, s) ==
    /\ minter[m].state = "inserting"
    /\ s \in minter[m].toMint
    /\ Unlocked(m, RowOf[s])
    /\ minter' = [minter EXCEPT ![m] =
           [InsertRow(m, RowOf[s], minter[m].claimed[s]) EXCEPT !.toMint = @ \ {s}]]
    /\ UNCHANGED <<registry, pool, topUp>>

\* Mutant: every claimed id is marked as assigned.
AllClaimed(m) == Range(minter[m].claimed) \ {None}

\* Step 6: the claimed ids that are in the registry now; the others were
\* claimed for source ids that a concurrent mint has registered meanwhile.
UsedIds(m) ==
    {minter[m].claimed[s] : s \in {t \in SourceIds :
        /\ minter[m].claimed[t] # None
        /\ Current(m)[RowOf[t]] = minter[m].claimed[t]}}

\* Step 7 and the commit.
Apply(m) ==
    /\ minter[m].state = "inserting"
    /\ minter[m].toMint = {}
    /\ registry' = Current(m)
    /\ pool' = [c \in Ids |-> IF c \in UsedIds(m) THEN "assigned" ELSE pool[c]]
    /\ UNCHANGED topUp

\* The id that was looked up, inherited or, for a new one, read again.
Result(m) ==
    [s \in SourceIds |->
        IF s \notin {q.sid : q \in minter[m].batch} THEN None
        ELSE IF minter[m].found[RowOf[s]] # None THEN minter[m].found[RowOf[s]]
        ELSE IF Predecessor(m, s) # None THEN minter[m].found[RowOf[Predecessor(m, s)]]
        ELSE Current(m)[RowOf[s]]]

Commit(m) ==
    /\ Apply(m)
    /\ minter' = [minter EXCEPT ![m] =
           [Idle EXCEPT !.state = "returned", !.batch = minter[m].batch,
                        !.found = minter[m].found, !.result = Result(m)]]

\* The connection is lost after the server has committed.
CommitReplyIsLost(m) ==
    /\ Apply(m)
    /\ minter' = [minter EXCEPT ![m] = [Idle EXCEPT !.state = "raised"]]

\* A statement fails: the server is gone, or a lock is waited for too long or
\* in a circle.
StatementFails(m) ==
    /\ minter[m].state \in Minting
    /\ Raise(m)

\* The caller takes the outcome.
Collect(m) ==
    /\ minter[m].state \in {"returned", "raised"}
    /\ minter' = [minter EXCEPT ![m] = Idle]
    /\ UNCHANGED <<registry, pool, topUp>>

----------------------------------------------------------------------------
(***************************************************************************)
(* pregenerate.top_up_ids                                                  *)
(***************************************************************************)

\* Mutant: the attempts are not limited.
CountWithoutLimit ==
    LET count == Cardinality({c \in Ids : pool[c] = "free"})
    IN  /\ topUp.shortfall = 0
        /\ topUp' = IF count >= Desired THEN NoTopUp
                    ELSE [topUp EXCEPT !.shortfall = Desired - count]
        /\ UNCHANGED <<registry, pool, minter>>

\* _get_id_shortfall, before each of two attempts and after the last.
CountFreeIds ==
    LET count == Cardinality({c \in Ids : pool[c] = "free"})
    IN  /\ topUp.shortfall = 0
        /\ topUp' = IF count >= Desired \/ topUp.attempts = 2
                    THEN NoTopUp
                    ELSE [topUp EXCEPT !.shortfall = Desired - count]
        /\ UNCHANGED <<registry, pool, minter>>

\* save_new_ids: INSERT IGNORE of random ids, some of which may be there
\* already or be drawn twice.
SaveNewIds ==
    /\ topUp.shortfall > 0
    /\ \E new \in SUBSET Ids :
           /\ new # {}
           /\ Cardinality(new) <= topUp.shortfall
           /\ pool' = [c \in Ids |-> IF c \in new /\ pool[c] = "unknown"
                                     THEN "free" ELSE pool[c]]
    /\ topUp' = [attempts |-> topUp.attempts + 1, shortfall |-> 0]
    /\ UNCHANGED <<registry, minter>>

GeneratorStops ==
    /\ topUp # NoTopUp
    /\ topUp' = NoTopUp
    /\ UNCHANGED <<registry, pool, minter>>

----------------------------------------------------------------------------
MintStep(m) ==
    \/ \E batch \in Batches : LookUp(m, batch) \/ LookUpFails(m, batch)
    \/ \E s \in SourceIds : InsertInherited(m, s) \/ InsertNew(m, s)
    \/ CheckInherited(m)
    \/ InheritanceFails(m)
    \/ Claim(m)
    \/ PoolExhausted(m)
    \/ Commit(m)
    \/ CommitReplyIsLost(m)
    \/ StatementFails(m)
    \/ Collect(m)

Next ==
    \/ \E m \in Minters : MintStep(m)
    \/ CountFreeIds
    \/ SaveNewIds
    \/ GeneratorStops

Spec == Init /\ [][Next]_vars

----------------------------------------------------------------------------
TypeOK ==
    /\ registry \in [Rows -> IdOrNone]
    /\ pool \in [Ids -> Status]
    /\ minter \in [Minters -> Minter]
    /\ topUp \in [attempts : 0..2, shortfall : Nat]

\* The pool and the registry agree: an id is marked as assigned if and only if
\* some row has it.  A free id that a row has would be given away again; an
\* assigned one that no row has is lost to the pool ("This ensures the free ID
\* pool isn't depleted by failed race attempts").
PoolMatchesRegistry ==
    \A c \in Ids : pool[c] = "assigned" <=> \E r \in Rows : registry[r] = c

\* What mint_ids returns is what the registry holds, and the ids of a source
\* id and of a predecessor that was registered when it was looked up are one
\* ("rather than returning an ID the registry doesn't hold").
ReturnedIdsAreRegistered ==
    \A m \in Minters : minter[m].state = "returned" =>
        \A q \in minter[m].batch :
            /\ minter[m].result[q.sid] \in Ids
            /\ registry[RowOf[q.sid]] = minter[m].result[q.sid]
            /\ q.pred # None /\ minter[m].found[RowOf[q.pred]] # None =>
                   registry[RowOf[q.pred]] = minter[m].result[q.sid]

Succeeds ==
    {<<RowOf[q.sid], RowOf[q.pred]>> : q \in {p \in UNION Batches : p.pred # None}}

\* The committed rows change as the abstract registry does: a row is never
\* rewritten, and two rows share an id only if one inherited it from the other,
\* or both from a third.
Registry == INSTANCE IdRegistry
RegistrySpec == Registry!Spec
=============================================================================
