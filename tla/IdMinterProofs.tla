--------------------------- MODULE IdMinterProofs ---------------------------
(***************************************************************************)
(* Proofs about IdMinter, for any number of minters, source ids, rows,     *)
(* ids and batches: types, the agreement of the pool with the registry,    *)
(* what mint_ids returns, and that the registry changes as IdRegistry      *)
(* allows.  They rest on one inductive invariant, MintingInv.              *)
(***************************************************************************)
EXTENDS IdMinter, FiniteSetTheorems, TLAPS

\* An idle or ended call holds nothing.
HoldsNothing(m) ==
    minter[m].state \notin Minting =>
        /\ minter[m].claimed = NoResult
        /\ minter[m].written = NoRows
        /\ minter[m].locked = {}

\* What the lookup has established of the batch.
LookedUp(m) ==
    minter[m].state \in Minting =>
        /\ minter[m].batch \in Batches
        /\ ~Conflicting(minter[m].batch)
        /\ PredecessorsMatch(minter[m].batch, minter[m].found)
        /\ \A q \in Missing(minter[m].batch, minter[m].found) :
               q.pred # None => minter[m].found[RowOf[q.pred]] # None

\* A row that was found stays as it was.
FoundStays(m) ==
    \A r \in Rows : minter[m].found[r] # None => registry[r] = minter[m].found[r]

\* A source id is inherited only if its request said so.
InheritsAsRequested(m) ==
    \A s \in minter[m].toInherit : \E q \in Inherited(m) : q.sid = s

\* A source id that needs a new id is still to be inserted, or is a row.
NewAreCovered(m) ==
    minter[m].state \in Minting =>
        \A q \in Missing(minter[m].batch, minter[m].found) :
            q.pred = None => q.sid \in minter[m].toMint \/ Current(m)[RowOf[q.sid]] # None

\* Inherited rows stay as CheckInherited saw them.
InheritedAreChecked(m) ==
    minter[m].state \in {"claiming", "inserting"} => InheritedAsExpected(m)

\* Claimed ids are free, and each is claimed for one source id.
ClaimsAreFree(m) ==
    /\ minter[m].state # "inserting" => minter[m].claimed = NoResult
    /\ minter[m].state = "inserting" =>
           \A s \in minter[m].toMint : minter[m].claimed[s] # None
    /\ \A s \in SourceIds : minter[m].claimed[s] # None =>
           /\ pool[minter[m].claimed[s]] = "free"
           /\ \A t \in SourceIds : minter[m].claimed[t] = minter[m].claimed[s] => t = s

\* A row that is being inserted is locked and new, and its id is that of a
\* registered predecessor or one that was claimed for it.
WritesAreNew(m) ==
    \A r \in Rows : minter[m].written[r] # None =>
        /\ r \in minter[m].locked
        /\ registry[r] = None
        /\ \/ \E o \in Rows : <<r, o>> \in Succeeds /\ registry[o] = minter[m].written[r]
           \/ \E s \in SourceIds : RowOf[s] = r /\ minter[m].claimed[s] = minter[m].written[r]

\* ReturnedIdsAreRegistered, of minter m.
ReturnsRegistered(m) ==
    minter[m].state = "returned" =>
        \A q \in minter[m].batch :
            /\ minter[m].result[q.sid] \in Ids
            /\ registry[RowOf[q.sid]] = minter[m].result[q.sid]
            /\ q.pred # None /\ minter[m].found[RowOf[q.pred]] # None =>
                   registry[RowOf[q.pred]] = minter[m].result[q.sid]

MinterInv(m) ==
    /\ HoldsNothing(m)
    /\ LookedUp(m)
    /\ FoundStays(m)
    /\ InheritsAsRequested(m)
    /\ NewAreCovered(m)
    /\ InheritedAreChecked(m)
    /\ ClaimsAreFree(m)
    /\ WritesAreNew(m)
    /\ ReturnsRegistered(m)

LocksAreExclusive ==
    \A m, u \in Minters : m # u => minter[m].locked \cap minter[u].locked = {}

ClaimsAreExclusive ==
    \A m, u \in Minters : m # u =>
        \A s, t \in SourceIds :
            minter[m].claimed[s] # None => minter[m].claimed[s] # minter[u].claimed[t]

\* The generator saves ids twice at most.
AttemptsAreBounded == topUp.shortfall > 0 => topUp.attempts < 2

MintingInv ==
    /\ TypeOK
    /\ AttemptsAreBounded
    /\ PoolMatchesRegistry
    /\ LocksAreExclusive
    /\ ClaimsAreExclusive
    /\ \A m \in Minters : MinterInv(m)

----------------------------------------------------------------------------
\* The request of a source id tells its predecessor.
LEMMA PredecessorOf ==
    ASSUME NEW m \in Minters, ~Conflicting(minter[m].batch),
           NEW q \in minter[m].batch
    PROVE  Predecessor(m, q.sid) = q.pred
<1> DEFINE p == CHOOSE x \in minter[m].batch : x.sid = q.sid
<1>1. p \in minter[m].batch /\ p.sid = q.sid
    OBVIOUS
<1> QED BY <1>1 DEF Conflicting, Predecessor

\* A minter that does not move keeps its invariant when rows are only added,
\* none of them one that it is inserting, and no id that it claims is used.
LEMMA OthersKeep ==
    ASSUME TypeOK, NEW u \in Minters, MinterInv(u), minter'[u] = minter[u],
           \A r \in Rows : registry[r] # None => registry'[r] = registry[r],
           \A r \in Rows : minter[u].written[r] # None => registry'[r] = None,
           \A s \in SourceIds : minter[u].claimed[s] # None =>
               pool'[minter[u].claimed[s]] = "free"
    PROVE  MinterInv(u)'
<1> USE SourceIdsAssumption, IdsAssumption
<1>1. minter[u] \in Minter /\ registry \in [Rows -> IdOrNone]
    BY DEF TypeOK
<1>2. /\ minter[u].batch \subseteq MintRequest
      /\ minter[u].toInherit \subseteq SourceIds
      /\ minter[u].toMint \subseteq SourceIds
    BY <1>1 DEF Minter
<1>3. \A r \in Rows : Current(u)[r] # None => Current(u)'[r] = Current(u)[r]
    BY DEF Current
<1>4. \A s \in SourceIds : RowOf[s] \in Rows
    OBVIOUS
<1>5. \A q \in MintRequest : q.sid \in SourceIds /\ (q.pred # None => q.pred \in SourceIds)
    BY DEF MintRequest
<1>6. Inherited(u)' = Inherited(u)
    BY DEF Inherited, Missing
<1>7. HoldsNothing(u)' /\ LookedUp(u)'
    BY DEF MinterInv, HoldsNothing, LookedUp
<1>8. FoundStays(u)'
    BY DEF MinterInv, FoundStays
<1>9. InheritsAsRequested(u)'
    BY <1>6 DEF MinterInv, InheritsAsRequested
<1>10. NewAreCovered(u)'
    BY <1>2, <1>3, <1>4, <1>5 DEF MinterInv, NewAreCovered, Missing
<1>11. InheritedAreChecked(u)'
  <2> SUFFICES ASSUME minter[u].state \in {"claiming", "inserting"},
                      NEW q \in Inherited(u)
               PROVE  Current(u)'[RowOf[q.sid]] = minter[u].found[RowOf[q.pred]]
      BY <1>6 DEF InheritedAreChecked, InheritedAsExpected
  <2>1. /\ Current(u)[RowOf[q.sid]] = minter[u].found[RowOf[q.pred]]
        /\ minter[u].found[RowOf[q.pred]] # None
      BY DEF MinterInv, InheritedAreChecked, InheritedAsExpected, LookedUp, Minting, Inherited
  <2>2. RowOf[q.sid] \in Rows
      BY <1>2, <1>4, <1>5 DEF Inherited, Missing
  <2> QED BY <1>3, <2>1, <2>2
<1>12. ClaimsAreFree(u)'
    BY DEF MinterInv, ClaimsAreFree
<1>13. WritesAreNew(u)'
  <2> SUFFICES ASSUME NEW r \in Rows, minter[u].written[r] # None
               PROVE  /\ r \in minter[u].locked
                      /\ registry'[r] = None
                      /\ \/ \E o \in Rows : <<r, o>> \in Succeeds /\ registry'[o] = minter[u].written[r]
                         \/ \E s \in SourceIds : RowOf[s] = r /\ minter[u].claimed[s] = minter[u].written[r]
      BY DEF WritesAreNew, Succeeds
  <2> QED BY DEF MinterInv, WritesAreNew
<1>14. ReturnsRegistered(u)'
  <2> SUFFICES ASSUME minter[u].state = "returned", NEW q \in minter[u].batch
               PROVE  /\ minter[u].result[q.sid] \in Ids
                      /\ registry'[RowOf[q.sid]] = minter[u].result[q.sid]
                      /\ q.pred # None /\ minter[u].found[RowOf[q.pred]] # None =>
                             registry'[RowOf[q.pred]] = minter[u].result[q.sid]
      BY DEF ReturnsRegistered
  <2> QED BY <1>2, <1>4, <1>5 DEF MinterInv, ReturnsRegistered
<1> QED BY <1>7, <1>8, <1>9, <1>10, <1>11, <1>12, <1>13, <1>14 DEF MinterInv

\* A step of one minter that leaves the tables alone.
LEMMA LocalStep ==
    ASSUME MintingInv, NEW m \in Minters, NEW x \in Minter,
           minter' = [minter EXCEPT ![m] = x],
           UNCHANGED <<registry, pool, topUp>>,
           \A u \in Minters \ {m} : x.locked \cap minter[u].locked = {},
           \A u \in Minters \ {m} : \A s, t \in SourceIds :
               x.claimed[s] # None => x.claimed[s] # minter[u].claimed[t],
           MinterInv(m)'
    PROVE  MintingInv'
<1>1. minter \in [Minters -> Minter]
    BY DEF MintingInv, TypeOK
<1>2. minter'[m] = x /\ \A u \in Minters \ {m} : minter'[u] = minter[u]
    BY <1>1
<1>3. TypeOK'
    BY <1>1 DEF MintingInv, TypeOK
<1>4. PoolMatchesRegistry' /\ AttemptsAreBounded'
    BY DEF MintingInv, PoolMatchesRegistry, AttemptsAreBounded
<1>5. LocksAreExclusive'
    BY <1>2 DEF MintingInv, LocksAreExclusive
<1>6. ClaimsAreExclusive'
  <2> SUFFICES ASSUME NEW u \in Minters, NEW v \in Minters, u # v,
                      NEW s \in SourceIds, NEW t \in SourceIds, minter'[u].claimed[s] # None
               PROVE  minter'[u].claimed[s] # minter'[v].claimed[t]
      BY DEF ClaimsAreExclusive
  <2> QED BY <1>2 DEF MintingInv, ClaimsAreExclusive
<1>7. ASSUME NEW u \in Minters \ {m} PROVE MinterInv(u)'
  <2>1. MinterInv(u) /\ TypeOK
      BY DEF MintingInv
  <2> QED BY <1>2, <2>1, OthersKeep DEF MinterInv, WritesAreNew, ClaimsAreFree
<1> QED BY <1>3, <1>4, <1>5, <1>6, <1>7 DEF MintingInv

LEMMA IdleTypes == Idle \in Minter
BY SourceIdsAssumption DEF Idle, Minter, NoRows, NoResult, IdOrNone, Minting

LEMMA InitInv == Init => MintingInv
<1> USE SourceIdsAssumption, IdsAssumption
<1> SUFFICES ASSUME Init PROVE MintingInv
    OBVIOUS
<1>1. TypeOK
    BY IdleTypes DEF Init, TypeOK, NoRows, NoTopUp, IdOrNone, Status
<1>2. PoolMatchesRegistry /\ AttemptsAreBounded
    BY DEF Init, PoolMatchesRegistry, NoRows, AttemptsAreBounded, NoTopUp
<1>3. LocksAreExclusive /\ ClaimsAreExclusive
    BY DEF Init, Idle, NoResult, LocksAreExclusive, ClaimsAreExclusive
<1>4. ASSUME NEW m \in Minters PROVE MinterInv(m)
  <2>1. minter[m] = Idle
      BY DEF Init
  <2>2. HoldsNothing(m) /\ LookedUp(m) /\ NewAreCovered(m) /\ InheritedAreChecked(m) /\ ReturnsRegistered(m)
      BY <2>1 DEF Idle, HoldsNothing, LookedUp, NewAreCovered, InheritedAreChecked, ReturnsRegistered, Minting
  <2>3. FoundStays(m) /\ InheritsAsRequested(m) /\ ClaimsAreFree(m) /\ WritesAreNew(m)
      BY <2>1 DEF Idle, NoRows, NoResult, FoundStays, InheritsAsRequested, ClaimsAreFree, WritesAreNew
  <2> QED BY <2>2, <2>3 DEF MinterInv
<1> QED BY <1>1, <1>2, <1>3, <1>4 DEF MintingInv

\* A call that has raised, or whose outcome was taken, has no trace left.
LEMMA Resting ==
    ASSUME MintingInv, NEW m \in Minters, NEW state \in {"idle", "raised"},
           minter' = [minter EXCEPT ![m] = [Idle EXCEPT !.state = state]],
           UNCHANGED <<registry, pool, topUp>>
    PROVE  MintingInv'
<1> DEFINE x == [Idle EXCEPT !.state = state]
<1>1. /\ x \in Minter
      /\ x.state = state /\ x.found = NoRows /\ x.toInherit = {}
      /\ x.claimed = NoResult /\ x.written = NoRows /\ x.locked = {}
    BY IdleTypes DEF Idle, Minter
<1> HIDE DEF x
<1>2. minter'[m] = x
    BY DEF MintingInv, TypeOK, x
<1>3. HoldsNothing(m)' /\ LookedUp(m)' /\ NewAreCovered(m)' /\ InheritedAreChecked(m)' /\ ReturnsRegistered(m)'
    BY <1>1, <1>2 DEF HoldsNothing, LookedUp, NewAreCovered, InheritedAreChecked, ReturnsRegistered, Minting, NoRows, NoResult
<1>4. FoundStays(m)' /\ WritesAreNew(m)'
    BY <1>1, <1>2 DEF NoRows, FoundStays, WritesAreNew
<1>5. InheritsAsRequested(m)' /\ ClaimsAreFree(m)'
    BY <1>1, <1>2 DEF NoResult, InheritsAsRequested, ClaimsAreFree
<1>6. MinterInv(m)'
    BY <1>3, <1>4, <1>5 DEF MinterInv
<1>7. \A s \in SourceIds : x.claimed[s] = None
    BY <1>1 DEF NoResult
<1> QED BY <1>1, <1>6, <1>7, LocalStep DEF x

LEMMA CollectKeeps ==
    ASSUME MintingInv, NEW m \in Minters, Collect(m)
    PROVE  MintingInv'
<1>1. Idle = [Idle EXCEPT !.state = "idle"]
    BY DEF Idle
<1> QED BY <1>1, Resting DEF Collect

LEMMA LookUpKeeps ==
    ASSUME MintingInv, NEW m \in Minters, NEW batch \in Batches, LookUp(m, batch)
    PROVE  MintingInv'
<1> USE SourceIdsAssumption
<1> DEFINE missing == Missing(batch, registry)
           x == [Idle EXCEPT
                    !.state = "inheriting",
                    !.batch = batch,
                    !.found = registry,
                    !.toInherit = {q.sid : q \in {p \in missing : p.pred # None}},
                    !.toMint = {q.sid : q \in {p \in missing : p.pred = None}}]
<1>1. batch \subseteq MintRequest /\ registry \in [Rows -> IdOrNone]
    BY DEF MintingInv, TypeOK
<1>2. missing \subseteq MintRequest /\ \A q \in MintRequest : q.sid \in SourceIds
    BY <1>1 DEF Missing, MintRequest
<1>3. /\ x.state = "inheriting" /\ x.batch = batch /\ x.found = registry
      /\ x.toInherit = {q.sid : q \in {p \in missing : p.pred # None}}
      /\ x.toMint = {q.sid : q \in {p \in missing : p.pred = None}}
      /\ x.claimed = NoResult /\ x.written = NoRows /\ x.locked = {}
    BY DEF Idle
<1>4. x \in Minter
  <2>1. {q.sid : q \in {p \in missing : p.pred # None}} \in SUBSET SourceIds
      BY <1>2
  <2>2. {q.sid : q \in {p \in missing : p.pred = None}} \in SUBSET SourceIds
      BY <1>2
  <2>3. batch \in SUBSET MintRequest /\ registry \in [Rows -> IdOrNone]
      BY <1>1 DEF MintingInv, TypeOK
  <2>4. "inheriting" \in {"idle", "returned", "raised"} \union Minting
      BY DEF Minting
  <2> HIDE DEF missing
  <2> QED BY <2>1, <2>2, <2>3, <2>4, IdleTypes DEF Minter
<1>5. minter' = [minter EXCEPT ![m] = x] /\ UNCHANGED <<registry, pool, topUp>>
    BY DEF LookUp
<1>6. /\ ~Conflicting(batch)
      /\ PredecessorsMatch(batch, registry)
      /\ \A q \in missing : q.pred # None => registry[RowOf[q.pred]] # None
    BY DEF LookUp
<1> HIDE DEF x
<1>7. minter'[m] = x
    BY <1>5 DEF MintingInv, TypeOK
<1>8. HoldsNothing(m)' /\ LookedUp(m)' /\ InheritedAreChecked(m)' /\ ReturnsRegistered(m)'
    BY <1>3, <1>5, <1>6, <1>7 DEF HoldsNothing, LookedUp, InheritedAreChecked, ReturnsRegistered, Minting
<1>9. FoundStays(m)' /\ ClaimsAreFree(m)' /\ WritesAreNew(m)'
    BY <1>3, <1>5, <1>7 DEF FoundStays, ClaimsAreFree, WritesAreNew, NoRows, NoResult
<1>10. NewAreCovered(m)'
    BY <1>3, <1>5, <1>7 DEF NewAreCovered
<1>11. InheritsAsRequested(m)'
  <2>1. Inherited(m)' = {p \in missing : p.pred # None}
      BY <1>3, <1>7 DEF Inherited
  <2> QED BY <1>3, <1>7, <2>1 DEF InheritsAsRequested
<1>12. MinterInv(m)'
    BY <1>8, <1>9, <1>10, <1>11 DEF MinterInv
<1>13. \A s \in SourceIds : x.claimed[s] = None
    BY <1>3 DEF NoResult
<1> QED BY <1>3, <1>4, <1>5, <1>12, <1>13, LocalStep

\* What an insert of the row of s by minter m leaves in x.
Inserted(m, s, id, x) ==
    /\ x \in Minter
    /\ x.state = minter[m].state
    /\ x.batch = minter[m].batch
    /\ x.found = minter[m].found
    /\ x.claimed = minter[m].claimed
    /\ x.toInherit \subseteq minter[m].toInherit
    /\ x.toMint \subseteq minter[m].toMint
    /\ minter[m].toMint \subseteq x.toMint \union {s}
    /\ x.locked = minter[m].locked \union {RowOf[s]}
    /\ x.written = [minter[m].written EXCEPT ![RowOf[s]] =
                       IF Current(m)[RowOf[s]] = None THEN id ELSE @]

LEMMA InsertRowInserts ==
    ASSUME NEW m \in Minters, minter[m] \in Minter, NEW s \in SourceIds, NEW id \in Ids,
           NEW toInherit \in SUBSET minter[m].toInherit,
           NEW toMint \in SUBSET minter[m].toMint,
           minter[m].toMint \subseteq toMint \union {s}
    PROVE  Inserted(m, s, id, [InsertRow(m, RowOf[s], id) EXCEPT
                                   !.toInherit = toInherit, !.toMint = toMint])
<1> USE SourceIdsAssumption
<1> DEFINE written == [minter[m].written EXCEPT ![RowOf[s]] =
                           IF Current(m)[RowOf[s]] = None THEN id ELSE @]
           locked == minter[m].locked \union {RowOf[s]}
           x == [minter[m] EXCEPT !.locked = locked, !.written = written,
                                  !.toInherit = toInherit, !.toMint = toMint]
<1>1. [InsertRow(m, RowOf[s], id) EXCEPT !.toInherit = toInherit, !.toMint = toMint] = x
    BY DEF InsertRow, Minter
<1>2. written \in [Rows -> IdOrNone] /\ locked \in SUBSET Rows
    BY DEF Minter, IdOrNone
<1>3. toInherit \in SUBSET SourceIds /\ toMint \in SUBSET SourceIds
    BY DEF Minter
<1> HIDE DEF written, locked
<1>4. x \in Minter
    BY <1>2, <1>3 DEF Minter
<1>5. /\ x.state = minter[m].state /\ x.batch = minter[m].batch
      /\ x.found = minter[m].found /\ x.claimed = minter[m].claimed
      /\ x.toInherit = toInherit /\ x.toMint = toMint
      /\ x.locked = locked /\ x.written = written
    BY DEF Minter
<1> HIDE DEF x
<1>6. Inserted(m, s, id, x)
    BY <1>4, <1>5 DEF Inserted, written, locked
<1> QED BY <1>1, <1>6

\* An insert of an id that the row may have keeps the invariant.
LEMMA InsertKeeps ==
    ASSUME MintingInv, NEW m \in Minters, NEW s \in SourceIds, NEW id \in Ids, NEW x,
           minter[m].state \in Minting, Unlocked(m, RowOf[s]), Inserted(m, s, id, x),
           \/ \E o \in Rows : <<RowOf[s], o>> \in Succeeds /\ registry[o] = id
           \/ minter[m].claimed[s] = id,
           minter' = [minter EXCEPT ![m] = x],
           UNCHANGED <<registry, pool, topUp>>
    PROVE  MintingInv'
<1> USE SourceIdsAssumption, IdsAssumption
<1> DEFINE row == RowOf[s]
<1>1. /\ minter[m] \in Minter
      /\ registry \in [Rows -> IdOrNone]
      /\ MinterInv(m)
      /\ row \in Rows
    BY DEF MintingInv, TypeOK
<1>2. minter'[m] = x
    BY DEF MintingInv, TypeOK
<1>3. /\ x \in Minter
      /\ x.state = minter[m].state /\ x.batch = minter[m].batch
      /\ x.found = minter[m].found /\ x.claimed = minter[m].claimed
      /\ x.toInherit \subseteq minter[m].toInherit
      /\ x.toMint \subseteq minter[m].toMint
      /\ minter[m].toMint \subseteq x.toMint \union {s}
      /\ x.locked = minter[m].locked \union {row}
    BY DEF Inserted
<1>4. /\ minter[m].written \in [Rows -> IdOrNone]
      /\ minter[m].batch \subseteq MintRequest
    BY <1>1 DEF Minter
<1>5. /\ \A r \in Rows \ {row} : x.written[r] = minter[m].written[r]
      /\ x.written[row] = IF Current(m)[row] = None THEN id ELSE minter[m].written[row]
    BY <1>1, <1>4 DEF Inserted
<1>6. /\ \A r \in Rows : Current(m)[r] # None => Current(m)'[r] = Current(m)[r]
      /\ Current(m)'[row] # None
    BY <1>2, <1>4, <1>5 DEF Current
<1>7. HoldsNothing(m)' /\ LookedUp(m)' /\ FoundStays(m)' /\ ReturnsRegistered(m)'
    BY <1>1, <1>2, <1>3 DEF MinterInv, HoldsNothing, LookedUp, FoundStays, ReturnsRegistered, Minting
<1>8. Inherited(m)' = Inherited(m)
    BY <1>2, <1>3 DEF Inherited
<1>9. InheritsAsRequested(m)'
    BY <1>1, <1>2, <1>3, <1>8 DEF MinterInv, InheritsAsRequested
<1>10. NewAreCovered(m)'
  <2> SUFFICES ASSUME NEW q \in Missing(minter[m].batch, minter[m].found), q.pred = None
               PROVE  q.sid \in x.toMint \/ Current(m)'[RowOf[q.sid]] # None
      BY <1>2, <1>3 DEF NewAreCovered
  <2>1. q.sid \in SourceIds /\ RowOf[q.sid] \in Rows
      BY <1>4 DEF Missing, MintRequest
  <2>2. q.sid \in minter[m].toMint \/ Current(m)[RowOf[q.sid]] # None
      BY <1>1 DEF MinterInv, NewAreCovered
  <2> QED BY <1>3, <1>6, <2>1, <2>2
<1>11. InheritedAreChecked(m)'
  <2> SUFFICES ASSUME minter[m].state \in {"claiming", "inserting"}, NEW q \in Inherited(m)
               PROVE  Current(m)'[RowOf[q.sid]] = minter[m].found[RowOf[q.pred]]
      BY <1>2, <1>3, <1>8 DEF InheritedAreChecked, InheritedAsExpected
  <2>1. /\ Current(m)[RowOf[q.sid]] = minter[m].found[RowOf[q.pred]]
        /\ minter[m].found[RowOf[q.pred]] # None
      BY <1>1 DEF MinterInv, InheritedAreChecked, InheritedAsExpected, LookedUp, Inherited
  <2>2. RowOf[q.sid] \in Rows
      BY <1>4 DEF Inherited, Missing, MintRequest
  <2> QED BY <1>6, <2>1, <2>2
<1>12. ClaimsAreFree(m)'
    BY <1>1, <1>2, <1>3 DEF MinterInv, ClaimsAreFree
<1>13. WritesAreNew(m)'
  <2> SUFFICES ASSUME NEW r \in Rows, x.written[r] # None
               PROVE  /\ r \in x.locked
                      /\ registry[r] = None
                      /\ \/ \E o \in Rows : <<r, o>> \in Succeeds /\ registry[o] = x.written[r]
                         \/ \E t \in SourceIds : RowOf[t] = r /\ x.claimed[t] = x.written[r]
      BY <1>2 DEF WritesAreNew, Succeeds
  <2>1. CASE minter[m].written[r] # None
    <3>1. x.written[r] = minter[m].written[r]
        BY <1>4, <1>5, <2>1 DEF Current
    <3>2. /\ r \in minter[m].locked
          /\ registry[r] = None
          /\ \/ \E o \in Rows : <<r, o>> \in Succeeds /\ registry[o] = minter[m].written[r]
             \/ \E t \in SourceIds : RowOf[t] = r /\ minter[m].claimed[t] = minter[m].written[r]
        BY <1>1, <2>1 DEF MinterInv, WritesAreNew
    <3> QED BY <1>3, <3>1, <3>2
  <2>2. CASE minter[m].written[r] = None
    <3>1. r = row /\ Current(m)[row] = None /\ x.written[row] = id
        BY <1>5, <2>2
    <3>2. registry[row] = None
        BY <1>1, <2>2, <3>1 DEF Current
    <3>3. r \in x.locked
        BY <1>3, <3>1
    <3>4. CASE \E o \in Rows : <<row, o>> \in Succeeds /\ registry[o] = id
        BY <3>1, <3>2, <3>3, <3>4
    <3>5. CASE minter[m].claimed[s] = id
        BY <1>3, <3>1, <3>2, <3>3, <3>5
    <3> QED BY <3>4, <3>5
  <2> QED BY <2>1, <2>2
<1>14. MinterInv(m)'
    BY <1>7, <1>9, <1>10, <1>11, <1>12, <1>13 DEF MinterInv
<1>15. \A u \in Minters \ {m} : x.locked \intersect minter[u].locked = {}
    BY <1>3 DEF MintingInv, LocksAreExclusive, Unlocked
<1>16. \A u \in Minters \ {m} : \A v, w \in SourceIds :
           x.claimed[v] # None => x.claimed[v] # minter[u].claimed[w]
    BY <1>3 DEF MintingInv, ClaimsAreExclusive
<1> QED BY <1>3, <1>14, <1>15, <1>16, LocalStep

LEMMA InsertInheritedKeeps ==
    ASSUME MintingInv, NEW m \in Minters, NEW s \in SourceIds, InsertInherited(m, s)
    PROVE  MintingInv'
<1> USE SourceIdsAssumption
<1> DEFINE id == minter[m].found[RowOf[Predecessor(m, s)]]
           x == [InsertRow(m, RowOf[s], id) EXCEPT !.toInherit = @ \ {s}]
<1>1. /\ minter[m] \in Minter
      /\ MinterInv(m)
      /\ minter[m].state \in Minting
    BY DEF MintingInv, TypeOK, InsertInherited, Minting
<1>2. PICK q \in Inherited(m) : q.sid = s
    BY <1>1 DEF MinterInv, InheritsAsRequested, InsertInherited
<1>3. /\ q \in minter[m].batch
      /\ q.pred # None
      /\ minter[m].found[RowOf[q.pred]] # None
    BY <1>1, <1>2 DEF Inherited, Missing, MinterInv, LookedUp
<1>4. /\ q \in MintRequest /\ q.pred \in SourceIds
      /\ q \in UNION Batches
    BY <1>1, <1>3 DEF Minter, MintRequest, MinterInv, LookedUp
<1>5. Predecessor(m, s) = q.pred
    BY <1>1, <1>2, <1>3, PredecessorOf DEF MinterInv, LookedUp
<1>6. id \in Ids /\ registry[RowOf[q.pred]] = id
    BY <1>1, <1>3, <1>4, <1>5 DEF Minter, IdOrNone, MinterInv, FoundStays
<1>7. <<RowOf[s], RowOf[q.pred]>> \in Succeeds
    BY <1>2, <1>3, <1>4 DEF Succeeds
<1>8. minter' = [minter EXCEPT ![m] = x] /\ UNCHANGED <<registry, pool, topUp>>
    BY DEF InsertInherited
<1>9. Inserted(m, s, id, x)
  <2> DEFINE toInherit == minter[m].toInherit \ {s}
  <2>1. x = [InsertRow(m, RowOf[s], id) EXCEPT !.toInherit = toInherit, !.toMint = minter[m].toMint]
      BY <1>1 DEF InsertRow, Minter
  <2> HIDE DEF x, id
  <2> QED BY <1>1, <1>6, <2>1, InsertRowInserts
<1>10. Unlocked(m, RowOf[s])
    BY DEF InsertInherited
<1> HIDE DEF x, id
<1> QED BY <1>1, <1>4, <1>6, <1>7, <1>8, <1>9, <1>10, InsertKeeps

LEMMA InsertNewKeeps ==
    ASSUME MintingInv, NEW m \in Minters, NEW s \in SourceIds, InsertNew(m, s)
    PROVE  MintingInv'
<1> DEFINE id == minter[m].claimed[s]
           x == [InsertRow(m, RowOf[s], id) EXCEPT !.toMint = @ \ {s}]
<1>1. /\ minter[m] \in Minter
      /\ MinterInv(m)
      /\ minter[m].state \in Minting
    BY DEF MintingInv, TypeOK, InsertNew, Minting
<1>2. id \in Ids
    BY <1>1 DEF Minter, IdOrNone, MinterInv, ClaimsAreFree, InsertNew
<1>3. minter' = [minter EXCEPT ![m] = x] /\ UNCHANGED <<registry, pool, topUp>>
    BY DEF InsertNew
<1>4. Inserted(m, s, id, x)
  <2> DEFINE toMint == minter[m].toMint \ {s}
  <2>1. x = [InsertRow(m, RowOf[s], id) EXCEPT !.toInherit = minter[m].toInherit, !.toMint = toMint]
      BY <1>1 DEF InsertRow, Minter
  <2> HIDE DEF x, id
  <2> QED BY <1>1, <1>2, <2>1, InsertRowInserts
<1>5. Unlocked(m, RowOf[s])
    BY DEF InsertNew
<1> HIDE DEF x
<1> QED BY <1>1, <1>2, <1>3, <1>4, <1>5, InsertKeeps

LEMMA CheckInheritedKeeps ==
    ASSUME MintingInv, NEW m \in Minters, CheckInherited(m)
    PROVE  MintingInv'
<1> DEFINE x == [minter[m] EXCEPT !.state = "claiming"]
<1>1. minter[m] \in Minter /\ MinterInv(m)
    BY DEF MintingInv, TypeOK
<1>2. x \in Minter /\ x.state = "claiming" /\ x = [minter[m] EXCEPT !.state = "claiming"]
    BY <1>1 DEF Minter, Minting
<1>3. /\ x.batch = minter[m].batch /\ x.found = minter[m].found
      /\ x.claimed = minter[m].claimed /\ x.written = minter[m].written
      /\ x.locked = minter[m].locked
      /\ x.toInherit = minter[m].toInherit /\ x.toMint = minter[m].toMint
    BY <1>1 DEF Minter
<1>4. /\ minter' = [minter EXCEPT ![m] = x] /\ UNCHANGED <<registry, pool, topUp>>
      /\ minter[m].state = "inheriting" /\ InheritedAsExpected(m)
    BY DEF CheckInherited, MintingInv, TypeOK
<1> HIDE DEF x
<1>5. minter'[m] = x
    BY <1>4 DEF MintingInv, TypeOK
<1>6. Inherited(m)' = Inherited(m) /\ Current(m)' = Current(m)
    BY <1>3, <1>4, <1>5 DEF Inherited, Current
<1>7. HoldsNothing(m)' /\ LookedUp(m)' /\ FoundStays(m)' /\ ReturnsRegistered(m)'
    BY <1>1, <1>2, <1>3, <1>4, <1>5 DEF MinterInv, HoldsNothing, LookedUp, FoundStays, ReturnsRegistered, Minting
<1>8. InheritsAsRequested(m)'
    BY <1>1, <1>3, <1>5, <1>6 DEF MinterInv, InheritsAsRequested
<1>9. NewAreCovered(m)'
    BY <1>1, <1>3, <1>4, <1>5, <1>6 DEF MinterInv, NewAreCovered, Minting
<1>10. InheritedAreChecked(m)'
    BY <1>3, <1>4, <1>5, <1>6 DEF InheritedAreChecked, InheritedAsExpected
<1>11. ClaimsAreFree(m)'
    BY <1>1, <1>2, <1>3, <1>4, <1>5 DEF MinterInv, ClaimsAreFree
<1>12. WritesAreNew(m)'
    BY <1>1, <1>3, <1>4, <1>5 DEF MinterInv, WritesAreNew, Succeeds
<1>13. MinterInv(m)'
    BY <1>7, <1>8, <1>9, <1>10, <1>11, <1>12 DEF MinterInv
<1>14. \A u \in Minters \ {m} : x.locked \intersect minter[u].locked = {}
    BY <1>3 DEF MintingInv, LocksAreExclusive
<1>15. \A u \in Minters \ {m} : \A v, w \in SourceIds :
           x.claimed[v] # None => x.claimed[v] # minter[u].claimed[w]
    BY <1>3 DEF MintingInv, ClaimsAreExclusive
<1> QED BY <1>2, <1>4, <1>13, <1>14, <1>15, LocalStep

LEMMA ClaimKeeps ==
    ASSUME MintingInv, NEW m \in Minters, Claim(m)
    PROVE  MintingInv'
<1> USE SourceIdsAssumption, IdsAssumption
<1>1. minter[m] \in Minter /\ MinterInv(m) /\ minter[m].state = "claiming"
    BY DEF MintingInv, TypeOK, Claim
<1>2. PICK f \in Injection(minter[m].toMint, FreeIds(m)) :
          minter' = [minter EXCEPT
              ![m].claimed = [s \in SourceIds |->
                                 IF s \in minter[m].toMint THEN f[s] ELSE None],
              ![m].state = "inserting"]
    BY DEF Claim
<1> DEFINE claimed == [s \in SourceIds |-> IF s \in minter[m].toMint THEN f[s] ELSE None]
           x == [minter[m] EXCEPT !.claimed = claimed, !.state = "inserting"]
<1>3. /\ \A s \in minter[m].toMint : s \in SourceIds /\ f[s] \in FreeIds(m)
      /\ \A s, t \in minter[m].toMint : f[s] = f[t] => s = t
    BY <1>1 DEF Injection, IsInjective, Minter
<1>4. FreeIds(m) \subseteq {c \in Ids : pool[c] = "free"}
    BY DEF FreeIds
<1>5. claimed \in [SourceIds -> IdOrNone]
    BY <1>3, <1>4 DEF IdOrNone
<1>6. /\ minter' = [minter EXCEPT ![m] = x] /\ UNCHANGED <<registry, pool, topUp>>
    BY <1>2 DEF Claim, MintingInv, TypeOK
<1>7. /\ \A s \in SourceIds : claimed[s] # None => s \in minter[m].toMint /\ claimed[s] = f[s]
      /\ \A s \in minter[m].toMint : claimed[s] = f[s] /\ claimed[s] # None
    BY <1>3, <1>4
<1> HIDE DEF claimed
<1>8. /\ x \in Minter /\ x.state = "inserting" /\ x.claimed = claimed
      /\ x.batch = minter[m].batch /\ x.found = minter[m].found
      /\ x.written = minter[m].written
      /\ x.locked = minter[m].locked
      /\ x.toInherit = minter[m].toInherit /\ x.toMint = minter[m].toMint
    BY <1>1, <1>5 DEF Minter, Minting
<1> HIDE DEF x
<1>9. minter'[m] = x
    BY <1>6 DEF MintingInv, TypeOK
<1>10. Inherited(m)' = Inherited(m) /\ Current(m)' = Current(m)
    BY <1>6, <1>8, <1>9 DEF Inherited, Current
<1>11. HoldsNothing(m)' /\ LookedUp(m)' /\ FoundStays(m)' /\ ReturnsRegistered(m)'
    BY <1>1, <1>6, <1>8, <1>9 DEF MinterInv, HoldsNothing, LookedUp, FoundStays, ReturnsRegistered, Minting
<1>12. InheritsAsRequested(m)'
    BY <1>1, <1>8, <1>9, <1>10 DEF MinterInv, InheritsAsRequested
<1>13. NewAreCovered(m)'
    BY <1>1, <1>8, <1>9, <1>10 DEF MinterInv, NewAreCovered, Minting
<1>14. InheritedAreChecked(m)'
    BY <1>1, <1>8, <1>9, <1>10 DEF MinterInv, InheritedAreChecked, InheritedAsExpected
<1>15. ClaimsAreFree(m)'
    BY <1>3, <1>4, <1>6, <1>7, <1>8, <1>9 DEF ClaimsAreFree
<1>16. WritesAreNew(m)'
  <2> SUFFICES ASSUME NEW r \in Rows, minter[m].written[r] # None
               PROVE  /\ r \in minter[m].locked
                      /\ registry[r] = None
                      /\ \E o \in Rows : <<r, o>> \in Succeeds /\ registry[o] = minter[m].written[r]
      BY <1>6, <1>8, <1>9 DEF WritesAreNew, Succeeds
  <2>1. \A s \in SourceIds : minter[m].claimed[s] = None
      BY <1>1 DEF MinterInv, ClaimsAreFree, NoResult
  <2> QED BY <1>1, <2>1 DEF MinterInv, WritesAreNew
<1>17. MinterInv(m)'
    BY <1>11, <1>12, <1>13, <1>14, <1>15, <1>16 DEF MinterInv
<1>18. \A u \in Minters \ {m} : x.locked \intersect minter[u].locked = {}
    BY <1>8 DEF MintingInv, LocksAreExclusive
<1>19. ASSUME NEW u \in Minters \ {m}, NEW s \in SourceIds, NEW t \in SourceIds, claimed[s] # None
       PROVE  claimed[s] # minter[u].claimed[t]
  <2>1. claimed[s] \notin Range(minter[u].claimed)
      BY <1>3, <1>7, <1>19 DEF FreeIds
  <2>2. minter[u].claimed \in [SourceIds -> IdOrNone]
      BY DEF MintingInv, TypeOK, Minter
  <2> QED BY <2>1, <2>2 DEF Range
<1>20. \A u \in Minters \ {m} : \A s, t \in SourceIds :
           x.claimed[s] # None => x.claimed[s] # minter[u].claimed[t]
    BY <1>8, <1>19
<1> QED BY <1>6, <1>8, <1>17, <1>18, <1>20, LocalStep

\* The used ids of minter m are the claimed ones that its rows have.
LEMMA UsedIdsAreClaimed ==
    ASSUME NEW m \in Minters, MinterInv(m), minter[m] \in Minter,
           NEW c \in UsedIds(m)
    PROVE  /\ c \in Ids
           /\ pool[c] = "free"
           /\ \E s \in SourceIds : minter[m].claimed[s] = c /\ Current(m)[RowOf[s]] = c
<1>1. PICK s \in SourceIds : /\ c = minter[m].claimed[s]
                             /\ minter[m].claimed[s] # None
                             /\ Current(m)[RowOf[s]] = minter[m].claimed[s]
    BY DEF UsedIds
<1>2. c \in Ids
    BY <1>1 DEF Minter, IdOrNone
<1> QED BY <1>1, <1>2 DEF MinterInv, ClaimsAreFree

\* A commit rewrites no row.
LEMMA CommitAdds ==
    ASSUME NEW m \in Minters, MinterInv(m), minter[m] \in Minter,
           registry \in [Rows -> IdOrNone]
    PROVE  /\ Current(m) \in [Rows -> IdOrNone]
           /\ \A r \in Rows : registry[r] # None => Current(m)[r] = registry[r]
           /\ \A r \in Rows : Current(m)[r] # registry[r] =>
                  r \in minter[m].locked /\ minter[m].written[r] = Current(m)[r]
<1>1. minter[m].written \in [Rows -> IdOrNone]
    BY DEF Minter
<1> QED BY <1>1 DEF Current, MinterInv, WritesAreNew

\* A commit keeps the invariant of the pool and of every other minter.
LEMMA ApplyKeeps ==
    ASSUME MintingInv, NEW m \in Minters, Apply(m),
           \A u \in Minters \ {m} : minter'[u] = minter[u]
    PROVE  /\ registry' \in [Rows -> IdOrNone]
           /\ pool' \in [Ids -> Status]
           /\ PoolMatchesRegistry'
           /\ \A u \in Minters \ {m} : MinterInv(u)'
<1> USE SourceIdsAssumption, IdsAssumption
<1>1. /\ minter \in [Minters -> Minter] /\ registry \in [Rows -> IdOrNone]
      /\ pool \in [Ids -> Status] /\ TypeOK
      /\ \A u \in Minters : MinterInv(u)
    BY DEF MintingInv, TypeOK
<1>2. /\ registry' = Current(m)
      /\ pool' = [c \in Ids |-> IF c \in UsedIds(m) THEN "assigned" ELSE pool[c]]
    BY DEF Apply
<1>3. /\ registry' \in [Rows -> IdOrNone]
      /\ \A r \in Rows : registry[r] # None => registry'[r] = registry[r]
      /\ \A r \in Rows : registry'[r] # registry[r] =>
             r \in minter[m].locked /\ minter[m].written[r] = registry'[r]
    BY <1>1, <1>2, CommitAdds
<1>4. pool' \in [Ids -> Status]
    BY <1>1, <1>2 DEF Status
<1>5. ASSUME NEW c \in Ids, pool'[c] = "assigned"
      PROVE  \E r \in Rows : registry'[r] = c
  <2>1. CASE c \in UsedIds(m)
    <3>1. PICK s \in SourceIds : Current(m)[RowOf[s]] = c
        BY <1>1, <2>1, UsedIdsAreClaimed
    <3> QED BY <1>2, <3>1
  <2>2. CASE c \notin UsedIds(m)
    <3>1. PICK r \in Rows : registry[r] = c
        BY <1>2, <1>5, <2>2 DEF MintingInv, PoolMatchesRegistry
    <3> QED BY <1>3, <3>1
  <2> QED BY <2>1, <2>2
<1>6. ASSUME NEW c \in Ids, NEW r \in Rows, registry'[r] = c
      PROVE  pool'[c] = "assigned"
  <2>1. CASE \E o \in Rows : registry[o] = c
      BY <1>2, <2>1 DEF MintingInv, PoolMatchesRegistry
  <2>2. CASE ~ \E o \in Rows : registry[o] = c
    <3>1. minter[m].written[r] = c /\ c # None
        BY <1>3, <1>6, <2>2
    <3>2. PICK s \in SourceIds : RowOf[s] = r /\ minter[m].claimed[s] = c
      <4>1. WritesAreNew(m)
          BY <1>1 DEF MinterInv
      <4> QED BY <2>2, <3>1, <4>1 DEF WritesAreNew
    <3>3. c \in UsedIds(m)
        BY <1>2, <1>6, <3>1, <3>2 DEF UsedIds
    <3> QED BY <1>2, <3>3
  <2> QED BY <2>1, <2>2
<1>7. PoolMatchesRegistry'
    BY <1>5, <1>6 DEF PoolMatchesRegistry
<1>8. ASSUME NEW u \in Minters \ {m} PROVE MinterInv(u)'
  <2>1. ASSUME NEW r \in Rows, minter[u].written[r] # None PROVE registry'[r] = None
    <3>1. r \in minter[u].locked /\ registry[r] = None
        BY <1>1, <2>1 DEF MinterInv, WritesAreNew
    <3>2. r \notin minter[m].locked
        BY <3>1 DEF MintingInv, LocksAreExclusive
    <3> QED BY <1>3, <3>1, <3>2
  <2>2. ASSUME NEW s \in SourceIds, minter[u].claimed[s] # None
        PROVE  pool'[minter[u].claimed[s]] = "free"
    <3> DEFINE c == minter[u].claimed[s]
    <3>1. c \in Ids /\ pool[c] = "free"
        BY <1>1, <2>2 DEF Minter, IdOrNone, MinterInv, ClaimsAreFree
    <3>2. c \notin UsedIds(m)
      <4> SUFFICES ASSUME c \in UsedIds(m) PROVE FALSE
          OBVIOUS
      <4>1. \E t \in SourceIds : minter[m].claimed[t] = c
          BY <1>1, UsedIdsAreClaimed
      <4> QED BY <2>2, <4>1 DEF MintingInv, ClaimsAreExclusive
    <3> QED BY <1>2, <3>1, <3>2
  <2>3. minter'[u] = minter[u] /\ MinterInv(u)
      BY <1>1
  <2> QED BY <1>1, <1>3, <2>1, <2>2, <2>3, OthersKeep
<1> QED BY <1>3, <1>4, <1>7, <1>8

\* After a commit the returned ids are those of the registry.
LEMMA ResultIsRegistered ==
    ASSUME MintingInv, NEW m \in Minters, minter[m].state = "inserting",
           minter[m].toMint = {}, NEW q \in minter[m].batch
    PROVE  /\ Result(m)[q.sid] \in Ids
           /\ Current(m)[RowOf[q.sid]] = Result(m)[q.sid]
           /\ q.pred # None /\ minter[m].found[RowOf[q.pred]] # None =>
                  Current(m)[RowOf[q.pred]] = Result(m)[q.sid]
<1> USE SourceIdsAssumption, IdsAssumption
<1> DEFINE found == minter[m].found
<1>1. /\ minter[m] \in Minter /\ MinterInv(m)
      /\ registry \in [Rows -> IdOrNone]
    BY DEF MintingInv, TypeOK
<1>2. /\ q.sid \in SourceIds /\ RowOf[q.sid] \in Rows
      /\ q.pred # None => RowOf[q.pred] \in Rows
      /\ found \in [Rows -> IdOrNone]
    BY <1>1 DEF Minter, MintRequest
<1>3. \A r \in Rows : found[r] # None => Current(m)[r] = found[r]
    BY <1>1, CommitAdds DEF MinterInv, FoundStays
<1>4. Current(m) \in [Rows -> IdOrNone]
    BY <1>1, CommitAdds
<1>5. Predecessor(m, q.sid) = q.pred
    BY <1>1, PredecessorOf DEF MinterInv, LookedUp, Minting
<1>6. Result(m)[q.sid] = IF found[RowOf[q.sid]] # None THEN found[RowOf[q.sid]]
                         ELSE IF q.pred # None THEN found[RowOf[q.pred]]
                         ELSE Current(m)[RowOf[q.sid]]
    BY <1>2, <1>5 DEF Result
<1>7. CASE found[RowOf[q.sid]] # None
  <2>1. q.pred # None /\ found[RowOf[q.pred]] # None =>
            found[RowOf[q.pred]] = found[RowOf[q.sid]]
      BY <1>1, <1>7 DEF MinterInv, LookedUp, Minting, PredecessorsMatch
  <2>2. Result(m)[q.sid] = found[RowOf[q.sid]]
      BY <1>6, <1>7
  <2>3. found[RowOf[q.sid]] \in Ids /\ Current(m)[RowOf[q.sid]] = found[RowOf[q.sid]]
      BY <1>2, <1>3, <1>7 DEF IdOrNone
  <2>4. q.pred # None /\ found[RowOf[q.pred]] # None =>
            Current(m)[RowOf[q.pred]] = found[RowOf[q.pred]]
      BY <1>2, <1>3
  <2> QED BY <2>1, <2>2, <2>3, <2>4
<1>8. CASE found[RowOf[q.sid]] = None /\ q.pred # None
  <2>1. q \in Inherited(m)
      BY <1>8 DEF Inherited, Missing
  <2>2. found[RowOf[q.pred]] # None
      BY <1>1, <2>1 DEF MinterInv, LookedUp, Minting, Inherited
  <2>3. Current(m)[RowOf[q.sid]] = found[RowOf[q.pred]]
      BY <1>1, <2>1 DEF MinterInv, InheritedAreChecked, InheritedAsExpected
  <2>4. Result(m)[q.sid] = found[RowOf[q.pred]]
      BY <1>6, <1>8
  <2>5. found[RowOf[q.pred]] \in Ids /\ Current(m)[RowOf[q.pred]] = found[RowOf[q.pred]]
      BY <1>2, <1>3, <1>8, <2>2 DEF IdOrNone
  <2> QED BY <2>3, <2>4, <2>5
<1>9. CASE found[RowOf[q.sid]] = None /\ q.pred = None
  <2>1. Current(m)[RowOf[q.sid]] # None
      BY <1>1, <1>9 DEF MinterInv, NewAreCovered, Minting, Missing
  <2>2. Current(m)[RowOf[q.sid]] \in Ids
      BY <1>2, <1>4, <2>1 DEF IdOrNone
  <2>3. Result(m)[q.sid] = Current(m)[RowOf[q.sid]]
      BY <1>6, <1>9
  <2> QED BY <1>9, <2>2, <2>3
<1> QED BY <1>7, <1>8, <1>9

LEMMA ResultType ==
    ASSUME MintingInv, NEW m \in Minters, minter[m].state = "inserting",
           minter[m].toMint = {}
    PROVE  Result(m) \in [SourceIds -> IdOrNone]
<1> SUFFICES ASSUME NEW s \in SourceIds PROVE Result(m)[s] \in IdOrNone
    BY DEF Result
<1>1. CASE s \in {q.sid : q \in minter[m].batch}
    BY <1>1, ResultIsRegistered DEF IdOrNone
<1>2. CASE s \notin {q.sid : q \in minter[m].batch}
    BY <1>2 DEF Result, IdOrNone
<1> QED BY <1>1, <1>2

\* A call that has ended, and committed, leaves no claims and no locks.
LEMMA EndedKeeps ==
    ASSUME MintingInv, NEW m \in Minters, Apply(m), NEW x \in Minter,
           minter' = [minter EXCEPT ![m] = x],
           x.claimed = NoResult, x.locked = {}, MinterInv(m)'
    PROVE  MintingInv'
<1>1. minter \in [Minters -> Minter]
    BY DEF MintingInv, TypeOK
<1>2. minter'[m] = x /\ \A u \in Minters \ {m} : minter'[u] = minter[u]
    BY <1>1
<1>3. /\ registry' \in [Rows -> IdOrNone] /\ pool' \in [Ids -> Status]
      /\ PoolMatchesRegistry'
      /\ \A u \in Minters \ {m} : MinterInv(u)'
    BY <1>2, ApplyKeeps
<1>4. TypeOK' /\ AttemptsAreBounded'
    BY <1>1, <1>3 DEF MintingInv, TypeOK, Apply, AttemptsAreBounded
<1>5. LocksAreExclusive'
    BY <1>2 DEF MintingInv, LocksAreExclusive
<1>6. ClaimsAreExclusive'
  <2> SUFFICES ASSUME NEW u \in Minters, NEW v \in Minters, u # v,
                      NEW s \in SourceIds, NEW t \in SourceIds, minter'[u].claimed[s] # None
               PROVE  minter'[u].claimed[s] # minter'[v].claimed[t]
      BY DEF ClaimsAreExclusive
  <2>1. u # m
      BY <1>2 DEF NoResult
  <2>2. v = m => minter'[v].claimed[t] = None
      BY <1>2 DEF NoResult
  <2> QED BY <1>2, <2>1, <2>2 DEF MintingInv, ClaimsAreExclusive
<1> QED BY <1>3, <1>4, <1>5, <1>6 DEF MintingInv

LEMMA CommitKeeps ==
    ASSUME MintingInv, NEW m \in Minters, Commit(m)
    PROVE  MintingInv'
<1> DEFINE result == Result(m)
           x == [Idle EXCEPT !.state = "returned", !.batch = minter[m].batch,
                             !.found = minter[m].found, !.result = result]
<1>1. /\ minter[m] \in Minter /\ MinterInv(m)
      /\ registry \in [Rows -> IdOrNone]
      /\ minter[m].state = "inserting" /\ minter[m].toMint = {}
      /\ registry' = Current(m)
    BY DEF MintingInv, TypeOK, Commit, Apply
<1>2. result \in [SourceIds -> IdOrNone]
    BY <1>1, ResultType
<1>3. minter' = [minter EXCEPT ![m] = x]
    BY DEF Commit
<1> HIDE DEF result
<1>4. /\ x.state = "returned" /\ x.batch = minter[m].batch /\ x.found = minter[m].found
      /\ x.result = result /\ x.toInherit = {}
      /\ x.claimed = NoResult /\ x.written = NoRows /\ x.locked = {}
    BY DEF Idle
<1>5. x \in Minter
    BY <1>1, <1>2, IdleTypes DEF Minter
<1> HIDE DEF x
<1>6. minter'[m] = x
    BY <1>3 DEF MintingInv, TypeOK
<1>7. HoldsNothing(m)' /\ LookedUp(m)' /\ NewAreCovered(m)' /\ InheritedAreChecked(m)' /\ InheritsAsRequested(m)'
    BY <1>4, <1>6 DEF HoldsNothing, LookedUp, NewAreCovered, InheritedAreChecked, InheritsAsRequested, Minting
<1>8. FoundStays(m)'
    BY <1>1, <1>4, <1>6, CommitAdds DEF FoundStays, MinterInv
<1>9. ClaimsAreFree(m)' /\ WritesAreNew(m)'
    BY <1>4, <1>6 DEF ClaimsAreFree, WritesAreNew, NoRows, NoResult
<1>10. ReturnsRegistered(m)'
    BY <1>1, <1>4, <1>6, ResultIsRegistered DEF ReturnsRegistered, result
<1>11. MinterInv(m)'
    BY <1>7, <1>8, <1>9, <1>10 DEF MinterInv
<1> QED BY <1>3, <1>4, <1>5, <1>11, EndedKeeps DEF Commit

LEMMA CommitReplyIsLostKeeps ==
    ASSUME MintingInv, NEW m \in Minters, CommitReplyIsLost(m)
    PROVE  MintingInv'
<1> DEFINE x == [Idle EXCEPT !.state = "raised"]
<1>1. minter' = [minter EXCEPT ![m] = x]
    BY DEF CommitReplyIsLost
<1>2. /\ x.state = "raised" /\ x.found = NoRows /\ x.toInherit = {}
      /\ x.claimed = NoResult /\ x.written = NoRows /\ x.locked = {}
    BY DEF Idle
<1>3. x \in Minter
    BY IdleTypes DEF Minter
<1> HIDE DEF x
<1>4. minter'[m] = x
    BY <1>1 DEF MintingInv, TypeOK
<1>5. HoldsNothing(m)' /\ LookedUp(m)' /\ NewAreCovered(m)' /\ InheritedAreChecked(m)' /\ InheritsAsRequested(m)' /\ ReturnsRegistered(m)'
    BY <1>2, <1>4 DEF HoldsNothing, LookedUp, NewAreCovered, InheritedAreChecked, InheritsAsRequested, ReturnsRegistered, Minting
<1>6. FoundStays(m)'
    BY <1>2, <1>4 DEF FoundStays, NoRows
<1>7. ClaimsAreFree(m)' /\ WritesAreNew(m)'
    BY <1>2, <1>4 DEF ClaimsAreFree, WritesAreNew, NoRows, NoResult
<1>8. MinterInv(m)'
    BY <1>5, <1>6, <1>7 DEF MinterInv
<1> QED BY <1>1, <1>2, <1>3, <1>8, EndedKeeps DEF CommitReplyIsLost

----------------------------------------------------------------------------
LEMMA FreeCount ==
    ASSUME TypeOK
    PROVE  Cardinality({c \in Ids : pool[c] = "free"}) \in Nat
BY IdsAssumption, FS_Subset, FS_CardinalityType

LEMMA CountKeeps ==
    ASSUME MintingInv, CountFreeIds
    PROVE  MintingInv'
<1> DEFINE count == Cardinality({c \in Ids : pool[c] = "free"})
<1>1. count \in Nat /\ Desired \in Nat
    BY FreeCount, IdsAssumption DEF MintingInv
<1> HIDE DEF count
<1>2. topUp \in [attempts : 0..2, shortfall : Nat]
    BY DEF MintingInv, TypeOK
<1>3. topUp' \in [attempts : 0..2, shortfall : Nat] /\ AttemptsAreBounded'
  <2>1. topUp' = IF count >= Desired \/ topUp.attempts = 2
                 THEN NoTopUp ELSE [topUp EXCEPT !.shortfall = Desired - count]
      BY DEF CountFreeIds, count
  <2>2. CASE count >= Desired \/ topUp.attempts = 2
      BY <2>1, <2>2 DEF NoTopUp, AttemptsAreBounded
  <2>3. CASE ~(count >= Desired \/ topUp.attempts = 2)
      BY <1>1, <1>2, <2>1, <2>3 DEF AttemptsAreBounded
  <2> QED BY <2>2, <2>3
<1>4. UNCHANGED <<registry, pool, minter>>
    BY DEF CountFreeIds
<1>5. TypeOK'
    BY <1>3, <1>4 DEF MintingInv, TypeOK
<1>6. PoolMatchesRegistry' /\ LocksAreExclusive' /\ ClaimsAreExclusive'
    BY <1>4 DEF MintingInv, PoolMatchesRegistry, LocksAreExclusive, ClaimsAreExclusive
<1>7. ASSUME NEW u \in Minters PROVE MinterInv(u)'
  <2>1. MinterInv(u) /\ TypeOK
      BY DEF MintingInv
  <2> QED BY <1>4, <2>1, OthersKeep DEF MintingInv, TypeOK, MinterInv, WritesAreNew, ClaimsAreFree
<1> QED BY <1>3, <1>5, <1>6, <1>7 DEF MintingInv

LEMMA SaveKeeps ==
    ASSUME MintingInv, SaveNewIds
    PROVE  MintingInv'
<1> USE IdsAssumption
<1>1. PICK new \in SUBSET Ids :
          /\ new # {}
          /\ Cardinality(new) <= topUp.shortfall
          /\ pool' = [c \in Ids |-> IF c \in new /\ pool[c] = "unknown"
                                    THEN "free" ELSE pool[c]]
    BY DEF SaveNewIds
<1>2. /\ topUp \in [attempts : 0..2, shortfall : Nat] /\ pool \in [Ids -> Status]
      /\ topUp' = [attempts |-> topUp.attempts + 1, shortfall |-> 0]
      /\ UNCHANGED <<registry, minter>>
    BY DEF MintingInv, TypeOK, SaveNewIds
<1>3. topUp' \in [attempts : 0..2, shortfall : Nat] /\ AttemptsAreBounded'
    BY <1>2 DEF MintingInv, AttemptsAreBounded, SaveNewIds
<1>4. pool' \in [Ids -> Status]
    BY <1>1, <1>2 DEF Status
<1>5. \A c \in Ids : pool'[c] = "assigned" <=> pool[c] = "assigned"
    BY <1>1
<1>6. \A c \in Ids : pool[c] = "free" => pool'[c] = "free"
    BY <1>1
<1>7. TypeOK'
    BY <1>2, <1>3, <1>4 DEF MintingInv, TypeOK
<1>8. PoolMatchesRegistry' /\ LocksAreExclusive' /\ ClaimsAreExclusive'
    BY <1>2, <1>5 DEF MintingInv, PoolMatchesRegistry, LocksAreExclusive, ClaimsAreExclusive
<1>9. ASSUME NEW u \in Minters PROVE MinterInv(u)'
  <2>1. MinterInv(u) /\ TypeOK /\ minter[u] \in Minter
      BY DEF MintingInv, TypeOK
  <2>2. \A s \in SourceIds : minter[u].claimed[s] # None => minter[u].claimed[s] \in Ids
      BY <2>1 DEF Minter, IdOrNone
  <2>3. \A s \in SourceIds : minter[u].claimed[s] # None => pool'[minter[u].claimed[s]] = "free"
      BY <1>6, <2>1, <2>2 DEF MinterInv, ClaimsAreFree
  <2>4. \A r \in Rows : minter[u].written[r] # None => registry'[r] = None
      BY <1>2, <2>1 DEF MinterInv, WritesAreNew
  <2> QED BY <1>2, <2>1, <2>3, <2>4, OthersKeep
<1> QED BY <1>3, <1>7, <1>8, <1>9 DEF MintingInv

LEMMA GeneratorStopsKeeps ==
    ASSUME MintingInv, GeneratorStops
    PROVE  MintingInv'
<1>1. topUp' = NoTopUp /\ UNCHANGED <<registry, pool, minter>>
    BY DEF GeneratorStops
<1>2. TypeOK' /\ AttemptsAreBounded'
    BY <1>1 DEF MintingInv, TypeOK, AttemptsAreBounded, NoTopUp
<1>3. PoolMatchesRegistry' /\ LocksAreExclusive' /\ ClaimsAreExclusive'
    BY <1>1 DEF MintingInv, PoolMatchesRegistry, LocksAreExclusive, ClaimsAreExclusive
<1>4. ASSUME NEW u \in Minters PROVE MinterInv(u)'
  <2>1. MinterInv(u) /\ TypeOK
      BY DEF MintingInv
  <2> QED BY <1>1, <2>1, OthersKeep DEF MinterInv, WritesAreNew, ClaimsAreFree
<1> QED BY <1>2, <1>3, <1>4 DEF MintingInv

LEMMA StutterKeeps ==
    ASSUME MintingInv, UNCHANGED vars
    PROVE  MintingInv'
<1>1. UNCHANGED <<registry, pool, minter, topUp>>
    BY DEF vars
<1>2. TypeOK' /\ AttemptsAreBounded'
    BY <1>1 DEF MintingInv, TypeOK, AttemptsAreBounded
<1>3. PoolMatchesRegistry' /\ LocksAreExclusive' /\ ClaimsAreExclusive'
    BY <1>1 DEF MintingInv, PoolMatchesRegistry, LocksAreExclusive, ClaimsAreExclusive
<1>4. ASSUME NEW u \in Minters PROVE MinterInv(u)'
  <2>1. MinterInv(u) /\ TypeOK
      BY DEF MintingInv
  <2> QED BY <1>1, <2>1, OthersKeep DEF MinterInv, WritesAreNew, ClaimsAreFree
<1> QED BY <1>2, <1>3, <1>4 DEF MintingInv

----------------------------------------------------------------------------
LEMMA MintStepKeeps ==
    ASSUME MintingInv, NEW m \in Minters, MintStep(m)
    PROVE  MintingInv'
<1>1. ASSUME NEW batch \in Batches, LookUp(m, batch) PROVE MintingInv'
    BY <1>1, LookUpKeeps
<1>2. ASSUME NEW batch \in Batches, LookUpFails(m, batch) PROVE MintingInv'
    BY <1>2, Resting DEF LookUpFails, Raise
<1>3. ASSUME NEW s \in SourceIds, InsertInherited(m, s) PROVE MintingInv'
    BY <1>3, InsertInheritedKeeps
<1>4. ASSUME NEW s \in SourceIds, InsertNew(m, s) PROVE MintingInv'
    BY <1>4, InsertNewKeeps
<1>5. CASE CheckInherited(m)
    BY <1>5, CheckInheritedKeeps
<1>6. CASE InheritanceFails(m) \/ PoolExhausted(m) \/ StatementFails(m)
    BY <1>6, Resting DEF InheritanceFails, PoolExhausted, StatementFails, Raise
<1>7. CASE Claim(m)
    BY <1>7, ClaimKeeps
<1>8. CASE Commit(m)
    BY <1>8, CommitKeeps
<1>9. CASE CommitReplyIsLost(m)
    BY <1>9, CommitReplyIsLostKeeps
<1>10. CASE Collect(m)
    BY <1>10, CollectKeeps
<1> QED BY <1>1, <1>2, <1>3, <1>4, <1>5, <1>6, <1>7, <1>8, <1>9, <1>10 DEF MintStep

\* Every reachable state satisfies the inductive invariant.
THEOREM MintingInvariant == Spec => []MintingInv
<1>1. Init => MintingInv
    BY InitInv
<1>2. MintingInv /\ [Next]_vars => MintingInv'
  <2> SUFFICES ASSUME MintingInv, [Next]_vars PROVE MintingInv'
      OBVIOUS
  <2>1. ASSUME NEW m \in Minters, MintStep(m) PROVE MintingInv'
      BY <2>1, MintStepKeeps
  <2>2. CASE CountFreeIds
      BY <2>2, CountKeeps
  <2>3. CASE SaveNewIds
      BY <2>3, SaveKeeps
  <2>4. CASE GeneratorStops
      BY <2>4, GeneratorStopsKeeps
  <2>5. CASE UNCHANGED vars
      BY <2>5, StutterKeeps
  <2> QED BY <2>1, <2>2, <2>3, <2>4, <2>5 DEF Next
<1> QED BY <1>1, <1>2, PTL DEF Spec

\* With any number of minters, every state of the tables, the minters and the
\* generator is well typed.
THEOREM MinterTypeCorrect == Spec => []TypeOK
<1>1. MintingInv => TypeOK
    BY DEF MintingInv
<1> QED BY <1>1, MintingInvariant, PTL

\* No id is given away twice or lost to the pool, whatever minters race,
\* raise or lose their connection.
THEOREM PoolAgrees == Spec => []PoolMatchesRegistry
<1>1. MintingInv => PoolMatchesRegistry
    BY DEF MintingInv
<1> QED BY <1>1, MintingInvariant, PTL

\* What mint_ids returns is what the registry holds.
THEOREM ReturnsAgree == Spec => []ReturnedIdsAreRegistered
<1>1. MintingInv => ReturnedIdsAreRegistered
    BY DEF MintingInv, MinterInv, ReturnsRegistered, ReturnedIdsAreRegistered
<1> QED BY <1>1, MintingInvariant, PTL

\* A commit registers its rows as the abstract registry does.
LEMMA ApplyRegisters ==
    ASSUME MintingInv, NEW m \in Minters, Apply(m)
    PROVE  Registry!Next
<1> USE SourceIdsAssumption, IdsAssumption
<1> DEFINE written == minter[m].written
           new == {r \in Rows : written[r] # None}
           id == [r \in new |-> written[r]]
<1>1. /\ minter[m] \in Minter /\ MinterInv(m)
      /\ written \in [Rows -> IdOrNone]
      /\ registry \in [Rows -> IdOrNone]
    BY DEF MintingInv, TypeOK, Minter
<1>2. id \in [new -> Ids]
    BY <1>1 DEF IdOrNone
<1>3. registry' = [r \in Rows |-> IF r \in new THEN id[r] ELSE registry[r]]
    BY DEF Apply, Current
<1>4. ASSUME NEW r \in new
      PROVE  /\ registry[r] = None
             /\ \/ \E o \in Rows : <<r, o>> \in Succeeds /\ registry[o] = id[r]
                \/ /\ \A o \in Rows : registry[o] # id[r]
                   /\ \A o \in new \ {r} : id[o] # id[r]
  <2>1. WritesAreNew(m) /\ ClaimsAreFree(m)
      BY <1>1 DEF MinterInv
  <2>2. registry[r] = None
      BY <2>1 DEF WritesAreNew
  <2>3. CASE \E o \in Rows : <<r, o>> \in Succeeds /\ registry[o] = written[r]
      BY <2>2, <2>3
  <2>4. CASE \E s \in SourceIds : RowOf[s] = r /\ minter[m].claimed[s] = written[r]
    <3>1. PICK s \in SourceIds : RowOf[s] = r /\ minter[m].claimed[s] = written[r]
        BY <2>4
    <3>2. written[r] \in Ids /\ pool[written[r]] = "free"
        BY <1>2, <2>1, <3>1 DEF ClaimsAreFree
    <3>3. \A o \in Rows : registry[o] # written[r]
        BY <3>2 DEF MintingInv, PoolMatchesRegistry
    <3>4. ASSUME NEW o \in new \ {r}, written[o] = written[r] PROVE FALSE
      <4>1. PICK t \in SourceIds : RowOf[t] = o /\ minter[m].claimed[t] = written[o]
        <5>1. o \in Rows /\ written[o] # None
            OBVIOUS
        <5>2. ~ \E p \in Rows : <<o, p>> \in Succeeds /\ registry[p] = written[o]
            BY <3>3, <3>4
        <5> QED BY <2>1, <5>1, <5>2 DEF WritesAreNew
      <4>2. t = s
          BY <2>1, <3>1, <3>2, <3>4, <4>1 DEF ClaimsAreFree
      <4> QED BY <3>1, <4>1, <4>2
    <3> QED BY <2>2, <3>3, <3>4
  <2> QED BY <2>1, <2>3, <2>4 DEF WritesAreNew
<1> HIDE DEF new, id
<1>5. new \in SUBSET Rows
    BY DEF new
<1>6. Registry!Register(new, id)
    BY <1>3, <1>4 DEF Registry!Register
<1> QED BY <1>2, <1>5, <1>6 DEF Registry!Next

\* The transactions implement the abstract registry: whatever they interleave,
\* a registered id never changes and is new or that of a predecessor.
THEOREM MintingImplementsRegistry == Spec => RegistrySpec
<1>1. Init => Registry!Init
    BY DEF Init, Registry!Init, NoRows
<1>2. MintingInv /\ [Next]_vars => [Registry!Next]_registry
  <2> SUFFICES ASSUME MintingInv, [Next]_vars
               PROVE  Registry!Next \/ UNCHANGED registry
      OBVIOUS
  <2>1. ASSUME NEW m \in Minters, Apply(m) PROVE Registry!Next
      BY <2>1, ApplyRegisters
  <2>2. ASSUME NEW m \in Minters, MintStep(m), ~Apply(m) PROVE UNCHANGED registry
      BY <2>2 DEF MintStep, LookUp, LookUpFails, InsertInherited, InsertNew,
                  CheckInherited, InheritanceFails, Claim, PoolExhausted, Commit,
                  CommitReplyIsLost, StatementFails, Collect, Raise
  <2>3. CASE CountFreeIds \/ SaveNewIds \/ GeneratorStops \/ UNCHANGED vars
      BY <2>3 DEF CountFreeIds, SaveNewIds, GeneratorStops, vars
  <2> QED BY <2>1, <2>2, <2>3 DEF Next
<1> QED BY <1>1, <1>2, MintingInvariant, PTL DEF Spec, RegistrySpec, Registry!Spec
=============================================================================
