------------------------- MODULE WindowHarvestProofs -------------------------
(***************************************************************************)
(* Proofs about the OAI-PMH adapters for any records, ranges, windows,     *)
(* batches and faults: a window that is marked as harvested is stored, and *)
(* no change of the store is forgotten before it is published.             *)
(***************************************************************************)
EXTENDS WindowHarvest, MCWindowCoverage, FiniteSetTheorems, SequenceTheorems,
        WellFoundedInduction, TLAPS

----------------------------------------------------------------------------
(***************************************************************************)
(* What an incremental update does to the rows of the store.               *)
(***************************************************************************)

\* A commit of rows with Update's type keeps the table's.
LEMMA CommitType ==
    ASSUME NEW t, IsTable(t), NEW written, DOMAIN written \subseteq Ids,
           \A id \in DOMAIN written : written[id] \in Update
    PROVE  IsTable(CommitChangeset(t, written))
<1> DEFINE new == CommitChangeset(t, written)
<1>1. DOMAIN new \subseteq Ids
  BY DEF IsTable, CommitChangeset
<1>2. Changeset(written) \in SUBSET (Ids \X Nat)
  BY DEF Changeset, Update
<1>3. ASSUME NEW id \in DOMAIN written
      PROVE  new[id] \in AdapterRow /\ <<id, new[id].lastModified>> \in new[id].changeset
  <2>1. new[id] = TaggedRow(written[id], Changeset(written))
    BY <1>3 DEF CommitChangeset
  <2>2. <<id, written[id].lastModified>> \in Changeset(written)
    BY <1>3 DEF Changeset
  <2>3. written[id] \in Update
    BY <1>3
  <2> HIDE DEF new
  <2> QED
    BY <1>2, <2>1, <2>2, <2>3 DEF TaggedRow, AdapterRow, Update
<1>4. ASSUME NEW id \in DOMAIN t \ DOMAIN written
      PROVE  new[id] \in AdapterRow /\ <<id, new[id].lastModified>> \in new[id].changeset
  <2>1. new[id] = t[id]
    BY <1>4 DEF CommitChangeset
  <2> HIDE DEF new
  <2> QED
    BY <1>4, <2>1 DEF IsTable
<1> QED
  BY <1>1, <1>3, <1>4 DEF IsTable, CommitChangeset

\* The rows that an incremental update writes are of records that it brings.
LEMMA IncrementalChangesType ==
    ASSUME NEW t, IsTable(t), NEW new, \A id \in DOMAIN new : new[id] \in Update
    PROVE  \A id \in DOMAIN IncrementalChanges(t, new) :
               IncrementalChanges(t, new)[id] \in Update /\ id \in DOMAIN new
<1> DEFINE changes == IncrementalChanges(t, new)
<1> USE DEF IncrementalChanges, FindInserts, FindUpdates, FilterByTimestamp
<1>1. \A id \in DOMAIN changes : changes[id] \in Update /\ id \in DOMAIN new
  <2> SUFFICES ASSUME NEW id \in DOMAIN changes
               PROVE  changes[id] \in Update /\ id \in DOMAIN new
    OBVIOUS
  <2>1. id \in DOMAIN new
    OBVIOUS
  <2>2. CASE id \notin DOMAIN t
    BY <2>1, <2>2
  <2>3. CASE id \in DOMAIN t
    <3>1. changes[id] = PreserveContent(t[id], new[id])
      BY <2>3
    <3>2. t[id] \in AdapterRow /\ new[id] \in Update
      BY <2>1, <2>3 DEF IsTable
    <3> HIDE DEF changes
    <3> QED
      BY <2>1, <3>1, <3>2 DEF PreserveContent, AdapterRow, Update
  <2> QED
    BY <2>2, <2>3
<1> QED
  BY <1>1

\* The changeset of an incremental update.
LEMMA IncrementalChangesetType ==
    ASSUME NEW t, IsTable(t), NEW new, DOMAIN new \subseteq Ids,
           \A id \in DOMAIN new : new[id] \in Update
    PROVE  Changeset(IncrementalChanges(t, new)) \in SUBSET (Ids \X Nat)
<1> DEFINE changes == IncrementalChanges(t, new)
<1>1. \A id \in DOMAIN changes : changes[id] \in Update /\ id \in DOMAIN new
  BY IncrementalChangesType
<1> HIDE DEF changes
<1>2. \A id \in DOMAIN changes : changes[id].lastModified \in Nat /\ id \in Ids
  BY <1>1 DEF Update
<1>3. Changeset(changes) \in SUBSET (Ids \X Nat)
  BY <1>2 DEF Changeset
<1> QED
  BY <1>3 DEF changes

\* What an incremental update leaves of a record that it brings: the row as it
\* comes, the row with the content kept for a deletion, or the old row.
Takes(t, after, id, row) ==
    IF id \notin DOMAIN t THEN \E c : after[id] = TaggedRow(row, c)
    ELSE IF /\ row.content # t[id].content
            /\ row.lastModified > t[id].lastModified
         THEN \E c : after[id] = TaggedRow(PreserveContent(t[id], row), c)
         ELSE after[id] = t[id]

LEMMA IncrementalCommit ==
    ASSUME NEW t, IsTable(t), NEW new, DOMAIN new \subseteq Ids,
           \A id \in DOMAIN new : new[id] \in Update,
           NEW after, after = CommitChangeset(t, IncrementalChanges(t, new))
    PROVE  /\ IsTable(after)
           /\ DOMAIN after = DOMAIN t \union DOMAIN new
           /\ \A id \in DOMAIN t \ DOMAIN new : after[id] = t[id]
           /\ \A id \in DOMAIN new : Takes(t, after, id, new[id])
<1> DEFINE changes == IncrementalChanges(t, new)
<1> USE DEF IncrementalChanges, FindInserts, FindUpdates, FilterByTimestamp
<1>1. \A id \in DOMAIN changes : changes[id] \in Update /\ id \in DOMAIN new
  BY IncrementalChangesType
<1>2. IsTable(after)
  BY <1>1, CommitType
<1>3. DOMAIN after = DOMAIN t \union DOMAIN new
  BY DEF CommitChangeset
<1>4. \A id \in DOMAIN t \ DOMAIN new : after[id] = t[id]
  BY <1>1 DEF CommitChangeset
<1>5. ASSUME NEW id \in DOMAIN new, id \notin DOMAIN t
      PROVE  after[id] = TaggedRow(new[id], Changeset(changes))
  BY <1>5 DEF CommitChangeset
<1>6. ASSUME NEW id \in DOMAIN new, id \in DOMAIN t,
             new[id].content # t[id].content,
             new[id].lastModified > t[id].lastModified
      PROVE  after[id] = TaggedRow(PreserveContent(t[id], new[id]), Changeset(changes))
  <2>1. id \in DOMAIN changes /\ changes[id] = PreserveContent(t[id], new[id])
    BY <1>6
  <2>2. after = CommitChangeset(t, changes)
    OBVIOUS
  <2> HIDE DEF changes
  <2>3. after[id] = TaggedRow(changes[id], Changeset(changes))
    BY <2>1, <2>2 DEF CommitChangeset
  <2> QED
    BY <2>1, <2>3
<1>7. ASSUME NEW id \in DOMAIN new, id \in DOMAIN t,
             ~(/\ new[id].content # t[id].content
               /\ new[id].lastModified > t[id].lastModified)
      PROVE  after[id] = t[id]
  BY <1>7 DEF CommitChangeset
<1>8. ASSUME NEW id \in DOMAIN new PROVE Takes(t, after, id, new[id])
  BY <1>5, <1>6, <1>7 DEF Takes
<1> QED
  BY <1>2, <1>3, <1>4, <1>8
----------------------------------------------------------------------------
(***************************************************************************)
(* Bounded sets of integers, and the grid.                                 *)
(***************************************************************************)
LEMMA LeastNatural ==
    ASSUME NEW T \in SUBSET Nat, T # {}
    PROVE  \E m \in T : \A n \in T : m <= n
<1>1. PICK x \in T : \A y \in T : ~(<<y, x>> \in OpToRel(<, Nat))
  BY WFMin, NatLessThanWellFounded
<1> SUFFICES ASSUME NEW y \in T, y < x PROVE FALSE
  OBVIOUS
<1>2. <<y, x>> \in Nat \X Nat /\ <<y, x>>[1] < <<y, x>>[2]
  OBVIOUS
<1>3. <<y, x>> \in {pair \in Nat \X Nat : pair[1] < pair[2]}
  BY <1>2
<1> QED
  BY <1>1, <1>3 DEF OpToRel

LEMMA LeastInteger ==
    ASSUME NEW S \in SUBSET Int, S # {}, NEW b \in Int, \A x \in S : b <= x
    PROVE  Min(S) \in S /\ \A x \in S : Min(S) <= x
<1> DEFINE T == {x - b : x \in S}
<1>a. ASSUME NEW x \in S PROVE x - b \in Nat
  OBVIOUS
<1>1. T \in SUBSET Nat /\ T # {}
  BY <1>a
<1>2. PICK m \in T : \A n \in T : m <= n
  BY <1>1, LeastNatural
<1>3. PICK x \in S : m = x - b
  OBVIOUS
<1>4. \A y \in S : x <= y
  <2> SUFFICES ASSUME NEW y \in S PROVE x <= y
    OBVIOUS
  <2>1. y - b \in T
    OBVIOUS
  <2>2. m <= y - b
    BY <1>2, <2>1
  <2> QED
    BY <1>3, <2>2
<1> QED
  BY <1>4 DEF Min

LEMMA GreatestInteger ==
    ASSUME NEW S \in SUBSET Int, S # {}, NEW b \in Int, \A x \in S : x <= b
    PROVE  Max(S) \in S /\ \A x \in S : x <= Max(S)
<1> DEFINE T == {b - x : x \in S}
<1>1. T \in SUBSET Nat /\ T # {}
  OBVIOUS
<1>2. PICK m \in T : \A n \in T : m <= n
  BY <1>1, LeastNatural
<1>3. PICK x \in S : m = b - x
  OBVIOUS
<1>4. \A y \in S : y <= x
  <2> SUFFICES ASSUME NEW y \in S PROVE y <= x
    OBVIOUS
  <2>1. b - y \in T
    OBVIOUS
  <2>2. m <= b - y
    BY <1>2, <2>1
  <2> QED
    BY <1>3, <2>2
<1> QED
  BY <1>4 DEF Max

LEMMA BoundaryBelow ==
    ASSUME NEW t \in Int
    PROVE  /\ Boundary(t) \in Int
           /\ Boundary(t) <= t
           /\ t < Boundary(t) + WindowMinutes
BY WindowMinutesAssumption DEF Boundary

LEMMA Monotone ==
    ASSUME NEW i \in Int, NEW q \in Int, NEW W \in Nat, i <= q
    PROVE  i * W <= q * W
OBVIOUS

LEMMA BoundaryMonotone ==
    ASSUME NEW s \in Int, NEW t \in Int, s <= t
    PROVE  Boundary(s) <= Boundary(t)
<1>1. WindowMinutes \in Nat \ {0}
  BY WindowMinutesAssumption
<1>2. /\ s \div WindowMinutes \in Int /\ t \div WindowMinutes \in Int
      /\ s \div WindowMinutes <= t \div WindowMinutes
  BY <1>1
<1> QED
  BY <1>1, <1>2, Monotone DEF Boundary

\* The windows of a range that reaches a boundary lie in it.
LEMMA WindowsInsideRange ==
    ASSUME NEW start \in Int, NEW end \in Int, start <= Boundary(end),
           NEW w \in GenerateWindows(start, end)
    PROVE  /\ w \in Window
           /\ start <= w.start /\ start <= w.end
           /\ w.end <= Boundary(end)
<1>1. EffectiveEnd(start, end) = Boundary(end) /\ Boundary(end) \in Int
  BY BoundaryBelow DEF EffectiveEnd
<1>2. WindowMinutes \in Nat \ {0}
  BY WindowMinutesAssumption
<1>3. /\ start \div WindowMinutes \in Int
      /\ (Boundary(end) - 1) \div WindowMinutes \in Int
  BY <1>1, <1>2
<1>4. PICK i \in (start \div WindowMinutes)..((Boundary(end) - 1) \div WindowMinutes) :
          w = [start |-> Larger(start, i * WindowMinutes),
               end   |-> Smaller((i + 1) * WindowMinutes, Boundary(end))]
  BY <1>1 DEF GenerateWindows
<1>5. i \in Int /\ i * WindowMinutes \in Int /\ (i + 1) * WindowMinutes \in Int
  BY <1>2, <1>3, <1>4
<1>6. start < (start \div WindowMinutes) * WindowMinutes + WindowMinutes
  BY BoundaryBelow DEF Boundary
<1>7. /\ start \div WindowMinutes + 1 <= i + 1
      /\ (start \div WindowMinutes + 1) * WindowMinutes
             = (start \div WindowMinutes) * WindowMinutes + WindowMinutes
  BY <1>2, <1>3, <1>4, <1>5
<1>8. (start \div WindowMinutes + 1) * WindowMinutes <= (i + 1) * WindowMinutes
  BY <1>2, <1>3, <1>5, <1>7, Monotone
<1>9. start <= (i + 1) * WindowMinutes
  <2>1. (start \div WindowMinutes) * WindowMinutes \in Int
    BY <1>2, <1>3
  <2> QED
    BY <1>2, <1>5, <1>6, <1>7, <1>8, <2>1
<1> QED
  BY <1>1, <1>4, <1>5, <1>9 DEF Larger, Smaller, Window

----------------------------------------------------------------------------
(***************************************************************************)
(* Sorted windows.                                                         *)
(***************************************************************************)

\* How many windows of S come before w.
Rank(S, w) == Cardinality({v \in S : Before(v, w)})

LEMMA BeforeIsAnOrder ==
    ASSUME NEW u \in Window, NEW v \in Window, NEW w \in Window
    PROVE  /\ ~Before(u, u)
           /\ Before(u, v) /\ Before(v, w) => Before(u, w)
           /\ u # v => Before(u, v) \/ Before(v, u)
           /\ Before(u, v) => u.start <= v.start
BY DEF Before, Window

LEMMA RanksDiffer ==
    ASSUME NEW S \in SUBSET Window, IsFiniteSet(S)
    PROVE  /\ \A w \in S : Rank(S, w) \in 0..(Cardinality(S) - 1)
           /\ \A v, w \in S : Before(v, w) => Rank(S, v) < Rank(S, w)
<1> DEFINE Earlier(w) == {v \in S : Before(v, w)}
<1>1. \A w \in S : /\ IsFiniteSet(Earlier(w))
                   /\ Cardinality(Earlier(w)) \in Nat
                   /\ Cardinality(Earlier(w)) <= Cardinality(S)
                   /\ Earlier(w) # S => Cardinality(Earlier(w)) # Cardinality(S)
  <2> SUFFICES ASSUME NEW w \in S
               PROVE  /\ IsFiniteSet(Earlier(w))
                      /\ Cardinality(Earlier(w)) \in Nat
                      /\ Cardinality(Earlier(w)) <= Cardinality(S)
                      /\ Earlier(w) # S => Cardinality(Earlier(w)) # Cardinality(S)
    OBVIOUS
  <2>1. Earlier(w) \in SUBSET S
    OBVIOUS
  <2> HIDE DEF Earlier
  <2> QED
    BY <2>1, FS_Subset, FS_CardinalityType
<1>2. Cardinality(S) \in Nat
  BY FS_CardinalityType
<1>3. ASSUME NEW w \in S PROVE Rank(S, w) \in 0..(Cardinality(S) - 1)
  <2>1. w \notin Earlier(w)
    BY BeforeIsAnOrder
  <2> HIDE DEF Earlier
  <2>2. Cardinality(Earlier(w)) \in 0..(Cardinality(S) - 1)
    BY <1>1, <1>2, <2>1
  <2> QED
    BY <2>2 DEF Rank, Earlier
<1>4. ASSUME NEW v \in S, NEW w \in S, Before(v, w) PROVE Rank(S, v) < Rank(S, w)
  <2>1. Earlier(v) \in SUBSET Earlier(w)
    BY <1>4, BeforeIsAnOrder
  <2>2. v \in Earlier(w) /\ v \notin Earlier(v)
    BY <1>4, BeforeIsAnOrder
  <2> HIDE DEF Earlier
  <2>3. Cardinality(Earlier(v)) <= Cardinality(Earlier(w))
    BY <1>1, <2>1, FS_Subset
  <2>4. Cardinality(Earlier(v)) # Cardinality(Earlier(w))
    BY <1>1, <2>1, <2>2, FS_Subset
  <2>5. Cardinality(Earlier(v)) < Cardinality(Earlier(w))
    BY <1>1, <2>3, <2>4
  <2> QED
    BY <2>5 DEF Rank, Earlier
<1> QED
  BY <1>3, <1>4

\* SortedByStart has every window once, in order.
LEMMA SortedHasAll ==
    ASSUME NEW S \in SUBSET Window, IsFiniteSet(S)
    PROVE  /\ SortedByStart(S) \in Seq(S)
           /\ Len(SortedByStart(S)) = Cardinality(S)
           /\ \A w \in S : \E i \in 1..Cardinality(S) : SortedByStart(S)[i] = w
           /\ \A i, j \in 1..Cardinality(S) :
                  i < j => SortedByStart(S)[i].start <= SortedByStart(S)[j].start
<1> DEFINE n == Cardinality(S)
           sorted == SortedByStart(S)
           place == [w \in S |-> Rank(S, w) + 1]
<1>1. n \in Nat /\ IsFiniteSet(1..n) /\ Cardinality(1..n) = n
  BY FS_CardinalityType, FS_Interval
<1> HIDE DEF n
<1>2. ASSUME NEW v \in S, NEW w \in S, v # w PROVE Rank(S, v) # Rank(S, w)
  <2>1. Before(v, w) \/ Before(w, v)
    BY <1>2, BeforeIsAnOrder
  <2>2. Rank(S, v) \in Int /\ Rank(S, w) \in Int
    BY <1>1, RanksDiffer DEF n
  <2> QED
    BY <2>1, <2>2, RanksDiffer
<1>3. place \in Injection(S, 1..n)
  <2>1. \A w \in S : Rank(S, w) \in 0..(n - 1)
    BY RanksDiffer DEF n
  <2>2. place \in [S -> 1..n]
    BY <1>1, <2>1
  <2>3. \A v, w \in S : place[v] = place[w] => v = w
    BY <1>1, <1>2, <2>1
  <2> HIDE DEF place
  <2> QED
    BY <2>2, <2>3 DEF Injection, IsInjective
<1>4. place \in Surjection(S, 1..n)
  <2>1. Cardinality(S) = Cardinality(1..n)
    BY <1>1 DEF n
  <2> QED
    BY <1>1, <1>3, <2>1, FS_Injection
<1>5. ASSUME NEW i \in 1..n PROVE sorted[i] \in S /\ Rank(S, sorted[i]) = i - 1
  <2>1. PICK w \in S : place[w] = i
    BY <1>4 DEF Surjection
  <2>2. Rank(S, w) = i - 1
    <3>1. Rank(S, w) \in 0..(n - 1)
      BY RanksDiffer DEF n
    <3> QED
      BY <1>1, <2>1, <3>1
  <2>3. sorted[i] = CHOOSE v \in S : Rank(S, v) = i - 1
    BY DEF SortedByStart, Rank, n
  <2> QED
    BY <2>2, <2>3
<1>6. ASSUME NEW w \in S PROVE \E i \in 1..n : sorted[i] = w
  <2>1. place[w] \in 1..n /\ Rank(S, w) = place[w] - 1
    <3>1. Rank(S, w) \in 0..(n - 1)
      BY RanksDiffer DEF n
    <3> QED
      BY <1>1, <3>1
  <2>2. sorted[place[w]] \in S /\ Rank(S, sorted[place[w]]) = Rank(S, w)
    BY <1>5, <2>1
  <2> HIDE DEF sorted, place
  <2> QED
    BY <1>2, <2>1, <2>2
<1>7. ASSUME NEW i \in 1..n, NEW j \in 1..n, i < j
      PROVE  sorted[i].start <= sorted[j].start
  <2>1. /\ sorted[i] \in S /\ Rank(S, sorted[i]) = i - 1
        /\ sorted[j] \in S /\ Rank(S, sorted[j]) = j - 1
    BY <1>5
  <2> HIDE DEF sorted
  <2>2. ~Before(sorted[j], sorted[i])
    <3> SUFFICES ASSUME Before(sorted[j], sorted[i]) PROVE FALSE
      OBVIOUS
    <3>1. j - 1 < i - 1
      BY <2>1, RanksDiffer
    <3> QED
      BY <1>1, <1>7, <3>1
  <2>3. sorted[i] # sorted[j]
    <3>1. i - 1 # j - 1
      BY <1>1, <1>7
    <3> QED
      BY <2>1, <3>1
  <2>4. sorted[i] \in Window /\ sorted[j] \in Window
    BY <2>1
  <2> QED
    BY <2>2, <2>3, <2>4, BeforeIsAnOrder
<1>8. sorted \in Seq(S) /\ Len(sorted) = n
  <2> DEFINE At(i) == CHOOSE w \in S : Rank(S, w) = i - 1
  <2>1. sorted = [i \in 1..n |-> At(i)]
    BY DEF SortedByStart, Rank, n
  <2> HIDE DEF sorted, At
  <2>2. sorted \in [1..n -> S]
    BY <1>5, <2>1
  <2> QED
    BY <1>1, <2>2
<1> QED
  BY <1>6, <1>7, <1>8 DEF n
----------------------------------------------------------------------------
(***************************************************************************)
(* Merged intervals.                                                       *)
(***************************************************************************)

\* m has the merged intervals after every one of the first n.
Merges(m, s, n) ==
    m = [k \in 0..n |-> IF k = 0 THEN <<>> ELSE MergeNext(m[k - 1], s[k])]

LEMMA MergesExtend ==
    ASSUME NEW s, NEW n \in Nat, NEW m, Merges(m, s, n)
    PROVE  \E q : Merges(q, s, n + 1)
<1> DEFINE q == [k \in 0..(n + 1) |->
                    IF k = n + 1 THEN MergeNext(m[n], s[n + 1]) ELSE m[k]]
<1>1. \A k \in 0..n : q[k] = m[k]
  OBVIOUS
<1>2. \A k \in 0..n : m[k] = IF k = 0 THEN <<>> ELSE MergeNext(m[k - 1], s[k])
  BY DEF Merges
<1>3. ASSUME NEW k \in 0..(n + 1)
      PROVE  q[k] = IF k = 0 THEN <<>> ELSE MergeNext(q[k - 1], s[k])
  <2>1. CASE k = n + 1
    <3>1. q[k] = MergeNext(m[n], s[k]) /\ q[k - 1] = m[n]
      BY <1>1, <2>1
    <3> HIDE DEF q
    <3> QED
      BY <2>1, <3>1
  <2>2. CASE k = 0
    <3>1. q[k] = m[0] /\ m[0] = <<>>
      BY <1>1, <1>2, <2>2
    <3> HIDE DEF q
    <3> QED
      BY <2>2, <3>1
  <2>3. CASE k \in 1..n
    <3>1. q[k] = m[k] /\ q[k - 1] = m[k - 1] /\ m[k] = MergeNext(m[k - 1], s[k])
      BY <1>1, <1>2, <2>3
    <3> HIDE DEF q
    <3> QED
      BY <2>3, <3>1
  <2> QED
    BY <2>1, <2>2, <2>3
<1>4. q = [k \in 0..(n + 1) |-> q[k]]
  OBVIOUS
<1> HIDE DEF q
<1>5. q = [k \in 0..(n + 1) |-> IF k = 0 THEN <<>> ELSE MergeNext(q[k - 1], s[k])]
  BY <1>3, <1>4, Zenon
<1> QED
  BY <1>5 DEF Merges

LEMMA MergesExist ==
    ASSUME NEW s, NEW n \in Nat
    PROVE  \E m : Merges(m, s, n)
<1> DEFINE missing == {k \in Nat : ~\E m : Merges(m, s, k)}
<1> SUFFICES ASSUME missing # {} PROVE FALSE
  OBVIOUS
<1>1. PICK k \in missing : \A j \in missing : k <= j
  BY LeastNatural
<1>2. CASE k = 0
  <2> DEFINE m == [j \in 0..0 |-> <<>>]
  <2>1. m = [j \in 0..0 |-> IF j = 0 THEN <<>> ELSE MergeNext(m[j - 1], s[j])]
    OBVIOUS
  <2> HIDE DEF m
  <2>2. Merges(m, s, 0)
    BY <2>1 DEF Merges
  <2> QED
    BY <1>1, <1>2, <2>2
<1>3. CASE k # 0
  <2>1. k - 1 \in Nat /\ k - 1 \notin missing /\ (k - 1) + 1 = k
    BY <1>1, <1>3
  <2>2. PICK m : Merges(m, s, k - 1)
    BY <2>1
  <2>3. \E q : Merges(q, s, k)
    BY <2>1, <2>2, MergesExtend
  <2> QED
    BY <1>1, <2>3
<1> QED
  BY <1>2, <1>3

\* MergeIntervals, one interval after another.
LEMMA MergeSteps ==
    ASSUME NEW s, Len(s) \in Nat
    PROVE  \E m : /\ m[0] = <<>>
                  /\ \A k \in 1..Len(s) : m[k] = MergeNext(m[k - 1], s[k])
                  /\ MergeIntervals(s) = m[Len(s)]
<1> DEFINE m == CHOOSE m : Merges(m, s, Len(s))
<1>1. Merges(m, s, Len(s))
  BY MergesExist
<1>2. MergeIntervals(s) = m[Len(s)]
  BY DEF MergeIntervals, Merges
<1> HIDE DEF m
<1>3. \A k \in 0..Len(s) : m[k] = IF k = 0 THEN <<>> ELSE MergeNext(m[k - 1], s[k])
  BY <1>1 DEF Merges
<1>4. m[0] = <<>> /\ \A k \in 1..Len(s) : m[k] = MergeNext(m[k - 1], s[k])
  BY <1>3
<1> QED
  BY <1>2, <1>4

\* The last interval is extended to the end of v, or v comes after it.
Extended(next, M, v) ==
    /\ Len(M) > 0 /\ v.start <= M[Len(M)].end
    /\ Len(next) = Len(M)
    /\ \A i \in 1..(Len(M) - 1) : next[i] = M[i]
    /\ next[Len(M)].start = M[Len(M)].start
    /\ next[Len(M)].end = Larger(M[Len(M)].end, v.end)

Followed(next, M, v) ==
    /\ Len(M) > 0 => M[Len(M)].end < v.start
    /\ Len(next) = Len(M) + 1
    /\ \A i \in 1..Len(M) : next[i] = M[i]
    /\ next[Len(M) + 1] = v

LEMMA NextMerged ==
    ASSUME NEW M \in Seq(Window), NEW v \in Window, NEW next, next = MergeNext(M, v)
    PROVE  /\ next \in Seq(Window) /\ next # <<>>
           /\ Extended(next, M, v) \/ Followed(next, M, v)
<1>1. Len(M) \in Nat /\ (M # <<>> <=> Len(M) > 0)
  OBVIOUS
<1>2. CASE Len(M) > 0 /\ v.start <= M[Len(M)].end
  <2> DEFINE last == [M[Len(M)] EXCEPT !.end = Larger(M[Len(M)].end, v.end)]
  <2>1. M[Len(M)] \in Window /\ Len(M) \in 1..Len(M)
    BY <1>1, <1>2
  <2>2. /\ last \in Window
        /\ last.start = M[Len(M)].start
        /\ last.end = Larger(M[Len(M)].end, v.end)
    BY <2>1 DEF Window, Larger
  <2>3. next = [M EXCEPT ![Len(M)] = last]
    BY <1>1, <1>2 DEF MergeNext, Last
  <2> HIDE DEF last
  <2>4. /\ next \in Seq(Window) /\ Len(next) = Len(M)
        /\ \A i \in 1..Len(M) : next[i] = IF i = Len(M) THEN last ELSE M[i]
    BY <2>1, <2>2, <2>3, ExceptSeq
  <2>5. next # <<>> /\ next[Len(M)] = last /\ \A i \in 1..(Len(M) - 1) : next[i] = M[i]
    BY <1>1, <1>2, <2>1, <2>4
  <2> QED
    BY <1>2, <2>2, <2>4, <2>5 DEF Extended
<1>3. CASE Len(M) > 0 => ~(v.start <= M[Len(M)].end)
  <2>1. next = Append(M, v)
    BY <1>1, <1>3 DEF MergeNext, Last
  <2>2. Len(M) > 0 => M[Len(M)].end < v.start
    <3> SUFFICES ASSUME Len(M) > 0 PROVE M[Len(M)].end < v.start
      OBVIOUS
    <3>1. M[Len(M)] \in Window
      BY <1>1
    <3> QED
      BY <1>3, <3>1 DEF Window
  <2> QED
    BY <2>1, <2>2, AppendProperties DEF Followed
<1> QED
  BY <1>2, <1>3

\* Intervals merged from the first k begin and end where some of these do.
MergedFrom(M, s, k) ==
    /\ M \in Seq(Window)
    /\ k > 0 => M # <<>>
    /\ \A i \in 1..Len(M) : /\ \E a \in 1..k : M[i].start = s[a].start
                            /\ \E b \in 1..k : M[i].end = s[b].end

LEMMA MergedFromNext ==
    ASSUME NEW s \in Seq(Window), NEW k \in Nat, k + 1 \in 1..Len(s),
           NEW M, MergedFrom(M, s, k)
    PROVE  MergedFrom(MergeNext(M, s[k + 1]), s, k + 1)
<1> DEFINE v == s[k + 1]
           next == MergeNext(M, v)
<1>1. v \in Window /\ M \in Seq(Window) /\ Len(M) \in Nat
  BY DEF MergedFrom
<1> HIDE DEF v, next
<1>2. next \in Seq(Window) /\ next # <<>>
  BY <1>1, NextMerged DEF next
<1>3. ASSUME NEW i \in 1..Len(next)
      PROVE  /\ next[i].start = v.start \/ \E j \in 1..Len(M) : next[i].start = M[j].start
             /\ next[i].end = v.end \/ \E j \in 1..Len(M) : next[i].end = M[j].end
  <2>1. CASE Extended(next, M, v)
    <3> USE <2>1 DEF Extended
    <3>1. i \in 1..(Len(M) - 1) \/ i = Len(M)
      BY <1>1, <1>3, <2>1
    <3>2. CASE i \in 1..(Len(M) - 1)
      <4>1. i \in 1..Len(M) /\ next[i] = M[i]
        BY <1>1, <2>1, <3>2
      <4> QED
        BY <4>1
    <3>3. CASE i = Len(M)
      <4>1. i \in 1..Len(M) /\ next[i].start = M[i].start
        BY <1>1, <2>1, <3>3
      <4>2. next[i].end = Larger(M[i].end, v.end)
        BY <2>1, <3>3
      <4>3. next[i].end = M[i].end \/ next[i].end = v.end
        BY <4>2 DEF Larger
      <4> QED
        BY <4>1, <4>3
    <3> QED
      BY <3>1, <3>2, <3>3
  <2>2. CASE Followed(next, M, v)
    <3> USE <2>2 DEF Followed
    <3>1. i \in 1..Len(M) \/ i = Len(M) + 1
      BY <1>1, <1>3, <2>2
    <3>2. next[i] = v \/ \E j \in 1..Len(M) : next[i] = M[j]
      BY <2>2, <3>1
    <3> QED
      BY <3>2
  <2>3. Extended(next, M, v) \/ Followed(next, M, v)
    BY <1>1, NextMerged DEF next
  <2> QED
    BY <2>1, <2>2, <2>3
<1>4. ASSUME NEW i \in 1..Len(next)
      PROVE  /\ \E a \in 1..(k + 1) : next[i].start = s[a].start
             /\ \E b \in 1..(k + 1) : next[i].end = s[b].end
  <2>1. k + 1 \in 1..(k + 1) /\ 1..k \subseteq 1..(k + 1)
    OBVIOUS
  <2>2. \A j \in 1..Len(M) : /\ \E a \in 1..k : M[j].start = s[a].start
                             /\ \E b \in 1..k : M[j].end = s[b].end
    BY DEF MergedFrom
  <2>3. \E a \in 1..(k + 1) : next[i].start = s[a].start
    BY <1>3, <2>1, <2>2 DEF v
  <2>4. \E b \in 1..(k + 1) : next[i].end = s[b].end
    BY <1>3, <2>1, <2>2 DEF v
  <2> QED
    BY <2>3, <2>4
<1>5. MergedFrom(next, s, k + 1)
  BY <1>2, <1>4 DEF MergedFrom
<1> QED
  BY <1>5 DEF next, v

\* For windows that are not empty and sorted: merged intervals are apart, and
\* have the minutes that the windows have.
In(t, w) == w.start <= t /\ t < w.end

MergedApart(M, s, k) ==
    /\ MergedFrom(M, s, k)
    /\ \A i \in 1..Len(M) : M[i].start < M[i].end
    /\ \A i, j \in 1..Len(M) : i < j => M[i].end < M[j].start
    /\ \A t \in Int : (\E i \in 1..Len(M) : In(t, M[i])) <=> \E a \in 1..k : In(t, s[a])

LEMMA MergedApartNext ==
    ASSUME NEW s \in Seq(Window), NEW k \in Nat, k + 1 \in 1..Len(s),
           \A a \in 1..Len(s) : s[a].start < s[a].end,
           \A a, b \in 1..Len(s) : a < b => s[a].start <= s[b].start,
           NEW M, MergedApart(M, s, k)
    PROVE  MergedApart(MergeNext(M, s[k + 1]), s, k + 1)
<1> DEFINE v == s[k + 1]
           next == MergeNext(M, v)
           n == Len(M)
<1>1. v \in Window /\ M \in Seq(Window) /\ n \in Nat /\ v.start < v.end
  BY DEF MergedApart, MergedFrom
<1>2. MergedFrom(next, s, k + 1)
  BY MergedFromNext DEF MergedApart
<1>3. ASSUME NEW i \in 1..n PROVE M[i].start <= v.start
  <2>1. PICK a \in 1..k : M[i].start = s[a].start
    BY DEF MergedApart, MergedFrom
  <2>2. a \in 1..Len(s) /\ a < k + 1
    BY <2>1
  <2> QED
    BY <2>1, <2>2
<1>4. \A t \in Int : (\E a \in 1..(k + 1) : In(t, s[a]))
                         <=> (\E a \in 1..k : In(t, s[a])) \/ In(t, v)
  <2>1. 1..(k + 1) = 1..k \union {k + 1}
    OBVIOUS
  <2> QED
    BY <2>1
<1>5. \A i \in 1..n : /\ M[i].start \in Int /\ M[i].end \in Int
                      /\ M[i].start < M[i].end
  <2> SUFFICES ASSUME NEW i \in 1..n
               PROVE  /\ M[i].start \in Int /\ M[i].end \in Int
                      /\ M[i].start < M[i].end
    OBVIOUS
  <2>1. M[i] \in Window
    BY <1>1
  <2>2. M[i].start < M[i].end
    BY DEF MergedApart
  <2> QED
    BY <2>1, <2>2 DEF Window
<1>6. v.start \in Int /\ v.end \in Int
  BY <1>1 DEF Window
<1>7. \A i, j \in 1..n : i < j => M[i].end < M[j].start
  BY DEF MergedApart
<1>8. \A t \in Int : (\E i \in 1..n : In(t, M[i])) <=> \E a \in 1..k : In(t, s[a])
  BY DEF MergedApart
<1> HIDE DEF v, n, next
<1> DEFINE Apart ==
               /\ \A i \in 1..Len(next) : next[i].start < next[i].end
               /\ \A i, j \in 1..Len(next) : i < j => next[i].end < next[j].start
               /\ \A t \in Int : (\E i \in 1..Len(next) : In(t, next[i]))
                                     <=> (\E i \in 1..n : In(t, M[i])) \/ In(t, v)
<1>9. ASSUME n > 0, v.start <= M[n].end, Len(next) = n,
             \A i \in 1..(n - 1) : next[i] = M[i],
             next[n].start = M[n].start,
             next[n].end = Larger(M[n].end, v.end)
      PROVE  Apart
  <2>1. n \in 1..n /\ 1..n = 1..(n - 1) \union {n}
    BY <1>1, <1>9
  <2>2. /\ M[n].start <= v.start /\ M[n].start \in Int /\ M[n].end \in Int
        /\ M[n].start < M[n].end
    BY <1>3, <1>5, <2>1
  <2>3. \A i \in 1..n : next[i].start = M[i].start /\ (i # n => next[i] = M[i])
    BY <1>9, <2>1
  <2>4. /\ next[n].end \in Int /\ next[n].end >= M[n].end /\ next[n].end >= v.end
        /\ next[n].end \in {M[n].end, v.end}
    BY <1>6, <1>9, <2>2 DEF Larger
  <2>5. \A i \in 1..n : next[i].start < next[i].end
    <3> SUFFICES ASSUME NEW i \in 1..n PROVE next[i].start < next[i].end
      OBVIOUS
    <3>1. CASE i = n
      BY <1>9, <2>2, <2>4, <3>1
    <3>2. CASE i # n
      BY <1>5, <2>3, <3>2
    <3> QED
      BY <3>1, <3>2
  <2>6. \A i, j \in 1..n : i < j => next[i].end < next[j].start
    <3> SUFFICES ASSUME NEW i \in 1..n, NEW j \in 1..n, i < j
                 PROVE  next[i].end < next[j].start
      OBVIOUS
    <3>1. i # n
      BY <1>1
    <3> QED
      BY <1>7, <2>3, <3>1
  <2>7. ASSUME NEW t \in Int
        PROVE  (\E i \in 1..n : In(t, next[i]))
                   <=> (\E i \in 1..n : In(t, M[i])) \/ In(t, v)
    <3>1. In(t, next[n]) <=> In(t, M[n]) \/ In(t, v)
      BY <1>6, <1>9, <2>2, <2>4 DEF In
    <3>2. \A i \in 1..n : i # n => (In(t, next[i]) <=> In(t, M[i]))
      BY <2>3
    <3> QED
      BY <2>1, <3>1, <3>2
  <2> QED
    BY <1>9, <2>5, <2>6, <2>7
<1>10. ASSUME n > 0 => M[n].end < v.start, Len(next) = n + 1,
              \A i \in 1..n : next[i] = M[i],
              next[n + 1] = v
       PROVE  Apart
  <2>1. n + 1 \in 1..(n + 1) /\ 1..(n + 1) = 1..n \union {n + 1}
    BY <1>1
  <2>2. \A i \in 1..(n + 1) : next[i].start < next[i].end
    BY <1>1, <1>5, <1>10, <2>1
  <2>3. \A i, j \in 1..(n + 1) : i < j => next[i].end < next[j].start
    <3> SUFFICES ASSUME NEW i \in 1..(n + 1), NEW j \in 1..(n + 1), i < j
                 PROVE  next[i].end < next[j].start
      OBVIOUS
    <3>1. i \in 1..n /\ next[i] = M[i]
      BY <1>1, <1>10
    <3>2. CASE j \in 1..n
      BY <1>7, <1>10, <3>1, <3>2
    <3>3. CASE j = n + 1
      <4>1. n \in 1..n /\ M[n].end < v.start
        BY <1>1, <1>10, <3>1
      <4>2. i = n \/ M[i].end < M[n].start
        BY <1>1, <1>7, <3>1, <4>1
      <4>3. M[i].end < v.start
        BY <1>5, <1>6, <3>1, <4>1, <4>2
      <4> QED
        BY <1>10, <3>1, <3>3, <4>3
    <3> QED
      BY <2>1, <3>2, <3>3
  <2>4. \A t \in Int : (\E i \in 1..(n + 1) : In(t, next[i]))
                           <=> (\E i \in 1..n : In(t, M[i])) \/ In(t, v)
    BY <1>10, <2>1
  <2> QED
    BY <1>10, <2>2, <2>3, <2>4
<1>11. Apart
  <2>1. CASE Extended(next, M, v)
    <3>1. /\ n > 0 /\ v.start <= M[n].end /\ Len(next) = n
          /\ \A i \in 1..(n - 1) : next[i] = M[i]
          /\ next[n].start = M[n].start
          /\ next[n].end = Larger(M[n].end, v.end)
      BY <2>1 DEF Extended, n
    <3> HIDE DEF Apart
    <3> QED
      BY <1>9, <3>1
  <2>2. CASE Followed(next, M, v)
    <3>1. /\ n > 0 => M[n].end < v.start
          /\ Len(next) = n + 1
          /\ \A i \in 1..n : next[i] = M[i]
          /\ next[n + 1] = v
      BY <2>2 DEF Followed, n
    <3> HIDE DEF Apart
    <3> QED
      BY <1>10, <3>1
  <2>3. Extended(next, M, v) \/ Followed(next, M, v)
    BY <1>1, NextMerged DEF next
  <2> QED
    BY <2>1, <2>2, <2>3
<1>12. MergedApart(next, s, k + 1)
  BY <1>2, <1>4, <1>8, <1>11 DEF MergedApart
<1> QED
  BY <1>12 DEF next, v

\* What holds of the intervals after each step holds of all of them.
LEMMA MergedFromAll ==
    ASSUME NEW s \in Seq(Window)
    PROVE  MergedFrom(MergeIntervals(s), s, Len(s))
<1>1. Len(s) \in Nat
  OBVIOUS
<1>2. PICK m : /\ m[0] = <<>>
               /\ \A k \in 1..Len(s) : m[k] = MergeNext(m[k - 1], s[k])
               /\ MergeIntervals(s) = m[Len(s)]
  BY <1>1, MergeSteps
<1> DEFINE bad == {k \in 0..Len(s) : ~MergedFrom(m[k], s, k)}
<1> SUFFICES ASSUME bad # {} PROVE FALSE
  BY <1>1, <1>2
<1>a. bad \in SUBSET Nat
  BY <1>1
<1>b. \A k : k \in bad <=> k \in 0..Len(s) /\ ~MergedFrom(m[k], s, k)
  OBVIOUS
<1> HIDE DEF bad
<1>3. PICK k \in bad : \A j \in bad : k <= j
  BY <1>a, LeastNatural
<1>4. MergedFrom(<<>>, s, 0)
  BY DEF MergedFrom
<1>5. k # 0
  BY <1>2, <1>3, <1>4, <1>b
<1>6. k - 1 \in 0..Len(s) /\ k - 1 \in Nat /\ (k - 1) + 1 = k /\ k \in 1..Len(s)
  BY <1>1, <1>3, <1>5, <1>b
<1>c. k - 1 \notin bad
  BY <1>3, <1>6
<1>7. MergedFrom(m[k - 1], s, k - 1)
  BY <1>6, <1>b, <1>c
<1>8. MergedFrom(MergeNext(m[k - 1], s[k]), s, k)
  BY <1>6, <1>7, MergedFromNext
<1> QED
  BY <1>2, <1>3, <1>6, <1>8, <1>b, <1>b

LEMMA MergedApartAll ==
    ASSUME NEW s \in Seq(Window),
           \A a \in 1..Len(s) : s[a].start < s[a].end,
           \A a, b \in 1..Len(s) : a < b => s[a].start <= s[b].start
    PROVE  MergedApart(MergeIntervals(s), s, Len(s))
<1>1. Len(s) \in Nat
  OBVIOUS
<1>2. PICK m : /\ m[0] = <<>>
               /\ \A k \in 1..Len(s) : m[k] = MergeNext(m[k - 1], s[k])
               /\ MergeIntervals(s) = m[Len(s)]
  BY <1>1, MergeSteps
<1> DEFINE bad == {k \in 0..Len(s) : ~MergedApart(m[k], s, k)}
<1> SUFFICES ASSUME bad # {} PROVE FALSE
  BY <1>1, <1>2
<1>a. bad \in SUBSET Nat
  BY <1>1
<1>b. \A k : k \in bad <=> k \in 0..Len(s) /\ ~MergedApart(m[k], s, k)
  OBVIOUS
<1> HIDE DEF bad
<1>3. PICK k \in bad : \A j \in bad : k <= j
  BY <1>a, LeastNatural
<1>4. MergedApart(<<>>, s, 0)
  BY DEF MergedApart, MergedFrom
<1>5. k # 0
  BY <1>2, <1>3, <1>4, <1>b
<1>6. k - 1 \in 0..Len(s) /\ k - 1 \in Nat /\ (k - 1) + 1 = k /\ k \in 1..Len(s)
  BY <1>1, <1>3, <1>5, <1>b
<1>c. k - 1 \notin bad
  BY <1>3, <1>6
<1>7. MergedApart(m[k - 1], s, k - 1)
  BY <1>6, <1>b, <1>c
<1>8. MergedApart(MergeNext(m[k - 1], s[k]), s, k)
  BY <1>6, <1>7, MergedApartNext
<1> QED
  BY <1>2, <1>3, <1>6, <1>8, <1>b, <1>b

----------------------------------------------------------------------------
(***************************************************************************)
(* Coverage gaps.                                                          *)
(***************************************************************************)

\* The i-th of the gaps around the merged intervals, from 0.
GapAt(M, start, end, i) ==
    [start |-> IF i = 0 THEN start ELSE M[i].end,
     end   |-> IF i = Len(M) THEN end ELSE M[i + 1].start]

LEMMA GapsInTurn ==
    ASSUME NEW M \in Seq(Window), NEW start, NEW end
    PROVE  GapsAround(M, start, end) = {GapAt(M, start, end, i) : i \in 0..Len(M)}
<1>1. Len(M) \in Nat
  OBVIOUS
<1>2. CASE M = <<>>
  <2>1. Len(M) = 0 /\ 0..Len(M) = {0}
    BY <1>2
  <2>2. GapAt(M, start, end, 0) = [start |-> start, end |-> end]
    BY <2>1 DEF GapAt
  <2>3. GapsAround(M, start, end) = {[start |-> start, end |-> end]}
    BY <1>2 DEF GapsAround
  <2> QED
    BY <2>1, <2>2, <2>3
<1>3. CASE M # <<>>
  <2> DEFINE n == Len(M)
             G(i) == GapAt(M, start, end, i)
             before == [start |-> start, end |-> M[1].start]
             after == [start |-> M[n].end, end |-> end]
             between == {[start |-> M[i].end, end |-> M[i + 1].start] : i \in 1..(n - 1)}
  <2>1. n \in Nat /\ n > 0
    BY <1>1, <1>3
  <2>2. GapsAround(M, start, end) = {before, after} \union between
    BY <1>3 DEF GapsAround, Last
  <2>3. G(0) = before
    BY <2>1 DEF GapAt
  <2>4. G(n) = after
    BY <2>1 DEF GapAt
  <2>5. \A i \in 1..(n - 1) : G(i) = [start |-> M[i].end, end |-> M[i + 1].start]
    BY <2>1 DEF GapAt
  <2>6. 0..n = {0, n} \union 1..(n - 1)
    BY <2>1
  <2> HIDE DEF G, n, before, after
  <2>7. between = {G(i) : i \in 1..(n - 1)}
    BY <2>5
  <2> HIDE DEF between
  <2>8. {G(i) : i \in 0..n} = {before, after} \union between
    BY <2>3, <2>4, <2>6, <2>7
  <2> QED
    BY <2>2, <2>8 DEF G, n
<1> QED
  BY <1>2, <1>3

LEMMA GapsOfMerged ==
    ASSUME NEW S, NEW start, NEW end
    PROVE  CoverageGaps(S, start, end) =
               {g \in GapsAround(MergeIntervals(SortedByStart(
                                     WindowsInRange(S, start, end))), start, end) :
                   g.start < g.end}
<1> DEFINE s == SortedByStart(WindowsInRange(S, start, end))
           M == MergeIntervals(s)
<1>1. CoverageGaps(S, start, end) =
          {g \in UNION {GapsAround(m, start, end) : m \in
                           {MergeIntervals(x) : x \in {s}}} : g.start < g.end}
  BY DEF CoverageGaps
<1> HIDE DEF s
<1>2. {MergeIntervals(x) : x \in {s}} = {M}
  OBVIOUS
<1> HIDE DEF M
<1>3. UNION {GapsAround(m, start, end) : m \in {M}} = GapsAround(M, start, end)
  OBVIOUS
<1> QED
  BY <1>1, <1>2, <1>3 DEF M, s

\* The windows of a range, sorted and merged.
LEMMA MergedInRange ==
    ASSUME NEW S \in SUBSET Window, IsFiniteSet(S), NEW start \in Int, NEW end \in Int,
           NEW W, W = WindowsInRange(S, start, end),
           NEW s, s = SortedByStart(W), NEW M, M = MergeIntervals(s)
    PROVE  /\ s \in Seq(W) /\ s \in Seq(Window) /\ M \in Seq(Window)
           /\ \A w \in W : \E a \in 1..Len(s) : s[a] = w
           /\ \A a, b \in 1..Len(s) : a < b => s[a].start <= s[b].start
           /\ \A i \in 1..Len(M) : /\ M[i].start \in Int /\ M[i].start < end
                                   /\ M[i].end \in Int /\ start < M[i].end
<1>1. W \in SUBSET S /\ W \in SUBSET Window
  BY DEF WindowsInRange
<1>2. IsFiniteSet(W)
  BY <1>1, FS_Subset
<1>3. /\ s \in Seq(W) /\ Len(s) = Cardinality(W)
      /\ \A w \in W : \E a \in 1..Len(s) : s[a] = w
      /\ \A a, b \in 1..Len(s) : a < b => s[a].start <= s[b].start
  BY <1>1, <1>2, SortedHasAll
<1>4. s \in Seq(Window)
  BY <1>1, <1>3
<1>5. MergedFrom(M, s, Len(s))
  BY <1>4, MergedFromAll
<1>6. ASSUME NEW i \in 1..Len(M)
      PROVE  /\ M[i].start \in Int /\ M[i].start < end
             /\ M[i].end \in Int /\ start < M[i].end
  <2>1. PICK a \in 1..Len(s) : M[i].start = s[a].start
    BY <1>5 DEF MergedFrom
  <2>2. PICK b \in 1..Len(s) : M[i].end = s[b].end
    BY <1>5 DEF MergedFrom
  <2>3. s[a] \in W /\ s[b] \in W
    BY <1>3
  <2>4. s[a].start < end /\ start < s[b].end
    BY <2>3 DEF WindowsInRange
  <2>5. s[a].start \in Int /\ s[b].end \in Int
    BY <1>1, <2>3 DEF Window
  <2> QED
    BY <2>1, <2>2, <2>4, <2>5
<1> QED
  BY <1>3, <1>4, <1>5, <1>6 DEF MergedFrom

\* Gaps lie in their range.
LEMMA GapInRange ==
    ASSUME NEW start \in Int, NEW end \in Int, NEW M \in Seq(Window),
           \A i \in 1..Len(M) : /\ M[i].start \in Int /\ M[i].start < end
                                /\ M[i].end \in Int /\ start < M[i].end,
           NEW i \in 0..Len(M)
    PROVE  /\ GapAt(M, start, end, i).start \in Int
           /\ start <= GapAt(M, start, end, i).start
           /\ GapAt(M, start, end, i).end \in Int
           /\ GapAt(M, start, end, i).end <= end
<1>1. i = 0 \/ i \in 1..Len(M)
  OBVIOUS
<1>2. i = Len(M) \/ i + 1 \in 1..Len(M)
  OBVIOUS
<1> QED
  BY <1>1, <1>2 DEF GapAt

\* What the trigger needs to know of the gaps that the reporter finds: they begin
\* within the range.
LEMMA GapsBeginInRange ==
    ASSUME NEW S \in SUBSET Window, IsFiniteSet(S), NEW start \in Int, NEW end \in Int,
           NEW gap \in CoverageGaps(S, start, end)
    PROVE  gap.start \in start..(end - 1)
<1> DEFINE W == WindowsInRange(S, start, end)
           s == SortedByStart(W)
           M == MergeIntervals(s)
<1>1. /\ M \in Seq(Window)
      /\ \A i \in 1..Len(M) : /\ M[i].start \in Int /\ M[i].start < end
                              /\ M[i].end \in Int /\ start < M[i].end
  BY MergedInRange
<1>2. gap \in GapsAround(M, start, end) /\ gap.start < gap.end
  BY GapsOfMerged
<1> HIDE DEF M
<1>3. PICK i \in 0..Len(M) : gap = GapAt(M, start, end, i)
  BY <1>1, <1>2, GapsInTurn
<1>4. /\ GapAt(M, start, end, i).start \in Int
      /\ start <= GapAt(M, start, end, i).start
      /\ GapAt(M, start, end, i).end \in Int
      /\ GapAt(M, start, end, i).end <= end
  BY <1>1, GapInRange
<1>5. gap.start \in Int /\ start <= gap.start /\ gap.end \in Int /\ gap.end <= end
  BY <1>3, <1>4
<1> QED
  BY <1>2, <1>5

LEMMA InMinutes ==
    ASSUME NEW S, NEW t \in Int, \A w \in S : w.start \in Int /\ w.end \in Int
    PROVE  t \in Minutes(S) <=> \E w \in S : In(t, w)
BY DEF Minutes, In

\* Between merged intervals that are apart there is what they do not have.
LEMMA GapsHaveTheRest ==
    ASSUME NEW start \in Int, NEW end \in Int, NEW M \in Seq(Window),
           \A i \in 1..Len(M) : /\ M[i].start \in Int /\ M[i].start < end
                                /\ M[i].end \in Int /\ start < M[i].end
                                /\ M[i].start < M[i].end,
           \A i, j \in 1..Len(M) : i < j => M[i].end < M[j].start,
           NEW t \in Int
    PROVE  (\E i \in 0..Len(M) : In(t, GapAt(M, start, end, i)))
               <=> start <= t /\ t < end /\ ~\E i \in 1..Len(M) : In(t, M[i])
<1> DEFINE n == Len(M)
<1>0. n \in Nat
  OBVIOUS
<1>1. ASSUME NEW i \in 0..n, In(t, GapAt(M, start, end, i))
      PROVE  start <= t /\ t < end /\ \A j \in 1..n : ~In(t, M[j])
  <2>1. start <= t /\ t < end
    <3> DEFINE gap == GapAt(M, start, end, i)
    <3>1. gap.start \in Int /\ start <= gap.start /\ gap.end \in Int /\ gap.end <= end
      BY GapInRange
    <3>2. gap.start <= t /\ t < gap.end
      BY <1>1 DEF In
    <3> HIDE DEF gap
    <3> QED
      BY <3>1, <3>2
  <2>2. ASSUME NEW j \in 1..n PROVE ~In(t, M[j])
    <3>1. CASE j <= i
      <4>1. i \in 1..n /\ i # 0
        BY <1>0, <3>1
      <4>2. M[i].end <= t
        BY <1>1, <4>1 DEF In, GapAt
      <4>3. j = i \/ M[j].end < M[i].start
        BY <1>0, <3>1, <4>1
      <4>4. M[j].end <= t
        BY <4>1, <4>2, <4>3
      <4> QED
        BY <4>4 DEF In
    <3>2. CASE i < j
      <4>1. i + 1 \in 1..n /\ i # n
        BY <1>0, <3>2
      <4>2. t < M[i + 1].start
        BY <1>1, <4>1 DEF In, GapAt
      <4>3. j = i + 1 \/ M[i + 1].end < M[j].start
        BY <1>0, <3>2, <4>1
      <4>4. t < M[j].start
        BY <4>1, <4>2, <4>3
      <4> QED
        BY <4>4 DEF In
    <3> QED
      BY <1>0, <3>1, <3>2
  <2> QED
    BY <2>1, <2>2
<1>2. ASSUME start <= t, t < end, \A j \in 1..n : ~In(t, M[j])
      PROVE  \E i \in 0..n : In(t, GapAt(M, start, end, i))
  <2> DEFINE later == {j \in 1..n : t < M[j].end}
  <2>1. CASE later = {}
    <3>1. \A j \in 1..n : M[j].end <= t
      BY <2>1
    <3>2. n = 0 \/ n \in 1..n
      BY <1>0
    <3>3. In(t, GapAt(M, start, end, n)) /\ n \in 0..n
      BY <1>0, <1>2, <3>1, <3>2 DEF In, GapAt
    <3> QED
      BY <3>3
  <2>2. CASE later # {}
    <3>1. later \in SUBSET Nat
      BY <1>0
    <3>a. \A j : j \in later <=> j \in 1..n /\ t < M[j].end
      OBVIOUS
    <3> HIDE DEF later
    <3>2. PICK i \in later : \A j \in later : i <= j
      BY <2>2, <3>1, LeastNatural
    <3>3. i \in 1..n /\ t < M[i].start /\ i - 1 \in 0..n /\ i - 1 # n
      BY <1>0, <1>2, <3>2, <3>a DEF In
    <3>4. i - 1 # 0 => i - 1 \in 1..n /\ M[i - 1].end <= t
      <4> SUFFICES ASSUME i - 1 # 0 PROVE i - 1 \in 1..n /\ M[i - 1].end <= t
        OBVIOUS
      <4>1. i - 1 \in 1..n /\ i - 1 \in Nat /\ i - 1 < i
        BY <1>0, <3>3
      <4>2. i - 1 \notin later
        BY <3>2, <3>3, <4>1
      <4> QED
        BY <3>a, <4>1, <4>2
    <3>5. (i - 1) + 1 = i
      BY <1>0, <3>3
    <3>6. /\ GapAt(M, start, end, i - 1).start
                 = IF i - 1 = 0 THEN start ELSE M[i - 1].end
          /\ GapAt(M, start, end, i - 1).end = M[i].start
      BY <3>3, <3>5 DEF GapAt
    <3>7. In(t, GapAt(M, start, end, i - 1))
      BY <1>2, <3>3, <3>4, <3>6 DEF In
    <3> QED
      BY <3>3, <3>7
  <2> QED
    BY <2>1, <2>2
<1> QED
  BY <1>1, <1>2

LEMMA GapsAreApart ==
    ASSUME NEW start \in Int, NEW end \in Int, NEW M \in Seq(Window),
           \A i \in 1..Len(M) : /\ M[i].start \in Int /\ M[i].end \in Int
                                /\ M[i].start < M[i].end,
           \A i, j \in 1..Len(M) : i < j => M[i].end < M[j].start,
           NEW i \in 0..Len(M), NEW j \in 0..Len(M), i < j
    PROVE  GapAt(M, start, end, i).end < GapAt(M, start, end, j).start
<1>1. Len(M) \in Nat
  OBVIOUS
<1>2. i + 1 \in 1..Len(M) /\ i # Len(M) /\ j \in 1..Len(M) /\ j # 0
  BY <1>1
<1>3. i + 1 = j \/ M[i + 1].end < M[j].start
  BY <1>1, <1>2
<1>4. M[i + 1].start < M[j].end
  BY <1>2, <1>3
<1> QED
  BY <1>2, <1>4 DEF GapAt

\* The gaps of a range are its minutes that no window has, each in one gap.
LEMMA GapsAreUncovered ==
    ASSUME NEW S \in SUBSET Window, IsFiniteSet(S), \A w \in S : w.start < w.end,
           NEW start \in Int, NEW end \in Int,
           NEW gaps, gaps = CoverageGaps(S, start, end)
    PROVE  /\ Minutes(gaps) = (start..(end - 1)) \ Minutes(S)
           /\ \A g, h \in gaps : g # h => g.end < h.start \/ h.end < g.start
<1> DEFINE W == WindowsInRange(S, start, end)
           s == SortedByStart(W)
           M == MergeIntervals(s)
           n == Len(M)
           G(i) == GapAt(M, start, end, i)
<1>1. /\ s \in Seq(W) /\ s \in Seq(Window) /\ M \in Seq(Window)
      /\ \A w \in W : \E a \in 1..Len(s) : s[a] = w
      /\ \A a, b \in 1..Len(s) : a < b => s[a].start <= s[b].start
      /\ \A i \in 1..n : /\ M[i].start \in Int /\ M[i].start < end
                         /\ M[i].end \in Int /\ start < M[i].end
  BY MergedInRange
<1>2. gaps = {g \in GapsAround(M, start, end) : g.start < g.end}
  BY GapsOfMerged
<1>3. W \in SUBSET S /\ \A w \in S : w \in W <=> w.end > start /\ w.start < end
  BY DEF WindowsInRange
<1> HIDE DEF W, s
<1>4. \A a \in 1..Len(s) : s[a] \in W
  BY <1>1
<1>5. MergedApart(M, s, Len(s))
  BY <1>1, <1>3, <1>4, MergedApartAll
<1>6. /\ \A i \in 1..n : M[i].start < M[i].end
      /\ \A i, j \in 1..n : i < j => M[i].end < M[j].start
      /\ \A t \in Int : (\E i \in 1..n : In(t, M[i])) <=> \E a \in 1..Len(s) : In(t, s[a])
  BY <1>5 DEF MergedApart
<1> HIDE DEF M
<1>7. gaps = {g \in {G(i) : i \in 0..n} : g.start < g.end}
  BY <1>1, <1>2, GapsInTurn
<1>8. \A i \in 0..n : /\ G(i).start \in Int /\ start <= G(i).start
                      /\ G(i).end \in Int /\ G(i).end <= end
  BY <1>1, GapInRange
<1>9. \A i, j \in 0..n : i < j => G(i).end < G(j).start
  BY <1>1, <1>6, GapsAreApart
<1>10. \A t \in Int : (\E i \in 0..n : In(t, G(i)))
                          <=> start <= t /\ t < end /\ ~\E i \in 1..n : In(t, M[i])
  BY <1>1, <1>6, GapsHaveTheRest
<1>11. n \in Nat
  BY <1>1
<1> HIDE DEF G, n
<1>12. \A g, h \in gaps : g # h => g.end < h.start \/ h.end < g.start
  <2> SUFFICES ASSUME NEW g \in gaps, NEW h \in gaps, g # h
               PROVE  g.end < h.start \/ h.end < g.start
    OBVIOUS
  <2>1. PICK i \in 0..n : g = G(i)
    BY <1>7
  <2>2. PICK j \in 0..n : h = G(j)
    BY <1>7
  <2>3. i < j \/ j < i
    BY <1>11, <2>1, <2>2
  <2> QED
    BY <1>9, <2>1, <2>2, <2>3
<1>13. ASSUME NEW t
       PROVE  t \in Minutes(gaps) <=> t \in (start..(end - 1)) \ Minutes(S)
  <2>1. \A w \in S : w.start \in Int /\ w.end \in Int
    BY DEF Window
  <2>2. \A g \in gaps : g.start \in Int /\ g.end \in Int
    BY <1>7, <1>8
  <2>3. CASE t \notin Int
    <3>1. t \notin Minutes(gaps)
      BY <2>2, <2>3 DEF Minutes
    <3> QED
      BY <2>3, <3>1
  <2>4. CASE t \in Int
    <3>1. (\E g \in gaps : In(t, g)) <=> \E i \in 0..n : In(t, G(i))
      <4>1. ASSUME NEW i \in 0..n, In(t, G(i)) PROVE G(i) \in gaps
        <5>1. G(i).start < G(i).end
          BY <1>8, <2>4, <4>1 DEF In
        <5> QED
          BY <1>7, <5>1
      <4>2. ASSUME NEW g \in gaps PROVE \E i \in 0..n : g = G(i)
        BY <1>7
      <4> QED
        BY <4>1, <4>2
    <3>2. start <= t /\ t < end =>
              ((\E a \in 1..Len(s) : In(t, s[a])) <=> \E w \in S : In(t, w))
      <4> SUFFICES ASSUME start <= t, t < end
                   PROVE  (\E a \in 1..Len(s) : In(t, s[a])) <=> \E w \in S : In(t, w)
        OBVIOUS
      <4>1. ASSUME NEW w \in S, In(t, w) PROVE w \in W
        <5>1. w.end > start /\ w.start < end
          BY <2>1, <2>4, <4>1 DEF In
        <5> QED
          BY <1>3, <5>1
      <4> QED
        BY <1>1, <1>3, <1>4, <4>1
    <3>3. t \in Minutes(gaps) <=> \E g \in gaps : In(t, g)
      BY <2>2, <2>4, InMinutes
    <3>4. t \in Minutes(S) <=> \E w \in S : In(t, w)
      BY <2>1, <2>4, InMinutes
    <3>5. t \in start..(end - 1) <=> start <= t /\ t < end
      BY <2>4
    <3>6. (\E i \in 0..n : In(t, G(i)))
              <=> start <= t /\ t < end /\ ~\E a \in 1..Len(s) : In(t, s[a])
      BY <1>6, <1>10, <2>4
    <3> QED
      BY <3>1, <3>2, <3>3, <3>4, <3>5, <3>6
  <2> QED
    BY <2>3, <2>4
<1> QED
  BY <1>12, <1>13

----------------------------------------------------------------------------
(***************************************************************************)
(* The windows that a range is cut into.                                   *)
(***************************************************************************)

\* The i-th cell of the grid, cut at both ends.
Cell(start, limit, i) ==
    [start |-> Larger(start, i * WindowMinutes),
     end   |-> Smaller((i + 1) * WindowMinutes, limit)]

LEMMA Grid ==
    ASSUME NEW i \in Int
    PROVE  /\ i * WindowMinutes \in Int /\ (i + 1) * WindowMinutes \in Int
           /\ (i + 1) * WindowMinutes = i * WindowMinutes + WindowMinutes
           /\ \A t \in Int : t < (i + 1) * WindowMinutes <=> t \div WindowMinutes <= i
           /\ \A t \in Int : i * WindowMinutes <= t <=> i <= t \div WindowMinutes
<1>1. WindowMinutes \in Nat \ {0}
  BY WindowMinutesAssumption
<1>2. /\ i * WindowMinutes \in Int /\ (i + 1) * WindowMinutes \in Int
      /\ (i + 1) * WindowMinutes = i * WindowMinutes + WindowMinutes
  BY <1>1
<1>3. ASSUME NEW t \in Int
      PROVE  /\ t < (i + 1) * WindowMinutes <=> t \div WindowMinutes <= i
             /\ i * WindowMinutes <= t <=> i <= t \div WindowMinutes
  <2> DEFINE q == t \div WindowMinutes
             b == q * WindowMinutes
  <2>1. q \in Int /\ b \in Int
    BY <1>1
  <2>2. b <= t /\ t < b + WindowMinutes
    BY BoundaryBelow DEF Boundary
  <2> HIDE DEF q
  <2>3. q <= i => b <= i * WindowMinutes
    BY <1>1, <2>1, Monotone
  <2>4. i <= q => i * WindowMinutes <= b
    BY <1>1, <2>1, Monotone
  <2>5. i + 1 <= q => (i + 1) * WindowMinutes <= b
    BY <1>1, <2>1, Monotone
  <2>6. q + 1 <= i => (q + 1) * WindowMinutes <= i * WindowMinutes
    BY <1>1, <2>1, Monotone
  <2>7. (q + 1) * WindowMinutes = b + WindowMinutes
    BY <1>1, <2>1
  <2> HIDE DEF b
  <2>8. t < (i + 1) * WindowMinutes <=> q <= i
    BY <1>1, <1>2, <2>1, <2>2, <2>3, <2>5
  <2>9. i * WindowMinutes <= t <=> i <= q
    BY <1>1, <1>2, <2>1, <2>2, <2>4, <2>6, <2>7
  <2> QED
    BY <2>8, <2>9 DEF q
<1> QED
  BY <1>2, <1>3

LEMMA WindowsAreCells ==
    ASSUME NEW start \in Int, NEW end \in Int
    PROVE  GenerateWindows(start, end) =
               {Cell(start, EffectiveEnd(start, end), i) : i \in
                   (start \div WindowMinutes)
                       ..((EffectiveEnd(start, end) - 1) \div WindowMinutes)}
BY DEF GenerateWindows, Cell

LEMMA DivType ==
    ASSUME NEW t \in Int
    PROVE  t \div WindowMinutes \in Int
BY WindowMinutesAssumption

LEMMA CellType ==
    ASSUME NEW start \in Int, NEW limit \in Int, NEW i \in Int
    PROVE  /\ Cell(start, limit, i).start \in Int /\ Cell(start, limit, i).end \in Int
           /\ start <= Cell(start, limit, i).start
           /\ i * WindowMinutes <= Cell(start, limit, i).start
           /\ Cell(start, limit, i).end <= (i + 1) * WindowMinutes
           /\ Cell(start, limit, i).end <= limit
           /\ \A t \in Int : In(t, Cell(start, limit, i)) <=>
                  start <= t /\ t < limit /\ i = t \div WindowMinutes
<1>1. i * WindowMinutes \in Int /\ (i + 1) * WindowMinutes \in Int
  BY Grid
<1>2. /\ Cell(start, limit, i).start = Larger(start, i * WindowMinutes)
      /\ Cell(start, limit, i).end = Smaller((i + 1) * WindowMinutes, limit)
  BY DEF Cell
<1>3. ASSUME NEW t \in Int
      PROVE  In(t, Cell(start, limit, i)) <=>
                 start <= t /\ t < limit /\ i = t \div WindowMinutes
  <2>1. In(t, Cell(start, limit, i)) <=>
            /\ start <= t /\ i * WindowMinutes <= t
            /\ t < (i + 1) * WindowMinutes /\ t < limit
    BY <1>1, <1>2 DEF In, Larger, Smaller
  <2>2. /\ t < (i + 1) * WindowMinutes <=> t \div WindowMinutes <= i
        /\ i * WindowMinutes <= t <=> i <= t \div WindowMinutes
    BY Grid
  <2>3. t \div WindowMinutes \in Int
    BY DivType
  <2> QED
    BY <2>1, <2>2, <2>3
<1> QED
  BY <1>1, <1>2, <1>3 DEF Larger, Smaller

\* The windows of a range that is longer than a window fill it up to its last
\* boundary, and do not overlap.
LEMMA WindowsFillRange ==
    ASSUME NEW start \in Int, NEW end \in Int, start + WindowMinutes <= end,
           NEW windows, windows = GenerateWindows(start, end)
    PROVE  /\ Minutes(windows) = start..(Boundary(end) - 1)
           /\ \A a, b \in windows : a # b => a.end <= b.start \/ b.end <= a.start
<1> DEFINE limit == Boundary(end)
           first == start \div WindowMinutes
           last == (limit - 1) \div WindowMinutes
           C(i) == Cell(start, limit, i)
<1>1. limit \in Int /\ start <= limit /\ EffectiveEnd(start, end) = limit
  <2>1. Boundary(end) \in Int /\ end < Boundary(end) + WindowMinutes
    BY BoundaryBelow
  <2>2. start <= Boundary(end)
    BY <2>1, WindowMinutesAssumption
  <2> QED
    BY <2>1, <2>2 DEF EffectiveEnd
<1>2. windows = {C(i) : i \in first..last}
  BY <1>1, WindowsAreCells
<1>3. first \in Int /\ last \in Int
  BY <1>1, DivType
<1> HIDE DEF limit
<1>4. \A i \in Int : /\ C(i).start \in Int /\ C(i).end \in Int
                     /\ i * WindowMinutes <= C(i).start
                     /\ C(i).end <= (i + 1) * WindowMinutes
                     /\ \A t \in Int : In(t, C(i)) <=>
                            start <= t /\ t < limit /\ i = t \div WindowMinutes
  BY <1>1, CellType
<1>5. \A t \in Int : start <= t /\ t < limit => t \div WindowMinutes \in first..last
  <2> SUFFICES ASSUME NEW t \in Int, start <= t, t < limit
               PROVE  t \div WindowMinutes \in first..last
    OBVIOUS
  <2> DEFINE q == t \div WindowMinutes
  <2>1. q \in Int
    BY DivType
  <2>2. q * WindowMinutes <= t /\ t < (q + 1) * WindowMinutes
    BY <2>1, Grid
  <2> HIDE DEF q
  <2>a. limit - 1 \in Int
    BY <1>1
  <2>b. start < (q + 1) * WindowMinutes <=> first <= q
    BY <2>1, Grid
  <2>c. q * WindowMinutes <= limit - 1 <=> q <= last
    BY <2>1, <2>a, Grid
  <2>3. /\ start < (q + 1) * WindowMinutes <=> first <= q
        /\ q * WindowMinutes <= limit - 1 <=> q <= last
    BY <2>b, <2>c
  <2>4. q * WindowMinutes \in Int /\ (q + 1) * WindowMinutes \in Int
    BY <2>1, Grid
  <2> HIDE DEF first, last
  <2>5. first <= q /\ q <= last
    BY <1>1, <2>2, <2>3, <2>4
  <2> QED
    BY <1>3, <2>1, <2>5 DEF q
<1> HIDE DEF C, first, last
<1>6. \A w \in windows : w.start \in Int /\ w.end \in Int
  BY <1>2, <1>3, <1>4
<1>7. ASSUME NEW t PROVE t \in Minutes(windows) <=> t \in start..(limit - 1)
  <2>1. CASE t \notin Int
    <3>1. t \notin Minutes(windows)
      BY <1>6, <2>1 DEF Minutes
    <3> QED
      BY <1>1, <2>1, <3>1
  <2>2. CASE t \in Int
    <3>1. t \in Minutes(windows) <=> \E w \in windows : In(t, w)
      BY <1>6, <2>2, InMinutes
    <3>2. (\E w \in windows : In(t, w)) <=> \E i \in first..last : In(t, C(i))
      BY <1>2
    <3>3. (\E i \in first..last : In(t, C(i))) <=> start <= t /\ t < limit
      <4>1. ASSUME NEW i \in first..last, In(t, C(i)) PROVE start <= t /\ t < limit
        <5>1. i \in Int
          BY <1>3
        <5> QED
          BY <1>4, <2>2, <4>1, <5>1
      <4>2. ASSUME start <= t, t < limit PROVE \E i \in first..last : In(t, C(i))
        <5> DEFINE q == t \div WindowMinutes
        <5>1. q \in first..last /\ q \in Int
          BY <1>5, <2>2, <4>2, DivType
        <5>2. In(t, C(q))
          BY <1>4, <2>2, <4>2, <5>1
        <5> QED
          BY <5>1, <5>2
      <4> QED
        BY <4>1, <4>2
    <3> QED
      BY <1>1, <2>2, <3>1, <3>2, <3>3
  <2> QED
    BY <2>1, <2>2
<1>8. ASSUME NEW i \in Int, NEW j \in Int, i < j PROVE C(i).end <= C(j).start
  <2>1. (i + 1) * WindowMinutes <= j * WindowMinutes
    BY <1>8, WindowMinutesAssumption, Monotone
  <2>2. /\ (i + 1) * WindowMinutes \in Int /\ j * WindowMinutes \in Int
        /\ C(i).end \in Int /\ C(j).start \in Int
        /\ C(i).end <= (i + 1) * WindowMinutes /\ j * WindowMinutes <= C(j).start
    BY <1>4, Grid
  <2> QED
    BY <2>1, <2>2
<1>9. ASSUME NEW a \in windows, NEW b \in windows, a # b
      PROVE  a.end <= b.start \/ b.end <= a.start
  <2>1. PICK i \in Int : a = C(i)
    BY <1>2, <1>3
  <2>2. PICK j \in Int : b = C(j)
    BY <1>2, <1>3
  <2>3. i < j \/ j < i
    BY <1>9, <2>1, <2>2
  <2> QED
    BY <1>8, <2>1, <2>2, <2>3
<1> QED
  BY <1>7, <1>9 DEF limit

\* The windows of the same range begun later, from their first boundary on, are
\* windows of the range.
LEMMA LaterWindowsAreAmong ==
    ASSUME NEW start \in Int, NEW later \in Int, NEW end \in Int,
           start <= later, later < end,
           NEW v \in GenerateWindows(later, end), later < v.start
    PROVE  v \in GenerateWindows(start, end)
<1> DEFINE bound == Boundary(end)
           limit == EffectiveEnd(later, end)
<1>1. bound \in Int /\ bound <= end /\ end < bound + WindowMinutes
  BY BoundaryBelow
<1>2. WindowMinutes \in Nat \ {0}
  BY WindowMinutesAssumption
<1>3. limit \in Int
  BY <1>1, <1>2 DEF EffectiveEnd
<1>4. PICK i \in (later \div WindowMinutes)..((limit - 1) \div WindowMinutes) :
          v = Cell(later, limit, i)
  BY WindowsAreCells
<1>5. i \in Int /\ i * WindowMinutes \in Int /\ i <= (limit - 1) \div WindowMinutes
  <2>1. later \div WindowMinutes \in Int /\ (limit - 1) \div WindowMinutes \in Int
    BY <1>3, DivType
  <2>2. i \in Int /\ i <= (limit - 1) \div WindowMinutes
    BY <1>4, <2>1
  <2> QED
    BY <2>2, Grid
<1>6. v.start = Larger(later, i * WindowMinutes)
  BY <1>4 DEF Cell
<1>7. later < i * WindowMinutes
  BY <1>5, <1>6 DEF Larger
<1>8. i * WindowMinutes <= limit - 1
  BY <1>3, <1>5, Grid
<1>9. later <= bound
  <2>0. SUFFICES ASSUME bound < later PROVE FALSE
    BY <1>1
  <2>1. limit = bound + WindowMinutes
    BY <2>0 DEF EffectiveEnd
  <2> DEFINE q == end \div WindowMinutes
  <2>2. q \in Int /\ bound = q * WindowMinutes
    BY DivType DEF Boundary
  <2>3. (q + 1) * WindowMinutes = bound + WindowMinutes
    BY <2>2, Grid
  <2>4. (limit - 1) < (q + 1) * WindowMinutes
    BY <1>1, <1>2, <2>1, <2>3
  <2>5. (limit - 1) \div WindowMinutes <= q
    BY <1>3, <2>2, <2>4, Grid
  <2>6. (limit - 1) \div WindowMinutes \in Int
    BY <1>3, DivType
  <2>7. i <= q
    BY <1>5, <2>2, <2>5, <2>6
  <2>8. i * WindowMinutes <= q * WindowMinutes
    BY <1>2, <1>5, <2>2, <2>7, Monotone
  <2> QED
    BY <1>1, <1>5, <1>7, <2>0, <2>2, <2>8
<1>10. limit = bound /\ EffectiveEnd(start, end) = bound
  BY <1>1, <1>9 DEF EffectiveEnd
<1>11. start < i * WindowMinutes
  BY <1>5, <1>7
<1>12. start \div WindowMinutes <= i
  <2>1. start < (i + 1) * WindowMinutes
    <3>1. (i + 1) * WindowMinutes = i * WindowMinutes + WindowMinutes
      BY <1>5, Grid
    <3> QED
      BY <1>2, <1>5, <1>11, <3>1
  <2> QED
    BY <1>5, <2>1, Grid
<1>13. i \in (start \div WindowMinutes)..((bound - 1) \div WindowMinutes)
  <2>1. start \div WindowMinutes \in Int /\ (bound - 1) \div WindowMinutes \in Int
    BY <1>1, DivType
  <2> QED
    BY <1>5, <1>10, <1>12, <2>1
<1>14. v = Cell(start, bound, i)
  <2>1. Larger(later, i * WindowMinutes) = i * WindowMinutes
    BY <1>5, <1>7 DEF Larger
  <2>2. Larger(start, i * WindowMinutes) = i * WindowMinutes
    BY <1>5, <1>11 DEF Larger
  <2> QED
    BY <1>4, <1>10, <2>1, <2>2 DEF Cell
<1>15. GenerateWindows(start, end) =
           {Cell(start, bound, j) : j \in
               (start \div WindowMinutes)..((bound - 1) \div WindowMinutes)}
  BY <1>10, WindowsAreCells
<1> QED
  BY <1>13, <1>14, <1>15

----------------------------------------------------------------------------
(***************************************************************************)
(* The two properties of the windows, of any windows within any range.     *)
(***************************************************************************)

CoverageInv == successful \in SUBSET Windows /\ IsFiniteSet(successful)

LEMMA WindowsAreWindows ==
    /\ Windows \subseteq Window
    /\ \A w \in Windows : w.start \in Int /\ w.end \in Int /\ w.start < w.end
BY LastMinuteAssumption DEF Windows, Window

LEMMA CoverageInit == successful = {} => CoverageInv
BY FS_EmptySet DEF CoverageInv

LEMMA CoverageStep ==
    ASSUME CoverageInv, [AddWindow]_successful
    PROVE  CoverageInv'
<1>1. CASE UNCHANGED successful
  BY <1>1 DEF CoverageInv
<1>2. CASE AddWindow
  <2>1. PICK w \in Windows \ successful : successful' = successful \union {w}
    BY <1>2 DEF AddWindow
  <2> QED
    BY <2>1, FS_AddElement DEF CoverageInv
<1> QED
  BY <1>1, <1>2

\* Of any successful windows, the gaps that the reporter finds in a range are
\* the minutes of it that no window has, each in one gap: _calculate_coverage_gaps.
THEOREM GapsAreFound == CoverageSpec => []GapsAreTheUncoveredMinutes
<1>1. CoverageInv => GapsAreTheUncoveredMinutes
  <2> SUFFICES ASSUME CoverageInv, NEW start \in 0..LastMinute,
                      NEW end \in (start + 1)..LastMinute,
                      NEW gaps, gaps = CoverageGaps(successful, start, end)
               PROVE  /\ Minutes(gaps) = (start..(end - 1)) \ Minutes(successful)
                      /\ \A g, h \in gaps : g # h => g.end < h.start \/ h.end < g.start
    BY DEF GapsAreTheUncoveredMinutes
  <2>1. start \in Int /\ end \in Int
    BY LastMinuteAssumption
  <2>2. /\ successful \in SUBSET Window /\ IsFiniteSet(successful)
        /\ \A w \in successful : w.start < w.end
    BY WindowsAreWindows DEF CoverageInv
  <2> QED
    BY <2>1, <2>2, GapsAreUncovered
<1>2. CoverageInv /\ [AddWindow]_successful => CoverageInv'
  BY CoverageStep
<1> QED
  BY <1>1, <1>2, CoverageInit, PTL DEF CoverageSpec

\* A rerun that begins later in a range has the windows of the range from its
\* first boundary on, and the windows of a range have no hole and no overlap:
\* generate_windows.
THEOREM RerunsAreFound == CoverageSpec => []RerunsFindTheirWindows
<1>1. CoverageInv => RerunsFindTheirWindows
  <2> SUFFICES ASSUME CoverageInv, NEW w \in successful, NEW end \in w.end..LastMinute,
                      NEW windows, windows = GenerateWindows(w.start, end)
               PROVE  /\ w.start + WindowMinutes <= end =>
                            /\ Minutes(windows) =
                                  w.start..((end \div WindowMinutes) * WindowMinutes - 1)
                            /\ \A a, b \in windows :
                                  a # b => a.end <= b.start \/ b.end <= a.start
                      /\ \A start \in w.start..(end - 1) :
                            {v \in GenerateWindows(start, end) : v.start > start}
                                \subseteq windows
    BY DEF RerunsFindTheirWindows
  <2>1. w.start \in Int /\ end \in Int
    BY LastMinuteAssumption, WindowsAreWindows DEF CoverageInv
  <2>2. ASSUME w.start + WindowMinutes <= end
        PROVE  /\ Minutes(windows) =
                      w.start..((end \div WindowMinutes) * WindowMinutes - 1)
               /\ \A a, b \in windows : a # b => a.end <= b.start \/ b.end <= a.start
    BY <2>1, <2>2, WindowsFillRange DEF Boundary
  <2>3. ASSUME NEW start \in w.start..(end - 1),
               NEW v \in GenerateWindows(start, end), v.start > start
        PROVE  v \in windows
    <3>1. start \in Int /\ w.start <= start /\ start < end
      BY <2>1
    <3>2. start < v.start
      <4>1. v \in GenerateWindows(start, end)
        OBVIOUS
      <4>2. v.start \in Int
        <5>1. EffectiveEnd(start, end) \in Int
          BY <2>1, <3>1, BoundaryBelow, WindowMinutesAssumption DEF EffectiveEnd
        <5>2. start \div WindowMinutes \in Int
          BY <3>1, DivType
        <5>3. (EffectiveEnd(start, end) - 1) \div WindowMinutes \in Int
          BY <5>1, DivType
        <5>4. PICK i \in (start \div WindowMinutes)
                             ..((EffectiveEnd(start, end) - 1) \div WindowMinutes) :
                  v = Cell(start, EffectiveEnd(start, end), i)
          BY <2>1, <3>1, <4>1, WindowsAreCells
        <5>5. i \in Int
          BY <5>2, <5>3
        <5> QED
          BY <3>1, <5>1, <5>4, <5>5, CellType
      <4> QED
        BY <2>3, <3>1, <4>2
    <3> QED
      BY <2>1, <2>3, <3>1, <3>2, LaterWindowsAreAmong
  <2> QED
    BY <2>2, <2>3
<1>2. CoverageInv /\ [AddWindow]_successful => CoverageInv'
  BY CoverageStep
<1> QED
  BY <1>1, <1>2, CoverageInit, PTL DEF CoverageSpec

----------------------------------------------------------------------------
(***************************************************************************)
(* No change is hidden.  For this the windows need not be windows of time. *)
(***************************************************************************)
Shapes ==
    /\ \A r \in rows :
           /\ r = [window |-> r.window, state |-> r.state, ids |-> r.ids,
                   changesets |-> r.changesets, published |-> r.published]
           /\ r.published \in BOOLEAN
    /\ \A r, s \in rows : r.window = s.window => r = s
    /\ run = [step |-> run.step, range |-> run.range, scheduled |-> run.scheduled,
              todo |-> run.todo, summaries |-> run.summaries,
              progress |-> run.progress]
    /\ run.progress =
           [window |-> run.progress.window, ids |-> run.progress.ids,
            changesets |-> run.progress.changesets,
            succeeded |-> run.progress.succeeded, failed |-> run.progress.failed,
            seen |-> run.progress.seen]

AtWindow == run.step \in {"window", "batched"}

ProgressIsOfAWindow == AtWindow \/ run.progress = NoProgress

OnlySuccessIsPublished == \A r \in rows : r.published => r.state = "success"

\* What the loader answers with are rows, not stamped yet.
SummariesAreRows == \A s \in run.summaries : s \in rows /\ ~s.published

\* A window is harvested at most once in an execution.
TodoIsLeft ==
    \A w \in run.todo : ~Succeeded(w) /\ w \notin WindowsOf(run.summaries)

ProgressIsLeft ==
    AtWindow => /\ ~Succeeded(run.progress.window)
                /\ run.progress.window \notin WindowsOf(run.summaries)
                /\ run.progress.window \notin run.todo

\* A window that is resumed goes on with the changesets of its row.
ProgressKeepsItsRow ==
    AtWindow => \A r \in RowsOf(run.progress.window) :
                    r.changesets \subseteq run.progress.changesets

MarkedIsEmitted == run.step = "mark" => ResponseChangesets \subseteq emitted

HiddenInv ==
    /\ Shapes
    /\ ProgressIsOfAWindow
    /\ OnlySuccessIsPublished
    /\ SummariesAreRows
    /\ TodoIsLeft
    /\ ProgressIsLeft
    /\ ProgressKeepsItsRow
    /\ MarkedIsEmitted
    /\ NoChangeIsHidden

Unstamped == {r \in rows : ~r.published}

\* Where a change of the store may be found.
Kept == emitted \union run.progress.changesets \union ResponseChangesets
        \union UNION {r.changesets : r \in Unstamped}

LEMMA KeptSuffices ==
    ASSUME NoChangeIsHidden, table' = table, Kept \subseteq Kept'
    PROVE  NoChangeIsHidden'
<1>1. \A id \in DOMAIN table : table[id].changeset \in Kept
  BY DEF NoChangeIsHidden, Kept, Unstamped
<1>2. \A id \in DOMAIN table' : table'[id].changeset \in Kept'
  BY <1>1
<1> QED
  BY <1>2 DEF NoChangeIsHidden, Kept, Unstamped

\* The rows of a window that has not succeeded are not stamped, nor are those
\* that the loader answers with.
LEMMA LeftIsUnstamped ==
    ASSUME OnlySuccessIsPublished, NEW w, ~Succeeded(w)
    PROVE  RowsOf(w) \subseteq Unstamped
BY DEF OnlySuccessIsPublished, Succeeded, RowsOf, Unstamped

LEMMA AnswersAreUnstamped ==
    ASSUME SummariesAreRows
    PROVE  ResponseChangesets \subseteq UNION {r.changesets : r \in Unstamped}
<1>1. run.summaries \subseteq Unstamped
  BY DEF SummariesAreRows, Unstamped
<1> QED
  BY <1>1 DEF ResponseChangesets

\* A step that starts the execution anew forgets no changeset.
LEMMA Fresh ==
    ASSUME HiddenInv, UNCHANGED <<table, rows, emitted>>,
           AtWindow => Recorded,
           NEW step \in {"idle", "load"}, NEW range, NEW scheduled,
           run' = [step |-> step, range |-> range, scheduled |-> scheduled,
                   todo |-> {}, summaries |-> {}, progress |-> NoProgress]
    PROVE  HiddenInv'
<1>1. /\ run'.step = step /\ run'.todo = {} /\ run'.summaries = {}
      /\ run'.progress = NoProgress
  OBVIOUS
<1>2. Shapes'
  BY <1>1 DEF HiddenInv, Shapes, NoProgress
<1>3. /\ ProgressIsOfAWindow' /\ SummariesAreRows' /\ TodoIsLeft' /\ ProgressIsLeft'
      /\ ProgressKeepsItsRow' /\ MarkedIsEmitted'
  BY <1>1 DEF ProgressIsOfAWindow, SummariesAreRows, TodoIsLeft, ProgressIsLeft,
              ProgressKeepsItsRow, MarkedIsEmitted, AtWindow
<1>4. OnlySuccessIsPublished'
  BY DEF HiddenInv, OnlySuccessIsPublished
<1>5. run.progress.changesets \subseteq UNION {r.changesets : r \in Unstamped}
  <2>1. CASE AtWindow
    <3>1. RowsOf(run.progress.window) \subseteq Unstamped
      BY <2>1, LeftIsUnstamped DEF HiddenInv, ProgressIsLeft
    <3> QED
      BY <2>1, <3>1 DEF Recorded
  <2>2. CASE ~AtWindow
    BY <2>2 DEF HiddenInv, ProgressIsOfAWindow, NoProgress
  <2> QED
    BY <2>1, <2>2
<1>6. Kept \subseteq Kept'
  <2>1. Unstamped' = Unstamped
    BY DEF Unstamped
  <2>2. Kept \subseteq emitted \union UNION {r.changesets : r \in Unstamped}
    BY <1>5, AnswersAreUnstamped DEF Kept, HiddenInv
  <2> QED
    BY <2>1, <2>2 DEF Kept
<1> QED
  BY <1>2, <1>3, <1>4, <1>6, KeptSuffices DEF HiddenInv

LEMMA HiddenFrame ==
    ASSUME HiddenInv, UNCHANGED <<table, rows, run, emitted>>
    PROVE  HiddenInv'
<1>1. Shapes' /\ ProgressIsOfAWindow' /\ OnlySuccessIsPublished' /\ SummariesAreRows'
  BY DEF HiddenInv, Shapes, ProgressIsOfAWindow, OnlySuccessIsPublished,
         SummariesAreRows, AtWindow
<1>2. TodoIsLeft' /\ ProgressIsLeft' /\ ProgressKeepsItsRow'
  BY DEF HiddenInv, TodoIsLeft, ProgressIsLeft, ProgressKeepsItsRow, AtWindow,
         Succeeded, RowsOf, WindowsOf
<1>3. MarkedIsEmitted' /\ NoChangeIsHidden'
  BY DEF HiddenInv, MarkedIsEmitted, NoChangeIsHidden, ResponseChangesets
<1> QED
  BY <1>1, <1>2, <1>3 DEF HiddenInv

LEMMA KeptByRows ==
    ASSUME SummariesAreRows, rows' = rows, emitted \subseteq emitted',
           run.progress.changesets \subseteq Kept'
    PROVE  Kept \subseteq Kept'
<1>1. Unstamped' = Unstamped
  BY DEF Unstamped
<1>2. ResponseChangesets \subseteq UNION {r.changesets : r \in Unstamped}
  BY AnswersAreUnstamped
<1> QED
  BY <1>1, <1>2 DEF Kept

\* The part of the invariant that is about rows alone.
LEMMA SameRows ==
    ASSUME HiddenInv, rows' = rows,
           run' = [step |-> run'.step, range |-> run'.range,
                   scheduled |-> run'.scheduled, todo |-> run'.todo,
                   summaries |-> run'.summaries, progress |-> run'.progress],
           run'.progress =
               [window |-> run'.progress.window, ids |-> run'.progress.ids,
                changesets |-> run'.progress.changesets,
                succeeded |-> run'.progress.succeeded,
                failed |-> run'.progress.failed, seen |-> run'.progress.seen]
    PROVE  /\ Shapes' /\ OnlySuccessIsPublished'
           /\ \A w : Succeeded(w)' = Succeeded(w) /\ RowsOf(w)' = RowsOf(w)
<1>1. OnlySuccessIsPublished'
  BY DEF HiddenInv, OnlySuccessIsPublished
<1>2. Shapes'
  BY DEF HiddenInv, Shapes
<1>3. \A w : Succeeded(w)' = Succeeded(w) /\ RowsOf(w)' = RowsOf(w)
  BY DEF Succeeded, RowsOf
<1> QED
  BY <1>1, <1>2, <1>3

LEMMA HiddenStartLoader ==
    ASSUME HiddenInv, StartLoader
    PROVE  HiddenInv'
<1> DEFINE windows == GenerateWindows(run.range.start, run.range.end)
           pending == {w \in windows : ~Succeeded(w)}
           todo == {w \in pending :
                       Cardinality({v \in pending : Before(v, w)}) < MaxPending}
<1>1. /\ run.step = "load" /\ run.progress = NoProgress
      /\ UNCHANGED <<now, source, table, rows, emitted, died, faults>>
  BY DEF StartLoader, HiddenInv, ProgressIsOfAWindow, AtWindow
<1>2. run' = [run EXCEPT !.step = "harvest", !.todo = todo,
                         !.summaries = ReusedSummaries(windows)]
  BY DEF StartLoader
<1>3. \A w \in todo : ~Succeeded(w)
  OBVIOUS
<1> HIDE DEF windows, pending, todo
<1>4. run' = [step |-> "harvest", range |-> run.range, scheduled |-> run.scheduled,
              todo |-> todo, summaries |-> ReusedSummaries(windows),
              progress |-> NoProgress]
  BY <1>1, <1>2 DEF HiddenInv, Shapes
<1>5. /\ run'.step = "harvest" /\ run'.todo = todo
      /\ run'.summaries = ReusedSummaries(windows) /\ run'.progress = NoProgress
  BY <1>4
<1>6. /\ Shapes' /\ OnlySuccessIsPublished'
      /\ \A w : Succeeded(w)' = Succeeded(w) /\ RowsOf(w)' = RowsOf(w)
  BY <1>1, <1>4, SameRows DEF NoProgress
<1>7. SummariesAreRows'
  BY <1>1, <1>5 DEF SummariesAreRows, ReusedSummaries, SuccessRows
<1>8. TodoIsLeft'
  <2> SUFFICES ASSUME NEW w \in todo, NEW s \in ReusedSummaries(windows)
               PROVE  ~Succeeded(w) /\ w # s.window
    BY <1>3, <1>5, <1>6 DEF TodoIsLeft, WindowsOf
  <2> QED
    BY <1>3 DEF ReusedSummaries, SuccessRows, Succeeded, RowsOf
<1>9. ProgressIsOfAWindow' /\ ProgressIsLeft' /\ ProgressKeepsItsRow' /\ MarkedIsEmitted'
  BY <1>5 DEF ProgressIsOfAWindow, ProgressIsLeft, ProgressKeepsItsRow,
              MarkedIsEmitted, AtWindow
<1>10. NoChangeIsHidden'
  <2>1. run.progress.changesets = {}
    BY <1>1 DEF NoProgress
  <2> QED
    BY <1>1, <2>1, KeptByRows, KeptSuffices DEF HiddenInv
<1> QED
  BY <1>6, <1>7, <1>8, <1>9, <1>10 DEF HiddenInv

LEMMA HiddenStartWindow ==
    ASSUME HiddenInv, StartWindow
    PROVE  HiddenInv'
<1>1. PICK window \in run.todo :
          run' = [run EXCEPT !.step = "window", !.todo = @ \ {window},
                             !.progress = Resumed(window)]
  BY DEF StartWindow
<1>2. /\ run.step = "harvest" /\ run.progress = NoProgress
      /\ UNCHANGED <<now, source, table, rows, emitted, died, faults>>
  BY DEF StartWindow, HiddenInv, ProgressIsOfAWindow, AtWindow
<1>3. run' = [step |-> "window", range |-> run.range, scheduled |-> run.scheduled,
              todo |-> run.todo \ {window}, summaries |-> run.summaries,
              progress |-> Resumed(window)]
  BY <1>1 DEF HiddenInv, Shapes
<1>4. /\ run'.step = "window" /\ run'.todo = run.todo \ {window}
      /\ run'.summaries = run.summaries /\ run'.progress = Resumed(window)
  BY <1>3
<1>5. /\ Resumed(window) =
             [window |-> Resumed(window).window, ids |-> Resumed(window).ids,
              changesets |-> Resumed(window).changesets,
              succeeded |-> Resumed(window).succeeded,
              failed |-> Resumed(window).failed, seen |-> Resumed(window).seen]
      /\ Resumed(window).window = window
      /\ Resumed(window).changesets = UNION {r.changesets : r \in RowsOf(window)}
  <2> DEFINE ids == UNION {r.ids : r \in RowsOf(window)}
             changesets == UNION {r.changesets : r \in RowsOf(window)}
  <2>1. Resumed(window) =
            [NoProgress EXCEPT !.window = window, !.ids = ids, !.seen = ids,
                               !.changesets = changesets]
    BY DEF Resumed
  <2> HIDE DEF ids, changesets
  <2>2. Resumed(window) =
            [window |-> window, ids |-> ids, changesets |-> changesets,
             succeeded |-> FALSE, failed |-> FALSE, seen |-> ids]
    BY <2>1 DEF NoProgress
  <2> QED
    BY <2>2 DEF changesets
<1>6. /\ Shapes' /\ OnlySuccessIsPublished'
      /\ \A w : Succeeded(w)' = Succeeded(w) /\ RowsOf(w)' = RowsOf(w)
  BY <1>2, <1>3, <1>5, SameRows
<1>7. SummariesAreRows'
  BY <1>2, <1>4 DEF SummariesAreRows, HiddenInv
<1>8. TodoIsLeft' /\ ProgressIsLeft'
  <2>1. WindowsOf(run'.summaries) = WindowsOf(run.summaries)
    BY <1>4
  <2> QED
    BY <1>4, <1>5, <1>6, <2>1 DEF TodoIsLeft, ProgressIsLeft, HiddenInv, WindowsOf
<1>9. ProgressKeepsItsRow'
  <2>1. RowsOf(run.progress.window)' = RowsOf(window)
    BY <1>2, <1>4, <1>5 DEF RowsOf
  <2> QED
    BY <1>4, <1>5, <2>1 DEF ProgressKeepsItsRow
<1>10. ProgressIsOfAWindow' /\ MarkedIsEmitted'
  BY <1>4 DEF ProgressIsOfAWindow, MarkedIsEmitted, AtWindow
<1>11. NoChangeIsHidden'
  <2>1. run.progress.changesets = {}
    BY <1>2 DEF NoProgress
  <2> QED
    BY <1>2, <2>1, KeptByRows, KeptSuffices DEF HiddenInv
<1> QED
  BY <1>6, <1>7, <1>8, <1>9, <1>10, <1>11 DEF HiddenInv

\* A step inside a window that adds changesets to its progress, at most.
LEMMA HiddenInWindow ==
    ASSUME HiddenInv, AtWindow, rows' = rows,
           NEW step \in {"window", "batched"}, NEW progress,
           progress = [window |-> run.progress.window, ids |-> progress.ids,
                       changesets |-> progress.changesets,
                       succeeded |-> progress.succeeded,
                       failed |-> progress.failed, seen |-> progress.seen],
           run.progress.changesets \subseteq progress.changesets,
           run' = [step |-> step, range |-> run.range, scheduled |-> run.scheduled,
                   todo |-> run.todo, summaries |-> run.summaries,
                   progress |-> progress]
    PROVE  /\ Shapes' /\ ProgressIsOfAWindow' /\ OnlySuccessIsPublished'
           /\ SummariesAreRows' /\ TodoIsLeft' /\ ProgressIsLeft'
           /\ ProgressKeepsItsRow' /\ MarkedIsEmitted'
           /\ emitted \subseteq emitted' => Kept \subseteq Kept'
<1>1. /\ run'.step = step /\ run'.todo = run.todo /\ run'.summaries = run.summaries
      /\ run'.progress = progress /\ progress.window = run.progress.window
  OBVIOUS
<1>2. /\ Shapes' /\ OnlySuccessIsPublished'
      /\ \A w : Succeeded(w)' = Succeeded(w) /\ RowsOf(w)' = RowsOf(w)
  BY <1>1, SameRows
<1>3. SummariesAreRows' /\ ProgressIsOfAWindow' /\ MarkedIsEmitted'
  BY <1>1 DEF SummariesAreRows, HiddenInv, ProgressIsOfAWindow, MarkedIsEmitted,
              AtWindow
<1>4. TodoIsLeft' /\ ProgressIsLeft'
  BY <1>1, <1>2 DEF TodoIsLeft, ProgressIsLeft, HiddenInv, WindowsOf
<1>5. ProgressKeepsItsRow'
  <2>1. RowsOf(run.progress.window)' = RowsOf(run.progress.window)
    BY <1>1 DEF RowsOf
  <2> QED
    BY <1>1, <2>1 DEF ProgressKeepsItsRow, HiddenInv
<1>6. ASSUME emitted \subseteq emitted' PROVE Kept \subseteq Kept'
  <2>1. run.progress.changesets \subseteq Kept'
    BY <1>1 DEF Kept
  <2> QED
    BY <1>6, <2>1, KeptByRows DEF HiddenInv
<1> QED
  BY <1>2, <1>3, <1>4, <1>5, <1>6

LEMMA HiddenProcessBatch ==
    ASSUME HiddenInv, ProcessBatch
    PROVE  HiddenInv'
<1>1. AtWindow /\ UNCHANGED <<now, source, rows, emitted, died, faults>>
  BY DEF ProcessBatch, AtWindow
<1> DEFINE changes(batch) == IncrementalChanges(table, [id \in batch |-> source[id]])
           written(batch) == IF DOMAIN changes(batch) = {} THEN {}
                             ELSE {Changeset(changes(batch))}
<1>2. PICK batch \in Batches :
          /\ table' = CommitChangeset(table, changes(batch))
          /\ run' = [run EXCEPT
                 !.step = "batched",
                 !.progress.ids = @ \union batch,
                 !.progress.seen = @ \union batch,
                 !.progress.succeeded = TRUE,
                 !.progress.changesets = @ \union written(batch)]
  BY DEF ProcessBatch
<1> DEFINE new == changes(batch)
           progress == [window |-> run.progress.window,
                        ids |-> run.progress.ids \union batch,
                        changesets |-> run.progress.changesets \union written(batch),
                        succeeded |-> TRUE, failed |-> run.progress.failed,
                        seen |-> run.progress.seen \union batch]
<1>3. DOMAIN new # {} => Changeset(new) \in written(batch)
  OBVIOUS
<1>4. table' = CommitChangeset(table, new)
  BY <1>2
<1> HIDE DEF changes, written, new
<1>5. run' = [step |-> "batched", range |-> run.range, scheduled |-> run.scheduled,
              todo |-> run.todo, summaries |-> run.summaries, progress |-> progress]
  BY <1>2 DEF HiddenInv, Shapes
<1>6. /\ Shapes' /\ ProgressIsOfAWindow' /\ OnlySuccessIsPublished'
      /\ SummariesAreRows' /\ TodoIsLeft' /\ ProgressIsLeft'
      /\ ProgressKeepsItsRow' /\ MarkedIsEmitted' /\ Kept \subseteq Kept'
  <2>1. /\ progress = [window |-> run.progress.window, ids |-> progress.ids,
                       changesets |-> progress.changesets,
                       succeeded |-> progress.succeeded,
                       failed |-> progress.failed, seen |-> progress.seen]
        /\ run.progress.changesets \subseteq progress.changesets
    OBVIOUS
  <2> HIDE DEF progress
  <2> QED
    BY <1>1, <1>5, <2>1, HiddenInWindow
<1>7. NoChangeIsHidden'
  <2> SUFFICES ASSUME NEW id \in DOMAIN table'
               PROVE  table'[id].changeset \in Kept'
    BY DEF NoChangeIsHidden, Kept, Unstamped
  <2>1. CASE id \in DOMAIN new
    <3>1. table'[id].changeset = Changeset(new)
      BY <1>4, <2>1 DEF CommitChangeset, TaggedRow
    <3>2. Changeset(new) \in progress.changesets
      BY <1>3, <2>1
    <3>3. run'.progress.changesets = progress.changesets
      BY <1>5
    <3> QED
      BY <3>1, <3>2, <3>3 DEF Kept
  <2>2. CASE id \notin DOMAIN new
    <3>1. id \in DOMAIN table /\ table'[id] = table[id]
      BY <1>4, <2>2 DEF CommitChangeset
    <3>2. table[id].changeset \in Kept
      BY <3>1 DEF HiddenInv, NoChangeIsHidden, Kept, Unstamped
    <3> QED
      BY <1>6, <3>1, <3>2
  <2> QED
    BY <2>1, <2>2
<1> QED
  BY <1>6, <1>7 DEF HiddenInv

LEMMA HiddenBatchFails ==
    ASSUME HiddenInv, BatchFails
    PROVE  HiddenInv'
<1>1. AtWindow /\ UNCHANGED <<now, source, table, rows, emitted, died>>
  BY DEF BatchFails, AtWindow
<1>2. PICK batch \in (Batches \ {{}}) :
          run' = [run EXCEPT
                 !.step = IF run.progress.succeeded THEN "batched" ELSE "window",
                 !.progress.seen = @ \union batch, !.progress.failed = TRUE]
  BY DEF BatchFails
<1> DEFINE progress == [window |-> run.progress.window, ids |-> run.progress.ids,
                        changesets |-> run.progress.changesets,
                        succeeded |-> run.progress.succeeded, failed |-> TRUE,
                        seen |-> run.progress.seen \union batch]
<1>3. PICK step \in {"window", "batched"} :
          run' = [run EXCEPT !.step = step, !.progress.seen = @ \union batch,
                             !.progress.failed = TRUE]
  BY <1>2
<1>4. run' = [step |-> step, range |-> run.range, scheduled |-> run.scheduled,
              todo |-> run.todo, summaries |-> run.summaries, progress |-> progress]
  BY <1>3 DEF HiddenInv, Shapes
<1>5. /\ progress = [window |-> run.progress.window, ids |-> progress.ids,
                     changesets |-> progress.changesets,
                     succeeded |-> progress.succeeded,
                     failed |-> progress.failed, seen |-> progress.seen]
      /\ run.progress.changesets \subseteq progress.changesets
  OBVIOUS
<1> HIDE DEF progress
<1>6. /\ Shapes' /\ ProgressIsOfAWindow' /\ OnlySuccessIsPublished'
      /\ SummariesAreRows' /\ TodoIsLeft' /\ ProgressIsLeft'
      /\ ProgressKeepsItsRow' /\ MarkedIsEmitted' /\ Kept \subseteq Kept'
  BY <1>1, <1>4, <1>5, HiddenInWindow
<1>7. NoChangeIsHidden'
  BY <1>1, <1>6, KeptSuffices DEF HiddenInv
<1> QED
  BY <1>6, <1>7 DEF HiddenInv

\* The row of the window that is being harvested takes the place of the old one.
Upserted(row, state) ==
    /\ row = [window |-> row.window, state |-> row.state, ids |-> row.ids,
              changesets |-> row.changesets, published |-> row.published]
    /\ row.window = run.progress.window /\ row.state = state
    /\ row.changesets = run.progress.changesets /\ row.published = FALSE
    /\ \A r \in rows' : r = row \/ (r \in rows /\ r.window # row.window)
    /\ row \in rows' /\ \A r \in rows : r.window # row.window => r \in rows'
    /\ \A w : w # row.window => (Succeeded(w)' <=> Succeeded(w))
    /\ UNION {r.changesets : r \in Unstamped}
           \subseteq UNION {r.changesets : r \in Unstamped'}
    /\ row.changesets \subseteq UNION {r.changesets : r \in Unstamped'}

LEMMA Upserting ==
    ASSUME HiddenInv, AtWindow, NEW progress, NEW state,
           progress.window = run.progress.window,
           progress.changesets = run.progress.changesets,
           NEW row, row = Summary(progress, state), Upsert(row)
    PROVE  Upserted(row, state)
<1>1. row = [window |-> run.progress.window, state |-> state, ids |-> progress.ids,
             changesets |-> run.progress.changesets, published |-> FALSE]
  BY DEF Summary
<1>2. /\ row = [window |-> row.window, state |-> row.state, ids |-> row.ids,
                changesets |-> row.changesets, published |-> row.published]
      /\ row.window = run.progress.window /\ row.state = state
      /\ row.changesets = run.progress.changesets /\ row.published = FALSE
  BY <1>1
<1>3. rows' = {r \in rows : r.window # row.window} \union {row}
  BY DEF Upsert
<1>4. \A w : w # row.window => (Succeeded(w)' <=> Succeeded(w))
  BY <1>3 DEF Succeeded, RowsOf
<1>5. row \in Unstamped'
  BY <1>2, <1>3 DEF Unstamped
<1>6. UNION {r.changesets : r \in Unstamped} \subseteq UNION {r.changesets : r \in Unstamped'}
  <2> SUFFICES ASSUME NEW r \in Unstamped, NEW c \in r.changesets
               PROVE  \E s \in Unstamped' : c \in s.changesets
    OBVIOUS
  <2>1. CASE r.window = row.window
    <3>1. r \in RowsOf(run.progress.window)
      BY <1>2, <2>1 DEF RowsOf, Unstamped
    <3>2. c \in row.changesets
      BY <1>2, <3>1 DEF HiddenInv, ProgressKeepsItsRow
    <3> QED
      BY <1>5, <3>2
  <2>2. CASE r.window # row.window
    BY <1>3, <2>2 DEF Unstamped
  <2> QED
    BY <2>1, <2>2
<1> QED
  BY <1>2, <1>3, <1>4, <1>5, <1>6 DEF Upserted

LEMMA UpsertedShapes ==
    ASSUME HiddenInv, AtWindow, NEW row,
           row = [window |-> row.window, state |-> row.state, ids |-> row.ids,
                  changesets |-> row.changesets, published |-> row.published],
           row.window = run.progress.window, row.published = FALSE,
           \A r \in rows' : r = row \/ (r \in rows /\ r.window # row.window),
           \A r \in rows : r.window # row.window => r \in rows'
    PROVE  /\ \A r \in rows' :
                  /\ r = [window |-> r.window, state |-> r.state, ids |-> r.ids,
                          changesets |-> r.changesets, published |-> r.published]
                  /\ r.published \in BOOLEAN
           /\ \A r, s \in rows' : r.window = s.window => r = s
           /\ OnlySuccessIsPublished'
           /\ \A s \in run.summaries : s \in rows' /\ ~s.published
           /\ \A s \in run.summaries : s.window # row.window
<1>1. \A r \in rows' :
          /\ r = [window |-> r.window, state |-> r.state, ids |-> r.ids,
                  changesets |-> r.changesets, published |-> r.published]
          /\ r.published \in BOOLEAN
  BY DEF HiddenInv, Shapes
<1>2. \A r, s \in rows' : r.window = s.window => r = s
  BY DEF HiddenInv, Shapes
<1>3. OnlySuccessIsPublished'
  BY DEF HiddenInv, OnlySuccessIsPublished
<1>4. \A s \in run.summaries : s.window # row.window
  BY DEF HiddenInv, ProgressIsLeft, WindowsOf
<1> QED
  BY <1>1, <1>2, <1>3, <1>4 DEF HiddenInv, SummariesAreRows

LEMMA HiddenSaveProgress ==
    ASSUME HiddenInv, SaveProgress
    PROVE  HiddenInv'
<1>1. /\ AtWindow
      /\ UNCHANGED <<now, source, table, emitted, died>>
      /\ run' = [run EXCEPT !.step = "window"]
  BY DEF SaveProgress, AtWindow
<1>2. run' = [step |-> "window", range |-> run.range, scheduled |-> run.scheduled,
              todo |-> run.todo, summaries |-> run.summaries,
              progress |-> run.progress]
  BY <1>1 DEF HiddenInv, Shapes
<1>3. /\ run'.step = "window" /\ run'.todo = run.todo
      /\ run'.summaries = run.summaries /\ run'.progress = run.progress
  BY <1>2
<1>4. CASE rows' = rows
  <2>1. run.progress =
            [window |-> run.progress.window, ids |-> run.progress.ids,
             changesets |-> run.progress.changesets,
             succeeded |-> run.progress.succeeded, failed |-> run.progress.failed,
             seen |-> run.progress.seen]
    BY DEF HiddenInv, Shapes
  <2>2. /\ Shapes' /\ ProgressIsOfAWindow' /\ OnlySuccessIsPublished'
        /\ SummariesAreRows' /\ TodoIsLeft' /\ ProgressIsLeft'
        /\ ProgressKeepsItsRow' /\ MarkedIsEmitted' /\ Kept \subseteq Kept'
    BY <1>1, <1>2, <1>4, <2>1, HiddenInWindow
  <2>3. NoChangeIsHidden'
    BY <1>1, <2>2, KeptSuffices DEF HiddenInv
  <2> QED
    BY <2>2, <2>3 DEF HiddenInv
<1>5. CASE Upsert(Summary(run.progress, "partial_success"))
  <2>1. PICK row : row = Summary(run.progress, "partial_success") /\ Upsert(row)
    BY <1>5
  <2>2. /\ row = [window |-> row.window, state |-> row.state, ids |-> row.ids,
                  changesets |-> row.changesets, published |-> row.published]
        /\ row.window = run.progress.window /\ row.state = "partial_success"
        /\ row.changesets = run.progress.changesets /\ row.published = FALSE
        /\ \A r \in rows' : r = row \/ (r \in rows /\ r.window # row.window)
        /\ row \in rows' /\ \A r \in rows : r.window # row.window => r \in rows'
        /\ \A w : w # row.window => (Succeeded(w)' <=> Succeeded(w))
        /\ UNION {r.changesets : r \in Unstamped}
               \subseteq UNION {r.changesets : r \in Unstamped'}
    <3>1. Upserted(row, "partial_success")
      BY <1>1, <2>1, Upserting
    <3> QED
      BY <3>1 DEF Upserted
  <2>3. /\ \A r \in rows' :
               /\ r = [window |-> r.window, state |-> r.state, ids |-> r.ids,
                       changesets |-> r.changesets, published |-> r.published]
               /\ r.published \in BOOLEAN
        /\ \A r, s \in rows' : r.window = s.window => r = s
        /\ OnlySuccessIsPublished'
        /\ \A s \in run.summaries : s \in rows' /\ ~s.published
        /\ \A s \in run.summaries : s.window # row.window
    BY <1>1, <2>2, UpsertedShapes
  <2>4. Shapes'
    BY <1>2, <1>3, <2>3 DEF HiddenInv, Shapes
  <2>5. SummariesAreRows' /\ ProgressIsOfAWindow' /\ MarkedIsEmitted'
    BY <1>3, <2>3 DEF SummariesAreRows, ProgressIsOfAWindow, MarkedIsEmitted, AtWindow
  <2>6. TodoIsLeft'
    <3> SUFFICES ASSUME NEW w \in run.todo
                 PROVE  ~Succeeded(w)' /\ w \notin WindowsOf(run.summaries)
      BY <1>3 DEF TodoIsLeft, WindowsOf
    <3>1. w # row.window
      BY <1>1, <2>2 DEF HiddenInv, ProgressIsLeft
    <3> QED
      BY <2>2, <3>1 DEF HiddenInv, TodoIsLeft
  <2>7. ProgressIsLeft'
    <3>1. \A r \in rows' : r.window = row.window => r.state # "success"
      BY <2>2
    <3>2. ~Succeeded(run.progress.window)'
      BY <1>3, <2>2, <3>1 DEF Succeeded, RowsOf
    <3> QED
      BY <1>1, <1>3, <3>2 DEF HiddenInv, ProgressIsLeft, WindowsOf
  <2>8. ProgressKeepsItsRow'
    <3>1. \A r \in RowsOf(run.progress.window)' : r = row
      BY <1>3, <2>2 DEF RowsOf
    <3> QED
      BY <1>3, <2>2, <3>1 DEF ProgressKeepsItsRow
  <2>9. NoChangeIsHidden'
    <3>1. ResponseChangesets' = ResponseChangesets
      BY <1>3 DEF ResponseChangesets
    <3>2. Kept \subseteq Kept'
      BY <1>1, <1>3, <2>2, <3>1 DEF Kept
    <3> QED
      BY <1>1, <3>2, KeptSuffices DEF HiddenInv
  <2> QED
    BY <2>3, <2>4, <2>5, <2>6, <2>7, <2>8, <2>9 DEF HiddenInv
<1> QED
  BY <1>4, <1>5 DEF SaveProgress

LEMMA HiddenFinishWindow ==
    ASSUME HiddenInv, FinishWindow
    PROVE  HiddenInv'
<1>1. AtWindow /\ run.step = "window" /\ UNCHANGED <<now, source, table, emitted, died>>
  BY DEF FinishWindow, AtWindow
<1>2. PICK progress \in {run.progress, [run.progress EXCEPT !.failed = TRUE]} :
          LET summary == Summary(progress, FinalState(progress))
          IN  /\ Upsert(summary)
              /\ run' = [run EXCEPT !.step = "harvest", !.progress = NoProgress,
                                    !.summaries = @ \union {summary}]
  BY DEF FinishWindow
<1>3. /\ progress.window = run.progress.window
      /\ progress.changesets = run.progress.changesets
  <2>1. run.progress =
            [window |-> run.progress.window, ids |-> run.progress.ids,
             changesets |-> run.progress.changesets,
             succeeded |-> run.progress.succeeded, failed |-> run.progress.failed,
             seen |-> run.progress.seen]
    BY DEF HiddenInv, Shapes
  <2> QED
    BY <1>2, <2>1
<1>4. PICK row : /\ row = Summary(progress, FinalState(progress)) /\ Upsert(row)
                 /\ run' = [run EXCEPT !.step = "harvest", !.progress = NoProgress,
                                       !.summaries = @ \union {row}]
  BY <1>2
<1>5. run' = [step |-> "harvest", range |-> run.range, scheduled |-> run.scheduled,
              todo |-> run.todo, summaries |-> run.summaries \union {row},
              progress |-> NoProgress]
  BY <1>4 DEF HiddenInv, Shapes
<1>6. /\ run'.step = "harvest" /\ run'.todo = run.todo
      /\ run'.summaries = run.summaries \union {row} /\ run'.progress = NoProgress
  BY <1>5
<1>7. /\ row = [window |-> row.window, state |-> row.state, ids |-> row.ids,
                changesets |-> row.changesets, published |-> row.published]
      /\ row.window = run.progress.window
      /\ row.changesets = run.progress.changesets /\ row.published = FALSE
      /\ \A r \in rows' : r = row \/ (r \in rows /\ r.window # row.window)
      /\ row \in rows' /\ \A r \in rows : r.window # row.window => r \in rows'
      /\ \A w : w # row.window => (Succeeded(w)' <=> Succeeded(w))
      /\ UNION {r.changesets : r \in Unstamped}
             \subseteq UNION {r.changesets : r \in Unstamped'}
      /\ row.changesets \subseteq UNION {r.changesets : r \in Unstamped'}
  <2>1. PICK state : state = FinalState(progress)
    OBVIOUS
  <2>2. Upserted(row, state)
    BY <1>1, <1>3, <1>4, <2>1, Upserting
  <2> QED
    BY <2>2 DEF Upserted
<1>8. /\ \A r \in rows' :
             /\ r = [window |-> r.window, state |-> r.state, ids |-> r.ids,
                     changesets |-> r.changesets, published |-> r.published]
             /\ r.published \in BOOLEAN
      /\ \A r, s \in rows' : r.window = s.window => r = s
      /\ OnlySuccessIsPublished'
      /\ \A s \in run.summaries : s \in rows' /\ ~s.published
      /\ \A s \in run.summaries : s.window # row.window
  BY <1>1, <1>7, UpsertedShapes
<1>9. Shapes'
  <2>1. run'.progress =
            [window |-> run'.progress.window, ids |-> run'.progress.ids,
             changesets |-> run'.progress.changesets,
             succeeded |-> run'.progress.succeeded,
             failed |-> run'.progress.failed, seen |-> run'.progress.seen]
    BY <1>6 DEF NoProgress
  <2>2. run' = [step |-> run'.step, range |-> run'.range,
                scheduled |-> run'.scheduled, todo |-> run'.todo,
                summaries |-> run'.summaries, progress |-> run'.progress]
    BY <1>5
  <2> QED
    BY <1>8, <2>1, <2>2 DEF Shapes
<1>10. /\ SummariesAreRows' /\ ProgressIsOfAWindow' /\ MarkedIsEmitted'
       /\ ProgressIsLeft' /\ ProgressKeepsItsRow'
  BY <1>6, <1>7, <1>8 DEF SummariesAreRows, ProgressIsOfAWindow, MarkedIsEmitted,
     ProgressIsLeft, ProgressKeepsItsRow, AtWindow
<1>11. TodoIsLeft'
  <2> SUFFICES ASSUME NEW w \in run.todo
               PROVE  /\ ~Succeeded(w)'
                      /\ \A s \in run.summaries : w # s.window
                      /\ w # row.window
    BY <1>6 DEF TodoIsLeft, WindowsOf
  <2>1. w # row.window
    BY <1>1, <1>7 DEF HiddenInv, ProgressIsLeft
  <2> QED
    BY <1>7, <2>1 DEF HiddenInv, TodoIsLeft, WindowsOf
<1>12. NoChangeIsHidden'
  <2>1. ResponseChangesets \subseteq ResponseChangesets'
    BY <1>6 DEF ResponseChangesets
  <2>2. Kept \subseteq Kept'
    BY <1>1, <1>7, <2>1 DEF Kept
  <2> QED
    BY <1>1, <2>2, KeptSuffices DEF HiddenInv
<1> QED
  BY <1>8, <1>9, <1>10, <1>11, <1>12 DEF HiddenInv

LEMMA HiddenFinishLoader ==
    ASSUME HiddenInv, FinishLoader
    PROVE  HiddenInv'
<1>1. /\ run' = [run EXCEPT !.step = "publish"] /\ run.progress = NoProgress
      /\ UNCHANGED <<now, source, table, rows, emitted, died, faults>>
  BY DEF FinishLoader, HiddenInv, ProgressIsOfAWindow, AtWindow
<1>2. run' = [step |-> "publish", range |-> run.range, scheduled |-> run.scheduled,
              todo |-> run.todo, summaries |-> run.summaries,
              progress |-> run.progress]
  BY <1>1 DEF HiddenInv, Shapes
<1>3. /\ run'.step = "publish" /\ run'.todo = run.todo
      /\ run'.summaries = run.summaries /\ run'.progress = run.progress
  BY <1>2
<1>4. /\ Shapes' /\ OnlySuccessIsPublished'
      /\ \A w : Succeeded(w)' = Succeeded(w) /\ RowsOf(w)' = RowsOf(w)
  BY <1>1, <1>2, SameRows DEF NoProgress
<1>5. /\ SummariesAreRows' /\ ProgressIsOfAWindow' /\ ProgressIsLeft'
      /\ ProgressKeepsItsRow' /\ MarkedIsEmitted'
  BY <1>1, <1>3 DEF HiddenInv, SummariesAreRows, ProgressIsOfAWindow, ProgressIsLeft,
     ProgressKeepsItsRow, MarkedIsEmitted, AtWindow
<1>6. TodoIsLeft'
  BY <1>3, <1>4 DEF HiddenInv, TodoIsLeft, WindowsOf
<1>7. NoChangeIsHidden'
  <2>1. run.progress.changesets = {}
    BY <1>1 DEF NoProgress
  <2> QED
    BY <1>1, <2>1, KeptByRows, KeptSuffices DEF HiddenInv
<1> QED
  BY <1>4, <1>5, <1>6, <1>7 DEF HiddenInv

LEMMA HiddenPublishEvent ==
    ASSUME HiddenInv, PublishEvent
    PROVE  HiddenInv'
<1>1. /\ run' = [run EXCEPT !.step = "mark"] /\ run.progress = NoProgress
      /\ emitted' = emitted \union ResponseChangesets
      /\ UNCHANGED <<now, source, table, rows, died, faults>>
  BY DEF PublishEvent, HiddenInv, ProgressIsOfAWindow, AtWindow
<1>2. run' = [step |-> "mark", range |-> run.range, scheduled |-> run.scheduled,
              todo |-> run.todo, summaries |-> run.summaries,
              progress |-> run.progress]
  BY <1>1 DEF HiddenInv, Shapes
<1>3. /\ run'.step = "mark" /\ run'.todo = run.todo
      /\ run'.summaries = run.summaries /\ run'.progress = run.progress
  BY <1>2
<1>4. /\ Shapes' /\ OnlySuccessIsPublished'
      /\ \A w : Succeeded(w)' = Succeeded(w) /\ RowsOf(w)' = RowsOf(w)
  BY <1>1, <1>2, SameRows DEF NoProgress
<1>5. /\ SummariesAreRows' /\ ProgressIsOfAWindow' /\ ProgressIsLeft'
      /\ ProgressKeepsItsRow'
  BY <1>1, <1>3 DEF HiddenInv, SummariesAreRows, ProgressIsOfAWindow, ProgressIsLeft,
     ProgressKeepsItsRow, AtWindow
<1>6. TodoIsLeft'
  BY <1>3, <1>4 DEF HiddenInv, TodoIsLeft, WindowsOf
<1>7. MarkedIsEmitted'
  BY <1>1, <1>3 DEF MarkedIsEmitted, ResponseChangesets
<1>8. NoChangeIsHidden'
  <2>1. run.progress.changesets = {}
    BY <1>1 DEF NoProgress
  <2> QED
    BY <1>1, <2>1, KeptByRows, KeptSuffices DEF HiddenInv
<1> QED
  BY <1>4, <1>5, <1>6, <1>7, <1>8 DEF HiddenInv

LEMMA HiddenMarkPublished ==
    ASSUME HiddenInv, MarkPublished
    PROVE  HiddenInv'
<1> DEFINE stamp(r) == r.published \/ (r.window \in CoveredWindows /\ r.state = "success")
           stamped(r) == [window |-> r.window, state |-> r.state, ids |-> r.ids,
                          changesets |-> r.changesets, published |-> stamp(r)]
<1>1. /\ run.step = "mark" /\ run' = Idle
      /\ UNCHANGED <<now, source, table, emitted, died, faults>>
  BY DEF MarkPublished
<1>2. rows' = {stamped(r) : r \in rows}
  <2>1. rows' = {[r EXCEPT !.published = stamp(r)] : r \in rows}
    BY DEF MarkPublished, Stamped
  <2>2. \A r \in rows : [r EXCEPT !.published = stamp(r)] = stamped(r)
    BY DEF HiddenInv, Shapes
  <2> DEFINE excepted(r) == [r EXCEPT !.published = stamp(r)]
  <2>3. rows' = {excepted(r) : r \in rows} /\ \A r \in rows : excepted(r) = stamped(r)
    BY <2>1, <2>2
  <2> HIDE DEF excepted, stamped
  <2> QED
    BY <2>3
<1>3. \A r \in rows : r.published \in BOOLEAN /\ stamp(r) \in BOOLEAN
  BY DEF HiddenInv, Shapes
<1> HIDE DEF stamp
<1>4. \A r \in rows :
          /\ stamped(r) = [window |-> stamped(r).window, state |-> stamped(r).state,
                           ids |-> stamped(r).ids,
                           changesets |-> stamped(r).changesets,
                           published |-> stamped(r).published]
          /\ stamped(r).window = r.window /\ stamped(r).state = r.state
          /\ stamped(r).changesets = r.changesets
          /\ stamped(r).published = stamp(r)
  OBVIOUS
<1> HIDE DEF stamped
<1>5. /\ run'.step = "idle" /\ run'.todo = {} /\ run'.summaries = {}
      /\ run'.progress = NoProgress
  BY <1>1 DEF Idle
<1>6. Shapes'
  <2>1. \A r \in rows' :
            /\ r = [window |-> r.window, state |-> r.state, ids |-> r.ids,
                    changesets |-> r.changesets, published |-> r.published]
            /\ r.published \in BOOLEAN
    BY <1>2, <1>3, <1>4
  <2>2. \A r, s \in rows' : r.window = s.window => r = s
    BY <1>2, <1>4 DEF HiddenInv, Shapes
  <2>3. run'.progress =
            [window |-> run'.progress.window, ids |-> run'.progress.ids,
             changesets |-> run'.progress.changesets,
             succeeded |-> run'.progress.succeeded,
             failed |-> run'.progress.failed, seen |-> run'.progress.seen]
    BY <1>5 DEF NoProgress
  <2>4. run' = [step |-> run'.step, range |-> run'.range,
                scheduled |-> run'.scheduled, todo |-> run'.todo,
                summaries |-> run'.summaries, progress |-> run'.progress]
    BY <1>1 DEF Idle
  <2> QED
    BY <2>1, <2>2, <2>3, <2>4 DEF Shapes
<1>7. OnlySuccessIsPublished'
  <2> SUFFICES ASSUME NEW r \in rows, stamp(r) PROVE r.state = "success"
    BY <1>2, <1>4 DEF OnlySuccessIsPublished
  <2> QED
    BY DEF stamp, HiddenInv, OnlySuccessIsPublished
<1>8. /\ ProgressIsOfAWindow' /\ SummariesAreRows' /\ TodoIsLeft' /\ ProgressIsLeft'
      /\ ProgressKeepsItsRow' /\ MarkedIsEmitted'
  BY <1>5 DEF ProgressIsOfAWindow, SummariesAreRows, TodoIsLeft, ProgressIsLeft,
              ProgressKeepsItsRow, MarkedIsEmitted, AtWindow
<1>9. ResponseChangesets \subseteq emitted
  BY <1>1 DEF HiddenInv, MarkedIsEmitted
<1>10. \A r \in Unstamped : r.changesets \subseteq emitted \/ stamped(r) \in Unstamped'
  <2> SUFFICES ASSUME NEW r \in Unstamped, stamped(r) \notin Unstamped'
               PROVE  r.changesets \subseteq emitted
    OBVIOUS
  <2>1. r \in rows /\ stamp(r) /\ ~r.published
    BY <1>2, <1>4 DEF Unstamped
  <2>2. PICK s \in run.summaries : s.window = r.window
    BY <2>1 DEF stamp, CoveredWindows, WindowsOf
  <2>3. s = r
    BY <2>1, <2>2 DEF HiddenInv, SummariesAreRows, Shapes
  <2> QED
    BY <1>9, <2>3 DEF ResponseChangesets
<1>11. Kept \subseteq Kept'
  <2>1. run.progress.changesets = {}
    BY <1>1 DEF HiddenInv, ProgressIsOfAWindow, AtWindow, NoProgress
  <2>2. UNION {r.changesets : r \in Unstamped}
            \subseteq emitted \union UNION {r.changesets : r \in Unstamped'}
    <3> SUFFICES ASSUME NEW r \in Unstamped, NEW c \in r.changesets
                 PROVE  c \in emitted \/ \E s \in Unstamped' : c \in s.changesets
      OBVIOUS
    <3>1. CASE r.changesets \subseteq emitted
      BY <3>1
    <3>2. CASE stamped(r) \in Unstamped'
      BY <1>4, <3>2 DEF Unstamped
    <3> QED
      BY <1>10, <3>1, <3>2
  <2> QED
    BY <1>1, <1>9, <2>1, <2>2 DEF Kept
<1> QED
  BY <1>1, <1>6, <1>7, <1>8, <1>11, KeptSuffices DEF HiddenInv

LEMMA HiddenInit == Init => HiddenInv
<1> SUFFICES ASSUME Init PROVE HiddenInv
  OBVIOUS
<1>1. /\ rows = {} /\ run = Idle /\ table = <<>>
  BY DEF Init
<1>2. /\ run.step = "idle" /\ run.todo = {} /\ run.summaries = {}
      /\ run.progress = NoProgress
  BY <1>1 DEF Idle
<1>3. Shapes
  BY <1>1 DEF Shapes, Idle, NoProgress
<1>4. NoChangeIsHidden
  BY <1>1 DEF NoChangeIsHidden
<1> QED
  BY <1>1, <1>2, <1>3, <1>4 DEF HiddenInv, ProgressIsOfAWindow, OnlySuccessIsPublished,
     SummariesAreRows, TodoIsLeft, ProgressIsLeft, ProgressKeepsItsRow,
     MarkedIsEmitted, AtWindow

LEMMA HiddenStep ==
    ASSUME HiddenInv, [Next]_vars, "unrecorded" \notin FaultKinds
    PROVE  HiddenInv'
<1>1. CASE UNCHANGED vars
  BY <1>1, HiddenFrame DEF vars
<1>2. CASE Tick \/ Modify
  BY <1>2, HiddenFrame DEF Tick, Modify
<1>3. CASE Trigger
  <2>1. PICK start : run' = [Idle EXCEPT !.step = "load", !.scheduled = TRUE,
                                         !.range = [start |-> start, end |-> now]]
    BY <1>3 DEF Trigger
  <2>2. run' = [step |-> "load", range |-> [start |-> start, end |-> now],
                scheduled |-> TRUE, todo |-> {}, summaries |-> {},
                progress |-> NoProgress]
    BY <2>1 DEF Idle
  <2>3. ~AtWindow /\ UNCHANGED <<table, rows, emitted>>
    BY <1>3 DEF Trigger, AtWindow
  <2> QED
    BY <2>2, <2>3, Fresh
<1>4. CASE Backfill
  <2>1. PICK range \in Backfills : run' = [Idle EXCEPT !.step = "load", !.range = range]
    BY <1>4 DEF Backfill
  <2>2. run' = [step |-> "load", range |-> range, scheduled |-> FALSE,
                todo |-> {}, summaries |-> {}, progress |-> NoProgress]
    BY <2>1 DEF Idle
  <2>3. ~AtWindow /\ UNCHANGED <<table, rows, emitted>>
    BY <1>4 DEF Backfill, AtWindow
  <2> QED
    BY <2>2, <2>3, Fresh
<1>5. CASE LoaderIsRetried
  <2>1. run' = [step |-> "load", range |-> run.range, scheduled |-> run.scheduled,
                todo |-> {}, summaries |-> {}, progress |-> NoProgress]
    BY <1>5 DEF LoaderIsRetried, Idle
  <2>2. Recorded /\ UNCHANGED <<table, rows, emitted>>
    BY <1>5 DEF LoaderIsRetried, MayDie
  <2> QED
    BY <2>1, <2>2, Fresh
<1>6. CASE ExecutionFails
  <2>1. run' = [step |-> "idle", range |-> Idle.range, scheduled |-> FALSE,
                todo |-> {}, summaries |-> {}, progress |-> NoProgress]
    BY <1>6 DEF ExecutionFails, Idle
  <2>2. Recorded /\ UNCHANGED <<table, rows, emitted>>
    BY <1>6 DEF ExecutionFails, MayDie
  <2> QED
    BY <2>1, <2>2, Fresh
<1> QED
  BY <1>1, <1>2, <1>3, <1>4, <1>5, <1>6, HiddenStartLoader, HiddenStartWindow,
     HiddenProcessBatch, HiddenBatchFails, HiddenSaveProgress, HiddenFinishWindow,
     HiddenFinishLoader, HiddenPublishEvent, HiddenMarkPublished
  DEF Next, Execute

\* If no execution dies between a batch and its row, every change of the store was
\* in an event or is where a later execution finds it, whatever the source does,
\* whichever batches fail, and however often the loader is started again.
THEOREM NothingIsHidden ==
    ASSUME "unrecorded" \notin FaultKinds
    PROVE  Spec => []NoChangeIsHidden
<1>1. HiddenInv /\ [Next]_vars => HiddenInv'
  BY HiddenStep
<1>2. HiddenInv => NoChangeIsHidden
  BY DEF HiddenInv
<1> QED
  BY <1>1, <1>2, HiddenInit, PTL DEF Spec

----------------------------------------------------------------------------
(***************************************************************************)
(* Where the windows are: none ends in the future.                         *)
(***************************************************************************)
Placed(w) ==
    /\ w \in Window
    /\ -Lookback <= w.start /\ -Lookback <= w.end
    /\ w.end <= Boundary(now)

Placements ==
    /\ IsFiniteSet(rows)
    /\ \A r \in rows : Placed(r.window)
    /\ run.step # "idle" => /\ -Lookback <= run.range.start
                            /\ run.range.start <= Boundary(run.range.end)
                            /\ run.range.end <= now
    /\ \A w \in run.todo : Placed(w)
    /\ AtWindow => Placed(run.progress.window)

LEMMA Constants ==
    /\ Lookback \in Nat /\ MaxNow \in Nat /\ MaxFaults \in Nat
    /\ WindowMinutes \in Nat /\ WindowMinutes > 0 /\ Lookback >= WindowMinutes
BY HarvestAssumption, WindowMinutesAssumption

LEMMA SuccessWindowsAreFinite ==
    ASSUME IsFiniteSet(rows)
    PROVE  IsFiniteSet(WindowsOf(SuccessRows))
<1> DEFINE f == [r \in SuccessRows |-> r.window]
<1>1. IsFiniteSet(SuccessRows)
  BY FS_Subset DEF SuccessRows
<1>2. f \in Surjection(SuccessRows, WindowsOf(SuccessRows))
  BY DEF Surjection, WindowsOf
<1> QED
  BY <1>1, <1>2, FS_Surjection

LEMMA CursorIsPlaced ==
    ASSUME TypeOK, Placements
    PROVE  /\ CursorEnd \in Int
           /\ -Lookback <= CursorEnd /\ CursorEnd <= Boundary(now)
<1>1. now \in Int /\ Boundary(now) \in Int
  BY BoundaryBelow, Constants DEF TypeOK
<1>2. ASSUME NEW rs \in SUBSET rows, rs # {}
      PROVE  /\ Max(Ends(rs)) \in Int
             /\ -Lookback <= Max(Ends(rs)) /\ Max(Ends(rs)) <= Boundary(now)
  <2>1. \A e \in Ends(rs) : e \in Int /\ -Lookback <= e /\ e <= Boundary(now)
    BY DEF Ends, Placements, Placed, Window
  <2>2. Ends(rs) \in SUBSET Int /\ Ends(rs) # {}
    BY <1>2, <2>1 DEF Ends
  <2>3. Max(Ends(rs)) \in Ends(rs)
    BY <1>1, <2>1, <2>2, GreatestInteger
  <2> QED
    BY <2>1, <2>3
<1>3. now - Lookback <= Boundary(now) /\ -Lookback <= now - Lookback
  BY <1>1, Constants, BoundaryBelow DEF TypeOK
<1>4. now - Lookback \in Int
  BY <1>1, Constants
<1> DEFINE published == {r \in SuccessRows : r.published}
<1>5. published \in SUBSET rows /\ SuccessRows \in SUBSET rows
  BY DEF SuccessRows
<1>6. CursorEnd = IF published # {} THEN Max(Ends(published))
                  ELSE IF SuccessRows # {} THEN Max(Ends(SuccessRows))
                  ELSE now - Lookback
  BY DEF CursorEnd
<1> HIDE DEF published
<1> QED
  BY <1>2, <1>3, <1>4, <1>5, <1>6

LEMMA StrandedGapsAreBefore ==
    ASSUME TypeOK, Placements, NEW cursor \in Int,
           NEW gap \in StrandedGaps(cursor)
    PROVE  gap.start \in Int /\ gap.start < cursor
<1> DEFINE before == {w.start : w \in {v \in WindowsOf(rows) : v.start < cursor}}
<1>1. before # {} /\ gap \in CoverageGaps(WindowsOf(SuccessRows), Min(before), cursor)
  BY DEF StrandedGaps
<1>2. \A t \in before : t \in Int /\ -Lookback <= t /\ t < cursor
  BY DEF WindowsOf, Placements, Placed, Window
<1>3. before \in SUBSET Int /\ -Lookback \in Int
  BY <1>2, Constants
<1> HIDE DEF before
<1>4. Min(before) \in before
  BY <1>1, <1>2, <1>3, LeastInteger
<1>5. WindowsOf(SuccessRows) \in SUBSET Window
  BY DEF WindowsOf, SuccessRows, Placements, Placed
<1>6. IsFiniteSet(WindowsOf(SuccessRows))
  BY SuccessWindowsAreFinite DEF Placements
<1>7. gap.start \in Min(before)..(cursor - 1) /\ Min(before) \in Int
  BY <1>1, <1>2, <1>3, <1>4, <1>5, <1>6, GapsBeginInRange
<1> QED
  BY <1>7

LEMMA RequestIsPlaced ==
    ASSUME TypeOK, Placements
    PROVE  /\ RequestStart(CursorEnd) \in Int
           /\ -Lookback <= RequestStart(CursorEnd)
           /\ RequestStart(CursorEnd) <= Boundary(now)
<1> DEFINE cursor == CursorEnd
           gaps == StrandedGaps(cursor)
           retries == RetryStarts(gaps, now, Lookback, MaxLag)
<1>1. cursor \in Int /\ -Lookback <= cursor /\ cursor <= Boundary(now)
  BY CursorIsPlaced
<1> HIDE DEF cursor
<1>2. now \in Int /\ now >= 0 /\ Boundary(now) \in Int
  BY BoundaryBelow, Constants DEF TypeOK
<1>3. \A g \in gaps : g.start \in Int /\ g.start < cursor
  BY <1>1, StrandedGapsAreBefore
<1>4. \A t \in retries : t \in Int /\ t < cursor /\ now - Lookback <= t
  <2>1. \A t \in retries : \E g \in gaps : g.start >= now - Lookback /\ t = g.start
    BY DEF RetryStarts
  <2> HIDE DEF gaps, retries
  <2> QED
    BY <1>2, <1>3, <2>1, Constants
<1>5. RequestStart(cursor) = IF retries = {} THEN cursor ELSE Min(retries)
  BY DEF RequestStart
<1> HIDE DEF gaps, retries
<1>6. CASE retries = {}
  BY <1>1, <1>5, <1>6 DEF cursor
<1>7. CASE retries # {}
  <2>1. retries \in SUBSET Int /\ now - Lookback \in Int
    BY <1>2, <1>4, Constants
  <2>2. Min(retries) \in retries
    BY <1>4, <1>7, <2>1, LeastInteger
  <2>3. /\ Min(retries) \in Int /\ Min(retries) < cursor
        /\ now - Lookback <= Min(retries)
    BY <1>4, <2>2
  <2>4. RequestStart(cursor) = Min(retries)
    BY <1>5, <1>7
  <2>5. RequestStart(cursor) \in Int /\ -Lookback <= RequestStart(cursor)
        /\ RequestStart(cursor) <= Boundary(now)
    BY <1>1, <1>2, <2>3, <2>4, Constants
  <2> QED
    BY <2>5 DEF cursor
<1> QED
  BY <1>6, <1>7

----------------------------------------------------------------------------
(***************************************************************************)
(* Types and places are kept.                                              *)
(***************************************************************************)
TypeInv == TypeOK /\ Placements

LEMMA PlacedStays ==
    ASSUME now \in Int, now' \in Int, now <= now', NEW w, Placed(w)
    PROVE  Placed(w)'
<1>1. Boundary(now) <= Boundary(now') /\ Boundary(now) \in Int /\ Boundary(now') \in Int
  BY BoundaryMonotone, BoundaryBelow
<1>2. w \in Window /\ w.end \in Int /\ w.end <= Boundary(now)
  BY DEF Placed, Window
<1> QED
  BY <1>1, <1>2 DEF Placed

LEMMA IdleType == NoProgress \in BatchProgress /\ Idle \in Run
<1>1. NoProgress \in BatchProgress
  BY DEF NoProgress, BatchProgress, Window, Changesets
<1>2. [start |-> 0, end |-> 0] \in Window
  BY DEF Window
<1> QED
  BY <1>1, <1>2 DEF Idle, Run

\* The environment, and stuttering.
LEMMA TypeEnvironment ==
    ASSUME TypeInv, UNCHANGED <<table, rows, run, emitted, died, faults>>,
           now' \in 0..MaxNow, now <= now',
           DOMAIN source' \subseteq Ids, \A id \in DOMAIN source' : source'[id] \in Update
    PROVE  TypeInv'
<1>1. TypeOK'
  BY DEF TypeInv, TypeOK
<1>2. now \in Int /\ now' \in Int
  BY Constants DEF TypeInv, TypeOK
<1>3. \A r \in rows' : Placed(r.window)'
  BY <1>2, PlacedStays DEF TypeInv, Placements
<1>4. \A w \in run'.todo : Placed(w)'
  BY <1>2, PlacedStays DEF TypeInv, Placements
<1>5. AtWindow' => Placed(run.progress.window)'
  BY <1>2, PlacedStays DEF TypeInv, Placements, AtWindow
<1>6. run.range.end \in Int
  BY DEF TypeInv, TypeOK, Run, Window
<1> QED
  BY <1>1, <1>2, <1>3, <1>4, <1>5, <1>6 DEF TypeInv, Placements

\* Whatever else happens, time and the source stay.
LEMMA TypeExecution ==
    ASSUME TypeInv, UNCHANGED <<now, source>>,
           IsTable(table'), rows' \subseteq WindowRow, IsFiniteSet(rows'),
           \A r, s \in rows' : r.window = s.window => r = s,
           \A r \in rows' : Placed(r.window),
           run' \in Run, emitted' \in Changesets, died' \in BOOLEAN,
           faults' \in 0..MaxFaults,
           run'.step # "idle" => /\ -Lookback <= run'.range.start
                                 /\ run'.range.start <= Boundary(run'.range.end)
                                 /\ run'.range.end <= now,
           \A w \in run'.todo : Placed(w),
           run'.step \in {"window", "batched"} => Placed(run'.progress.window)
    PROVE  TypeInv'
<1>1. TypeOK'
  BY DEF TypeInv, TypeOK
<1>2. \A w : Placed(w)' <=> Placed(w)
  BY DEF Placed
<1> QED
  BY <1>1, <1>2 DEF TypeInv, Placements, AtWindow

LEMMA FaultType ==
    ASSUME TypeInv, NEW kind, Fault(kind)
    PROVE  faults' \in 0..MaxFaults
BY Constants DEF TypeInv, TypeOK, Fault

\* The steps that leave rows and table alone.
LEMMA TypeRunStep ==
    ASSUME TypeInv, UNCHANGED <<now, source, table, rows>>,
           run' \in Run, emitted' \in Changesets, died' \in BOOLEAN,
           faults' \in 0..MaxFaults,
           run'.step # "idle" => /\ -Lookback <= run'.range.start
                                 /\ run'.range.start <= Boundary(run'.range.end)
                                 /\ run'.range.end <= now,
           \A w \in run'.todo : Placed(w),
           run'.step \in {"window", "batched"} => Placed(run'.progress.window)
    PROVE  TypeInv'
<1>1. /\ IsTable(table') /\ rows' \subseteq WindowRow /\ IsFiniteSet(rows')
      /\ \A r, s \in rows' : r.window = s.window => r = s
      /\ \A r \in rows' : Placed(r.window)
  BY DEF TypeInv, TypeOK, Placements
<1> QED
  BY <1>1, TypeExecution

LEMMA TypeRestart ==
    ASSUME TypeInv, UNCHANGED <<now, source, table, rows>>,
           emitted' \in Changesets, died' \in BOOLEAN, faults' \in 0..MaxFaults,
           NEW step \in {"idle", "load"}, NEW range \in Window, NEW scheduled \in BOOLEAN,
           run' = [step |-> step, range |-> range, scheduled |-> scheduled,
                   todo |-> {}, summaries |-> {}, progress |-> NoProgress],
           step = "load" => /\ -Lookback <= range.start
                            /\ range.start <= Boundary(range.end)
                            /\ range.end <= now
    PROVE  TypeInv'
<1>1. run' \in Run
  BY IdleType DEF Run
<1>2. run'.step = step /\ run'.range = range /\ run'.todo = {}
  OBVIOUS
<1> QED
  BY <1>1, <1>2, TypeRunStep

LEMMA TypeTrigger ==
    ASSUME TypeInv, Trigger
    PROVE  TypeInv'
<1>1. PICK start : /\ start = RequestStart(CursorEnd) /\ start < now
                   /\ run' = [Idle EXCEPT !.step = "load", !.scheduled = TRUE,
                                          !.range = [start |-> start, end |-> now]]
  BY DEF Trigger
<1> DEFINE range == [start |-> start, end |-> now]
<1>2. start \in Int /\ -Lookback <= start /\ start <= Boundary(now)
  BY <1>1, RequestIsPlaced DEF TypeInv
<1>3. run' = [step |-> "load", range |-> range, scheduled |-> TRUE,
              todo |-> {}, summaries |-> {}, progress |-> NoProgress]
  BY <1>1 DEF Idle
<1>4. now \in Int
  BY Constants DEF TypeInv, TypeOK
<1>5. /\ range \in Window /\ -Lookback <= range.start
      /\ range.start <= Boundary(range.end) /\ range.end <= now
  BY <1>2, <1>4 DEF Window
<1>6. /\ UNCHANGED <<now, source, table, rows>>
      /\ emitted' \in Changesets /\ died' \in BOOLEAN /\ faults' \in 0..MaxFaults
  BY DEF Trigger, TypeInv, TypeOK
<1> HIDE DEF range
<1> QED
  BY <1>3, <1>5, <1>6, TypeRestart

LEMMA TypeBackfill ==
    ASSUME TypeInv, Backfill
    PROVE  TypeInv'
<1>1. PICK range \in Backfills :
          range.end <= now /\ run' = [Idle EXCEPT !.step = "load", !.range = range]
  BY DEF Backfill
<1>2. /\ range.start \in Nat /\ range.end \in Nat /\ range \in Window
      /\ range.start < range.end /\ range.start % WindowMinutes = 0
  <2>1. range \in [start : Nat, end : Nat]
    BY HarvestAssumption
  <2> QED
    BY <2>1, HarvestAssumption DEF Window
<1>3. range.start <= Boundary(range.end)
  <2>1. Boundary(range.start) = range.start
    BY <1>2, Constants DEF Boundary
  <2> QED
    BY <1>2, <2>1, BoundaryMonotone
<1>4. run' = [step |-> "load", range |-> range, scheduled |-> FALSE,
              todo |-> {}, summaries |-> {}, progress |-> NoProgress]
  BY <1>1 DEF Idle
<1>5. /\ UNCHANGED <<now, source, table, rows>>
      /\ emitted' \in Changesets /\ died' \in BOOLEAN /\ faults' \in 0..MaxFaults
  BY DEF Backfill, TypeInv, TypeOK
<1>6. -Lookback <= range.start
  BY <1>2, Constants
<1> QED
  BY <1>1, <1>2, <1>3, <1>4, <1>5, <1>6, TypeRestart

LEMMA TypeLoaderIsRetried ==
    ASSUME TypeInv, LoaderIsRetried
    PROVE  TypeInv'
<1>1. run' = [step |-> "load", range |-> run.range, scheduled |-> run.scheduled,
              todo |-> {}, summaries |-> {}, progress |-> NoProgress]
  BY DEF LoaderIsRetried, Idle
<1>2. /\ UNCHANGED <<now, source, table, rows>>
      /\ emitted' \in Changesets /\ died' \in BOOLEAN /\ faults' \in 0..MaxFaults
  BY FaultType DEF LoaderIsRetried, TypeInv, TypeOK
<1>3. run.range \in Window /\ run.scheduled \in BOOLEAN
  BY DEF TypeInv, TypeOK, Run
<1>4. /\ -Lookback <= run.range.start
      /\ run.range.start <= Boundary(run.range.end) /\ run.range.end <= now
  BY DEF LoaderIsRetried, Loading, TypeInv, Placements
<1> QED
  BY <1>1, <1>2, <1>3, <1>4, TypeRestart

LEMMA TypeExecutionFails ==
    ASSUME TypeInv, ExecutionFails
    PROVE  TypeInv'
<1>1. run' = [step |-> "idle", range |-> [start |-> 0, end |-> 0], scheduled |-> FALSE,
              todo |-> {}, summaries |-> {}, progress |-> NoProgress]
  BY DEF ExecutionFails, Idle
<1>2. /\ UNCHANGED <<now, source, table, rows>>
      /\ emitted' \in Changesets /\ died' \in BOOLEAN /\ faults' \in 0..MaxFaults
  BY FaultType DEF ExecutionFails, TypeInv, TypeOK
<1>3. [start |-> 0, end |-> 0] \in Window
  BY DEF Window
<1> QED
  BY <1>1, <1>2, <1>3, TypeRestart

LEMMA TypeStartLoader ==
    ASSUME TypeInv, StartLoader
    PROVE  TypeInv'
<1> DEFINE windows == GenerateWindows(run.range.start, run.range.end)
           pending == {w \in windows : ~Succeeded(w)}
           todo == {w \in pending :
                       Cardinality({v \in pending : Before(v, w)}) < MaxPending}
<1>1. /\ run' = [run EXCEPT !.step = "harvest", !.todo = todo,
                            !.summaries = ReusedSummaries(windows)]
      /\ run.step = "load"
      /\ UNCHANGED <<now, source, table, rows, emitted, died, faults>>
  BY DEF StartLoader
<1>2. /\ run.range.start \in Int /\ run.range.end \in Int
      /\ -Lookback <= run.range.start
      /\ run.range.start <= Boundary(run.range.end) /\ run.range.end <= now
      /\ now \in Int
  BY <1>1, Constants DEF TypeInv, TypeOK, Placements, Run, Window
<1>3. ASSUME NEW w \in windows PROVE Placed(w)
  <2>1. /\ w \in Window /\ run.range.start <= w.start /\ run.range.start <= w.end
        /\ w.end <= Boundary(run.range.end)
    BY <1>2, WindowsInsideRange
  <2>2. /\ Boundary(run.range.end) <= Boundary(now)
        /\ Boundary(run.range.end) \in Int /\ Boundary(now) \in Int
    BY <1>2, BoundaryMonotone, BoundaryBelow
  <2>3. w.start \in Int /\ w.end \in Int
    BY <2>1 DEF Window
  <2> HIDE DEF windows
  <2> QED
    BY <1>2, <2>1, <2>2, <2>3, Constants DEF Placed
<1>4. todo \subseteq windows
  OBVIOUS
<1>5. ReusedSummaries(windows) \subseteq WindowRow
  BY DEF ReusedSummaries, SuccessRows, TypeInv, TypeOK
<1> HIDE DEF windows, pending, todo
<1>6. \A w \in todo : Placed(w) /\ w \in Window
  BY <1>3, <1>4 DEF Placed
<1>7. run' \in Run
  BY <1>1, <1>5, <1>6 DEF TypeInv, TypeOK, Run
<1>8. run'.range = run.range /\ run'.todo = todo /\ run'.step = "harvest"
  BY <1>1 DEF TypeInv, TypeOK, Run
<1>9. emitted' \in Changesets /\ died' \in BOOLEAN /\ faults' \in 0..MaxFaults
  BY <1>1 DEF TypeInv, TypeOK
<1> QED
  BY <1>1, <1>2, <1>6, <1>7, <1>8, <1>9, TypeRunStep

LEMMA TypeStartWindow ==
    ASSUME TypeInv, StartWindow
    PROVE  TypeInv'
<1>1. PICK window \in run.todo :
          run' = [run EXCEPT !.step = "window", !.todo = @ \ {window},
                             !.progress = Resumed(window)]
  BY DEF StartWindow
<1>2. /\ run.step = "harvest"
      /\ UNCHANGED <<now, source, table, rows, emitted, died, faults>>
  BY DEF StartWindow
<1>3. Placed(window) /\ window \in Window
  BY DEF TypeInv, Placements, Placed
<1>4. Resumed(window) \in BatchProgress /\ Resumed(window).window = window
  <2> DEFINE ids == UNION {r.ids : r \in RowsOf(window)}
             changesets == UNION {r.changesets : r \in RowsOf(window)}
  <2>1. ids \in SUBSET Ids
    BY DEF RowsOf, TypeInv, TypeOK, WindowRow
  <2>2. changesets \in Changesets
    BY DEF RowsOf, TypeInv, TypeOK, WindowRow, Changesets
  <2>3. Resumed(window) =
            [NoProgress EXCEPT !.window = window, !.ids = ids, !.seen = ids,
                               !.changesets = changesets]
    BY DEF Resumed
  <2> HIDE DEF ids, changesets
  <2>4. Resumed(window) =
            [window |-> window, ids |-> ids, changesets |-> changesets,
             succeeded |-> FALSE, failed |-> FALSE, seen |-> ids]
    BY <2>3 DEF NoProgress
  <2> QED
    BY <1>3, <2>1, <2>2, <2>4 DEF BatchProgress
<1>5. run' \in Run
  BY <1>1, <1>4 DEF TypeInv, TypeOK, Run
<1>6. /\ run'.step = "window" /\ run'.range = run.range
      /\ run'.todo = run.todo \ {window} /\ run'.progress = Resumed(window)
  BY <1>1 DEF TypeInv, TypeOK, Run
<1>7. emitted' \in Changesets /\ died' \in BOOLEAN /\ faults' \in 0..MaxFaults
  BY <1>2 DEF TypeInv, TypeOK
<1>8. /\ -Lookback <= run'.range.start
      /\ run'.range.start <= Boundary(run'.range.end) /\ run'.range.end <= now
      /\ \A w \in run'.todo : Placed(w)
  BY <1>2, <1>6 DEF TypeInv, Placements
<1> QED
  BY <1>2, <1>3, <1>4, <1>5, <1>6, <1>7, <1>8, TypeRunStep

\* A step inside a window keeps the place of the execution.
LEMMA TypeInWindow ==
    ASSUME TypeInv, AtWindow, UNCHANGED <<now, source>>,
           NEW step \in {"window", "batched"}, NEW progress \in BatchProgress,
           progress.window = run.progress.window,
           run' = [step |-> step, range |-> run.range, scheduled |-> run.scheduled,
                   todo |-> run.todo, summaries |-> run.summaries,
                   progress |-> progress]
    PROVE  /\ run' \in Run
           /\ run'.step # "idle" => /\ -Lookback <= run'.range.start
                                    /\ run'.range.start <= Boundary(run'.range.end)
                                    /\ run'.range.end <= now
           /\ \A w \in run'.todo : Placed(w)
           /\ run'.step \in {"window", "batched"} => Placed(run'.progress.window)
<1>1. run' \in Run
  BY DEF TypeInv, TypeOK, Run
<1>2. run'.range = run.range /\ run'.todo = run.todo /\ run'.progress = progress
  OBVIOUS
<1> QED
  BY <1>1, <1>2 DEF TypeInv, Placements, AtWindow

\* A batch is what the table takes, from the source.
SourceRows(batch) == [id \in batch |-> source[id]]

LEMMA BatchType ==
    ASSUME TypeInv, NEW batch \in Batches
    PROVE  /\ batch \subseteq DOMAIN source /\ batch \in SUBSET Ids
           /\ DOMAIN SourceRows(batch) = batch
           /\ \A id \in batch : SourceRows(batch)[id] = source[id]
           /\ \A id \in DOMAIN SourceRows(batch) : SourceRows(batch)[id] \in Update
<1>1. batch \subseteq DOMAIN source /\ batch \in SUBSET Ids
  BY DEF Batches, Remaining, TypeInv, TypeOK
<1> QED
  BY <1>1 DEF SourceRows, TypeInv, TypeOK

\* What a batch that is written does to the table and to the execution.
Processed(batch, progress) ==
    /\ table' = CommitChangeset(table, IncrementalChanges(table, SourceRows(batch)))
    /\ progress.window = run.progress.window
    /\ progress.ids = run.progress.ids \union batch
    /\ progress.seen = run.progress.seen \union batch
    /\ progress.failed = run.progress.failed
    /\ progress \in BatchProgress
    /\ run' = [step |-> "batched", range |-> run.range, scheduled |-> run.scheduled,
               todo |-> run.todo, summaries |-> run.summaries, progress |-> progress]

LEMMA ProcessBatchIs ==
    ASSUME TypeInv, ProcessBatch
    PROVE  \E batch \in Batches : \E progress : Processed(batch, progress)
<1> DEFINE changes(batch) == IncrementalChanges(table, SourceRows(batch))
           written(batch) == IF DOMAIN changes(batch) = {} THEN {}
                             ELSE {Changeset(changes(batch))}
<1>1. PICK batch \in Batches :
          /\ table' = CommitChangeset(table, changes(batch))
          /\ run' = [run EXCEPT
                 !.step = "batched",
                 !.progress.ids = @ \union batch,
                 !.progress.seen = @ \union batch,
                 !.progress.succeeded = TRUE,
                 !.progress.changesets = @ \union written(batch)]
  BY DEF ProcessBatch, SourceRows
<1>2. written(batch) \in Changesets
  <2>1. Changeset(changes(batch)) \in SUBSET (Ids \X Nat)
    BY BatchType, IncrementalChangesetType DEF TypeInv, TypeOK
  <2> HIDE DEF changes
  <2> QED
    BY <2>1 DEF Changesets
<1> DEFINE progress == [window |-> run.progress.window,
                        ids |-> run.progress.ids \union batch,
                        changesets |-> run.progress.changesets \union written(batch),
                        succeeded |-> TRUE, failed |-> run.progress.failed,
                        seen |-> run.progress.seen \union batch]
<1> HIDE DEF written
<1>3. progress \in BatchProgress
  BY <1>2, BatchType DEF TypeInv, TypeOK, Run, BatchProgress, Changesets
<1>4. run' = [step |-> "batched", range |-> run.range, scheduled |-> run.scheduled,
              todo |-> run.todo, summaries |-> run.summaries, progress |-> progress]
  BY <1>1 DEF TypeInv, TypeOK, Run, BatchProgress
<1>5. Processed(batch, progress)
  BY <1>1, <1>3, <1>4 DEF Processed
<1> QED
  BY <1>5

LEMMA TypeProcessBatch ==
    ASSUME TypeInv, ProcessBatch
    PROVE  TypeInv'
<1>1. PICK batch \in Batches : \E progress : Processed(batch, progress)
  BY ProcessBatchIs
<1>2. PICK progress : Processed(batch, progress)
  BY <1>1
<1>3. AtWindow /\ UNCHANGED <<now, source, rows, emitted, died, faults>>
  BY DEF ProcessBatch, AtWindow
<1>4. /\ run' \in Run
      /\ run'.step # "idle" => /\ -Lookback <= run'.range.start
                               /\ run'.range.start <= Boundary(run'.range.end)
                               /\ run'.range.end <= now
      /\ \A w \in run'.todo : Placed(w)
      /\ run'.step \in {"window", "batched"} => Placed(run'.progress.window)
  BY <1>2, <1>3, TypeInWindow DEF Processed
<1>5. IsTable(table')
  BY <1>2, BatchType, IncrementalCommit DEF Processed, TypeInv, TypeOK
<1>6. /\ rows' \subseteq WindowRow /\ IsFiniteSet(rows')
      /\ \A r, s \in rows' : r.window = s.window => r = s
      /\ \A r \in rows' : Placed(r.window)
      /\ emitted' \in Changesets /\ died' \in BOOLEAN /\ faults' \in 0..MaxFaults
  BY <1>3 DEF TypeInv, TypeOK, Placements
<1> QED
  BY <1>3, <1>4, <1>5, <1>6, TypeExecution

\* What a batch that fails does to the execution.
Failed(batch, step, progress) ==
    /\ step \in {"window", "batched"}
    /\ progress.window = run.progress.window
    /\ progress.ids = run.progress.ids
    /\ progress.failed = TRUE
    /\ progress \in BatchProgress
    /\ run' = [step |-> step, range |-> run.range, scheduled |-> run.scheduled,
               todo |-> run.todo, summaries |-> run.summaries, progress |-> progress]

LEMMA BatchFailsIs ==
    ASSUME TypeInv, BatchFails
    PROVE  \E batch \in Batches : \E step, progress : Failed(batch, step, progress)
<1>1. PICK batch \in (Batches \ {{}}) :
          run' = [run EXCEPT
                 !.step = IF run.progress.succeeded THEN "batched" ELSE "window",
                 !.progress.seen = @ \union batch, !.progress.failed = TRUE]
  BY DEF BatchFails
<1> DEFINE progress == [window |-> run.progress.window, ids |-> run.progress.ids,
                        changesets |-> run.progress.changesets,
                        succeeded |-> run.progress.succeeded, failed |-> TRUE,
                        seen |-> run.progress.seen \union batch]
<1>2. PICK step \in {"window", "batched"} :
          run' = [run EXCEPT !.step = step, !.progress.seen = @ \union batch,
                             !.progress.failed = TRUE]
  BY <1>1
<1>3. progress \in BatchProgress
  BY BatchType DEF TypeInv, TypeOK, Run, BatchProgress
<1>4. run' = [step |-> step, range |-> run.range, scheduled |-> run.scheduled,
              todo |-> run.todo, summaries |-> run.summaries, progress |-> progress]
  BY <1>2 DEF TypeInv, TypeOK, Run, BatchProgress
<1>5. Failed(batch, step, progress)
  BY <1>3, <1>4 DEF Failed
<1> QED
  BY <1>5

LEMMA TypeBatchFails ==
    ASSUME TypeInv, BatchFails
    PROVE  TypeInv'
<1>1. PICK batch \in Batches : \E step, progress : Failed(batch, step, progress)
  BY BatchFailsIs
<1>2. PICK step, progress : Failed(batch, step, progress)
  BY <1>1
<1>3. /\ AtWindow /\ UNCHANGED <<now, source, table, rows, emitted, died>>
      /\ faults' \in 0..MaxFaults
  BY FaultType DEF BatchFails, AtWindow
<1>4. /\ run' \in Run
      /\ run'.step # "idle" => /\ -Lookback <= run'.range.start
                               /\ run'.range.start <= Boundary(run'.range.end)
                               /\ run'.range.end <= now
      /\ \A w \in run'.todo : Placed(w)
      /\ run'.step \in {"window", "batched"} => Placed(run'.progress.window)
  BY <1>2, <1>3, TypeInWindow DEF Failed
<1>5. emitted' \in Changesets /\ died' \in BOOLEAN
  BY <1>3 DEF TypeInv, TypeOK
<1> QED
  BY <1>3, <1>4, <1>5, TypeRunStep

\* The rows with the row of a window in place of the old one.
LEMMA UpsertType ==
    ASSUME TypeInv, NEW row \in WindowRow, Placed(row.window), Upsert(row)
    PROVE  /\ rows' \subseteq WindowRow /\ IsFiniteSet(rows')
           /\ \A r, s \in rows' : r.window = s.window => r = s
           /\ \A r \in rows' : Placed(r.window)
<1>1. rows' = {r \in rows : r.window # row.window} \union {row}
  BY DEF Upsert
<1>2. IsFiniteSet({r \in rows : r.window # row.window})
  BY FS_Subset DEF TypeInv, Placements
<1>3. IsFiniteSet(rows')
  BY <1>1, <1>2, FS_AddElement
<1> QED
  BY <1>1, <1>3 DEF TypeInv, TypeOK, Placements

LEMMA SummaryType ==
    ASSUME NEW progress \in BatchProgress,
           NEW state \in {"success", "partial_success", "failed"}
    PROVE  /\ Summary(progress, state) \in WindowRow
           /\ Summary(progress, state).window = progress.window
           /\ Summary(progress, state).state = state
           /\ Summary(progress, state).ids = progress.ids
<1>1. Summary(progress, state) =
          [window |-> progress.window, state |-> state, ids |-> progress.ids,
           changesets |-> progress.changesets, published |-> FALSE]
  BY DEF Summary
<1> QED
  BY <1>1 DEF BatchProgress, WindowRow

LEMMA TypeSaveProgress ==
    ASSUME TypeInv, SaveProgress
    PROVE  TypeInv'
<1>1. /\ AtWindow /\ UNCHANGED <<now, source, table, emitted, died>>
      /\ run' = [run EXCEPT !.step = "window"]
  BY DEF SaveProgress, AtWindow
<1>2. run.progress \in BatchProgress
  BY DEF TypeInv, TypeOK, Run
<1>3. run' = [step |-> "window", range |-> run.range, scheduled |-> run.scheduled,
              todo |-> run.todo, summaries |-> run.summaries,
              progress |-> run.progress]
  BY <1>1 DEF TypeInv, TypeOK, Run
<1>4. /\ run' \in Run
      /\ run'.step # "idle" => /\ -Lookback <= run'.range.start
                               /\ run'.range.start <= Boundary(run'.range.end)
                               /\ run'.range.end <= now
      /\ \A w \in run'.todo : Placed(w)
      /\ run'.step \in {"window", "batched"} => Placed(run'.progress.window)
  BY <1>1, <1>2, <1>3, TypeInWindow
<1>5. IsTable(table') /\ emitted' \in Changesets /\ died' \in BOOLEAN
  BY <1>1 DEF TypeInv, TypeOK
<1>6. faults' \in 0..MaxFaults
  BY FaultType DEF SaveProgress, TypeInv, TypeOK
<1>7. CASE rows' = rows
  BY <1>1, <1>4, <1>5, <1>6, <1>7, TypeRunStep
<1>8. CASE Upsert(Summary(run.progress, "partial_success"))
  <2>1. PICK row : row = Summary(run.progress, "partial_success")
    OBVIOUS
  <2>2. row \in WindowRow /\ Placed(row.window) /\ Upsert(row)
    BY <1>1, <1>2, <1>8, <2>1, SummaryType DEF TypeInv, Placements
  <2>3. /\ rows' \subseteq WindowRow /\ IsFiniteSet(rows')
        /\ \A r, s \in rows' : r.window = s.window => r = s
        /\ \A r \in rows' : Placed(r.window)
    BY <2>2, UpsertType
  <2> QED
    BY <1>1, <1>4, <1>5, <1>6, <2>3, TypeExecution
<1> QED
  BY <1>7, <1>8 DEF SaveProgress

\* What the end of a window does to the rows and to the execution.
Finished(progress, state, row) ==
    /\ progress \in BatchProgress
    /\ progress.window = run.progress.window /\ progress.ids = run.progress.ids
    /\ state \in {"success", "partial_success", "failed"}
    /\ state = "success" => ~run.progress.failed /\ Remaining = {}
    /\ row = Summary(progress, state)
    /\ Upsert(row)
    /\ run' = [step |-> "harvest", range |-> run.range, scheduled |-> run.scheduled,
               todo |-> run.todo, summaries |-> run.summaries \union {row},
               progress |-> NoProgress]

LEMMA FinishWindowIs ==
    ASSUME TypeInv, FinishWindow
    PROVE  \E progress, state, row : Finished(progress, state, row)
<1>1. PICK progress \in {run.progress, [run.progress EXCEPT !.failed = TRUE]} :
          /\ IF progress = run.progress THEN Remaining = {} /\ UNCHANGED faults
                                        ELSE Fault("list")
          /\ LET summary == Summary(progress, FinalState(progress))
             IN  /\ Upsert(summary)
                 /\ run' = [run EXCEPT !.step = "harvest", !.progress = NoProgress,
                                       !.summaries = @ \union {summary}]
  BY DEF FinishWindow
<1>2. run.progress \in BatchProgress
  BY DEF TypeInv, TypeOK, Run
<1>3. /\ progress \in BatchProgress
      /\ progress.window = run.progress.window /\ progress.ids = run.progress.ids
      /\ progress = run.progress \/ progress.failed
  BY <1>1, <1>2 DEF BatchProgress
<1>4. PICK state, row : /\ state = FinalState(progress) /\ row = Summary(progress, state)
                        /\ Upsert(row)
                        /\ run' = [run EXCEPT !.step = "harvest", !.progress = NoProgress,
                                              !.summaries = @ \union {row}]
  BY <1>1
<1>5. /\ state \in {"success", "partial_success", "failed"}
      /\ state = "success" => ~progress.failed
  BY <1>4 DEF FinalState
<1>6. state = "success" => ~run.progress.failed /\ Remaining = {}
  BY <1>1, <1>3, <1>5
<1>7. run' = [step |-> "harvest", range |-> run.range, scheduled |-> run.scheduled,
              todo |-> run.todo, summaries |-> run.summaries \union {row},
              progress |-> NoProgress]
  BY <1>4 DEF TypeInv, TypeOK, Run
<1>8. Finished(progress, state, row)
  BY <1>3, <1>4, <1>5, <1>6, <1>7 DEF Finished
<1> QED
  BY <1>8

LEMMA TypeFinishWindow ==
    ASSUME TypeInv, FinishWindow
    PROVE  TypeInv'
<1>1. PICK progress, state, row : Finished(progress, state, row)
  BY FinishWindowIs
<1>2. AtWindow /\ UNCHANGED <<now, source, table, emitted, died>>
  BY DEF FinishWindow, AtWindow
<1>3. faults' \in 0..MaxFaults
  BY FaultType DEF FinishWindow, TypeInv, TypeOK
<1>4. row \in WindowRow /\ Placed(row.window) /\ Upsert(row)
  BY <1>1, <1>2, SummaryType DEF Finished, TypeInv, Placements
<1>5. /\ rows' \subseteq WindowRow /\ IsFiniteSet(rows')
      /\ \A r, s \in rows' : r.window = s.window => r = s
      /\ \A r \in rows' : Placed(r.window)
  BY <1>4, UpsertType
<1>6. /\ run' \in Run /\ run'.step = "harvest" /\ run'.range = run.range
      /\ run'.todo = run.todo
  BY <1>1, <1>4, IdleType DEF Finished, TypeInv, TypeOK, Run
<1>7. /\ -Lookback <= run'.range.start
      /\ run'.range.start <= Boundary(run'.range.end) /\ run'.range.end <= now
      /\ \A w \in run'.todo : Placed(w)
  BY <1>2, <1>6 DEF TypeInv, Placements, AtWindow
<1>8. IsTable(table') /\ emitted' \in Changesets /\ died' \in BOOLEAN
  BY <1>2 DEF TypeInv, TypeOK
<1> QED
  BY <1>2, <1>3, <1>5, <1>6, <1>7, <1>8, TypeExecution

LEMMA TypeFinishLoader ==
    ASSUME TypeInv, FinishLoader
    PROVE  TypeInv'
<1>1. /\ run' = [run EXCEPT !.step = "publish"] /\ run.step = "harvest"
      /\ UNCHANGED <<now, source, table, rows, emitted, died, faults>>
  BY DEF FinishLoader
<1>2. /\ run' \in Run /\ run'.step = "publish" /\ run'.range = run.range
      /\ run'.todo = run.todo
  BY <1>1 DEF TypeInv, TypeOK, Run
<1>3. emitted' \in Changesets /\ died' \in BOOLEAN /\ faults' \in 0..MaxFaults
  BY <1>1 DEF TypeInv, TypeOK
<1>4. /\ -Lookback <= run'.range.start
      /\ run'.range.start <= Boundary(run'.range.end) /\ run'.range.end <= now
      /\ \A w \in run'.todo : Placed(w)
  BY <1>1, <1>2 DEF TypeInv, Placements
<1> QED
  BY <1>1, <1>2, <1>3, <1>4, TypeRunStep

LEMMA TypePublishEvent ==
    ASSUME TypeInv, PublishEvent
    PROVE  TypeInv'
<1>1. /\ run' = [run EXCEPT !.step = "mark"] /\ run.step = "publish"
      /\ emitted' = emitted \union ResponseChangesets
      /\ UNCHANGED <<now, source, table, rows, died, faults>>
  BY DEF PublishEvent
<1>2. /\ run' \in Run /\ run'.step = "mark" /\ run'.range = run.range
      /\ run'.todo = run.todo
  BY <1>1 DEF TypeInv, TypeOK, Run
<1>3. ResponseChangesets \in Changesets
  <2>1. \A s \in run.summaries : s.changesets \in Changesets
    BY DEF TypeInv, TypeOK, Run, WindowRow
  <2> QED
    BY <2>1 DEF ResponseChangesets, Changesets
<1>4. emitted' \in Changesets /\ died' \in BOOLEAN /\ faults' \in 0..MaxFaults
  BY <1>1, <1>3 DEF TypeInv, TypeOK, Changesets
<1>5. /\ -Lookback <= run'.range.start
      /\ run'.range.start <= Boundary(run'.range.end) /\ run'.range.end <= now
      /\ \A w \in run'.todo : Placed(w)
  BY <1>1, <1>2 DEF TypeInv, Placements
<1> QED
  BY <1>1, <1>2, <1>4, <1>5, TypeRunStep

\* A stamp changes nothing else of a row.
StampOf(r) == r.published \/ (r.window \in CoveredWindows /\ r.state = "success")
StampedRow(r) ==
    [window |-> r.window, state |-> r.state, ids |-> r.ids,
     changesets |-> r.changesets, published |-> StampOf(r)]

LEMMA MarkPublishedIs ==
    ASSUME TypeInv, MarkPublished
    PROVE  /\ rows' = {StampedRow(r) : r \in rows} /\ run' = Idle
           /\ \A r \in rows :
                  /\ StampedRow(r) \in WindowRow
                  /\ StampedRow(r).window = r.window
                  /\ StampedRow(r).state = r.state
                  /\ StampedRow(r).ids = r.ids
<1>1. rows \subseteq WindowRow
  BY DEF TypeInv, TypeOK
<1>2. \A r \in rows : StampOf(r) \in BOOLEAN
  BY <1>1 DEF StampOf, WindowRow
<1> DEFINE excepted(r) == [r EXCEPT !.published = StampOf(r)]
<1>3. rows' = {excepted(r) : r \in rows} /\ run' = Idle
  BY DEF MarkPublished, Stamped, StampOf
<1>4. \A r \in rows : excepted(r) = StampedRow(r)
  BY <1>1 DEF WindowRow, StampedRow
<1> HIDE DEF excepted
<1>5. rows' = {StampedRow(r) : r \in rows}
  BY <1>3, <1>4
<1>6. \A r \in rows : /\ StampedRow(r) \in WindowRow
                      /\ StampedRow(r).window = r.window
                      /\ StampedRow(r).state = r.state
                      /\ StampedRow(r).ids = r.ids
  BY <1>1, <1>2 DEF WindowRow, StampedRow
<1> QED
  BY <1>3, <1>5, <1>6

LEMMA TypeMarkPublished ==
    ASSUME TypeInv, MarkPublished
    PROVE  TypeInv'
<1>1. /\ rows' = {StampedRow(r) : r \in rows} /\ run' = Idle
      /\ \A r \in rows : StampedRow(r) \in WindowRow /\ StampedRow(r).window = r.window
      /\ UNCHANGED <<now, source, table, emitted, died, faults>>
  BY MarkPublishedIs DEF MarkPublished
<1>2. IsFiniteSet(rows')
  <2> DEFINE f == [r \in rows |-> StampedRow(r)]
  <2>1. f \in Surjection(rows, rows')
    BY <1>1 DEF Surjection
  <2> HIDE DEF f
  <2> QED
    BY <2>1, FS_Surjection DEF TypeInv, Placements
<1>3. /\ rows' \subseteq WindowRow
      /\ \A r, s \in rows' : r.window = s.window => r = s
      /\ \A r \in rows' : Placed(r.window)
  BY <1>1 DEF TypeInv, TypeOK, Placements
<1>4. run' \in Run /\ run'.step = "idle" /\ run'.todo = {}
  BY <1>1, IdleType DEF Idle
<1>5. /\ IsTable(table') /\ emitted' \in Changesets /\ died' \in BOOLEAN
      /\ faults' \in 0..MaxFaults
  BY <1>1 DEF TypeInv, TypeOK
<1> QED
  BY <1>1, <1>2, <1>3, <1>4, <1>5, TypeExecution

LEMMA TypeModify ==
    ASSUME TypeInv, Modify
    PROVE  TypeInv'
<1>1. PICK id \in Ids, deleted \in BOOLEAN :
          source' = [i \in DOMAIN source \union {id} |->
               IF i = id THEN [content |-> IF deleted THEN NoContent ELSE now,
                               deleted |-> deleted, lastModified |-> now]
                         ELSE source[i]]
  BY DEF Modify
<1>2. now \in 0..MaxNow /\ now \in Nat /\ now \in Contents
  BY HarvestAssumption, Constants DEF TypeInv, TypeOK
<1>3. PICK row : row = [content |-> IF deleted THEN NoContent ELSE now,
                        deleted |-> deleted, lastModified |-> now]
  OBVIOUS
<1>4. row \in Update
  BY <1>2, <1>3 DEF Update
<1>5. source' = [i \in DOMAIN source \union {id} |-> IF i = id THEN row ELSE source[i]]
  BY <1>1, <1>3
<1>6. /\ DOMAIN source' \subseteq Ids
      /\ \A i \in DOMAIN source' : source'[i] \in Update
  BY <1>4, <1>5 DEF TypeInv, TypeOK
<1>7. UNCHANGED <<now, table, rows, run, emitted, died, faults>>
  BY DEF Modify
<1> QED
  BY <1>2, <1>6, <1>7, TypeEnvironment

LEMMA TypeTick ==
    ASSUME TypeInv, Tick
    PROVE  TypeInv'
<1>1. now' \in 0..MaxNow /\ now <= now'
  BY Constants DEF Tick, TypeInv, TypeOK
<1>2. UNCHANGED <<source, table, rows, run, emitted, died, faults>>
  BY DEF Tick
<1>3. /\ DOMAIN source' \subseteq Ids
      /\ \A i \in DOMAIN source' : source'[i] \in Update
  BY <1>2 DEF TypeInv, TypeOK
<1> QED
  BY <1>1, <1>2, <1>3, TypeEnvironment

LEMMA TypeInit == Init => TypeInv
<1> SUFFICES ASSUME Init PROVE TypeInv
  OBVIOUS
<1>1. TypeOK
  <2>1. now \in 0..MaxNow /\ faults \in 0..MaxFaults
    BY Constants DEF Init
  <2>a. died \in BOOLEAN
    BY DEF Init
  <2>2. DOMAIN source = {} /\ DOMAIN table = {}
    BY DEF Init
  <2>3. IsTable(table) /\ DOMAIN source \subseteq Ids
    BY <2>2 DEF IsTable
  <2>4. rows = {} /\ run = Idle /\ emitted \in Changesets
    BY DEF Init, Changesets
  <2> QED
    BY <2>1, <2>a, <2>2, <2>3, <2>4, IdleType DEF TypeOK
<1>2. IsFiniteSet(rows)
  BY FS_EmptySet DEF Init
<1>3. run.step = "idle" /\ run.todo = {}
  BY DEF Init, Idle
<1>4. \A r \in rows : Placed(r.window)
  BY DEF Init
<1> QED
  BY <1>1, <1>2, <1>3, <1>4 DEF TypeInv, Placements, AtWindow

LEMMA TypeStep ==
    ASSUME TypeInv, [Next]_vars
    PROVE  TypeInv'
<1>1. CASE UNCHANGED vars
  <2>1. /\ now' \in 0..MaxNow /\ now <= now' /\ DOMAIN source' \subseteq Ids
        /\ \A i \in DOMAIN source' : source'[i] \in Update
    BY <1>1, Constants DEF vars, TypeInv, TypeOK
  <2> QED
    BY <1>1, <2>1, TypeEnvironment DEF vars
<1> QED
  BY <1>1, TypeTick, TypeModify, TypeTrigger, TypeBackfill, TypeStartLoader,
     TypeStartWindow, TypeProcessBatch, TypeSaveProgress, TypeFinishWindow,
     TypeFinishLoader, TypePublishEvent, TypeMarkPublished, TypeBatchFails,
     TypeLoaderIsRetried, TypeExecutionFails
  DEF Next, Execute

\* The state keeps its types; above all, a range that the trigger asks for is one
\* of minutes, whatever gaps it has to go back for.
THEOREM HarvestTypeCorrect ==
    Spec => []TypeOK
<1>1. TypeInv /\ [Next]_vars => TypeInv'
  BY TypeStep
<1>2. TypeInv => TypeOK
  BY DEF TypeInv
<1> QED
  BY <1>1, <1>2, TypeInit, PTL DEF Spec

----------------------------------------------------------------------------
(***************************************************************************)
(* What is marked as harvested is stored.                                  *)
(***************************************************************************)
\* A live record's content is its date.
SourceIsDated ==
    \A id \in DOMAIN source :
        /\ source[id].lastModified <= now
        /\ source[id].deleted <=> source[id].content = NoContent
        /\ ~source[id].deleted => source[id].content = source[id].lastModified

\* A stored row is what the source said once, a deleted one with older content.
OfSource(id) ==
    /\ id \in DOMAIN source
    /\ table[id].lastModified <= source[id].lastModified
    /\ table[id].lastModified = source[id].lastModified =>
           table[id].deleted = source[id].deleted
    /\ \/ table[id].deleted /\ table[id].content = NoContent
       \/ /\ table[id].deleted /\ table[id].content \in Nat
          /\ table[id].content < table[id].lastModified
       \/ ~table[id].deleted /\ table[id].content = table[id].lastModified

TableIsOfSource == \A id \in DOMAIN table : OfSource(id)

StoredSince(ids, window) ==
    \A id \in ids \intersect DOMAIN source :
        source[id].lastModified \in Minutes({window}) => Agrees(id)

RowsAreStored == \A r \in rows : StoredSince(r.ids, r.window)

ProgressIsStored == AtWindow => StoredSince(run.progress.ids, run.progress.window)

SeenIsWritten == AtWindow /\ ~run.progress.failed => run.progress.seen = run.progress.ids

StoredInv ==
    /\ TypeInv
    /\ SourceIsDated
    /\ TableIsOfSource
    /\ RowsAreStored
    /\ ProgressIsStored
    /\ SeenIsWritten
    /\ SuccessWindowsAreStored

LEMMA MinutesOf ==
    ASSUME NEW w
    PROVE  Minutes({w}) = w.start..(w.end - 1)
BY DEF Minutes

\* Whatever changes now, changes after the windows.
LEMMA WindowsArePast ==
    ASSUME TypeInv, NEW w, Placed(w)
    PROVE  now \notin Minutes({w})
<1>1. now \in Int /\ Boundary(now) \in Int /\ Boundary(now) <= now
  BY BoundaryBelow, Constants DEF TypeInv, TypeOK
<1>2. w.start \in Int /\ w.end \in Int /\ w.end <= Boundary(now)
  BY DEF Placed, Window
<1> QED
  BY <1>1, <1>2, MinutesOf

\* Steps that leave source and table alone.
LEMMA StoredStays ==
    ASSUME StoredInv, UNCHANGED <<source, table>>, now' \in Int, now <= now'
    PROVE  /\ SourceIsDated' /\ TableIsOfSource'
           /\ \A id : Agrees(id)' <=> Agrees(id)
           /\ \A ids, w : StoredSince(ids, w)' <=> StoredSince(ids, w)
<1>1. \A id \in DOMAIN source : source[id].lastModified \in Int /\ now \in Int
  BY Constants DEF StoredInv, TypeInv, TypeOK, Update
<1>2. SourceIsDated'
  BY <1>1 DEF StoredInv, SourceIsDated
<1>3. TableIsOfSource'
  BY DEF StoredInv, TableIsOfSource, OfSource
<1>4. \A id : Agrees(id)' <=> Agrees(id)
  BY DEF Agrees
<1>5. \A ids, w : StoredSince(ids, w)' <=> StoredSince(ids, w)
  BY <1>4 DEF StoredSince
<1> QED
  BY <1>2, <1>3, <1>4, <1>5

\* ... and the rows.
LEMMA RowsStayStored ==
    ASSUME StoredInv, UNCHANGED <<source, table, rows>>, now' \in Int, now <= now'
    PROVE  /\ SourceIsDated' /\ TableIsOfSource'
           /\ RowsAreStored' /\ SuccessWindowsAreStored'
           /\ \A ids, w : StoredSince(ids, w)' <=> StoredSince(ids, w)
<1>1. /\ SourceIsDated' /\ TableIsOfSource'
      /\ \A id : Agrees(id)' <=> Agrees(id)
      /\ \A ids, w : StoredSince(ids, w)' <=> StoredSince(ids, w)
  BY StoredStays
<1>2. RowsAreStored'
  BY <1>1 DEF StoredInv, RowsAreStored
<1>3. SuccessRows' = SuccessRows
  BY DEF SuccessRows
<1>4. SuccessWindowsAreStored'
  BY <1>1, <1>3 DEF StoredInv, SuccessWindowsAreStored
<1> QED
  BY <1>1, <1>2, <1>4

LEMMA NowType ==
    ASSUME StoredInv
    PROVE  now \in Int /\ now >= 0
BY Constants DEF StoredInv, TypeInv, TypeOK

LEMMA StoredTick ==
    ASSUME StoredInv, TypeInv', UNCHANGED <<source, table, rows, run>>, now <= now'
    PROVE  StoredInv'
<1>1. now' \in Int
  BY Constants DEF TypeInv, TypeOK
<1>2. /\ SourceIsDated' /\ TableIsOfSource'
      /\ RowsAreStored' /\ SuccessWindowsAreStored'
      /\ \A ids, w : StoredSince(ids, w)' <=> StoredSince(ids, w)
  BY <1>1, RowsStayStored
<1>3. ProgressIsStored' /\ SeenIsWritten'
  BY <1>2 DEF StoredInv, ProgressIsStored, SeenIsWritten, AtWindow
<1> QED
  BY <1>2, <1>3 DEF StoredInv

\* Dates are numbers.
LEMMA DatesAreNumbers ==
    ASSUME StoredInv
    PROVE  /\ \A id \in DOMAIN table : table[id].lastModified \in Nat
           /\ \A id \in DOMAIN source : source[id].lastModified \in Nat
<1>1. /\ \A id \in DOMAIN table : table[id] \in AdapterRow
      /\ \A id \in DOMAIN source : source[id] \in Update
  BY DEF StoredInv, TypeInv, TypeOK, IsTable
<1> QED
  BY <1>1 DEF AdapterRow, Update

LEMMA StoredModify ==
    ASSUME StoredInv, Modify, TypeInv'
    PROVE  StoredInv'
<1>1. PICK id0 \in Ids, deleted \in BOOLEAN :
          /\ id0 \in DOMAIN source => source[id0].lastModified < now
          /\ source' = [i \in DOMAIN source \union {id0} |->
               IF i = id0 THEN [content |-> IF deleted THEN NoContent ELSE now,
                                deleted |-> deleted, lastModified |-> now]
                          ELSE source[i]]
          /\ UNCHANGED <<now, table, rows, run, emitted, died, faults>>
  BY DEF Modify
<1>2. /\ source'[id0] = [content |-> IF deleted THEN NoContent ELSE now,
                         deleted |-> deleted, lastModified |-> now]
      /\ DOMAIN source' = DOMAIN source \union {id0}
      /\ \A i \in DOMAIN source : i # id0 => source'[i] = source[i]
  BY <1>1
<1>3. now \in Nat /\ now \in 0..MaxNow /\ now # NoContent
  BY HarvestAssumption, NoContentAssumption, Constants DEF StoredInv, TypeInv, TypeOK
<1>4. SourceIsDated'
  <2>1. /\ source'[id0].lastModified = now /\ source'[id0].deleted = deleted
        /\ source'[id0].content = IF deleted THEN NoContent ELSE now
    BY <1>2
  <2>2. /\ source'[id0].lastModified <= now
        /\ source'[id0].deleted <=> source'[id0].content = NoContent
        /\ ~source'[id0].deleted => source'[id0].content = source'[id0].lastModified
    BY <1>3, <2>1
  <2> QED
    BY <1>1, <1>2, <2>2 DEF StoredInv, SourceIsDated
<1>5. TableIsOfSource'
  <2>1. ASSUME NEW id \in DOMAIN table, id # id0
        PROVE  id \in DOMAIN source' /\ source'[id] = source[id]
    BY <1>2, <2>1 DEF StoredInv, TableIsOfSource, OfSource
  <2>2. ASSUME id0 \in DOMAIN table
        PROVE  table[id0].lastModified < source'[id0].lastModified
    <3>1. /\ id0 \in DOMAIN source /\ source[id0].lastModified < now
          /\ table[id0].lastModified <= source[id0].lastModified
      BY <1>1, <2>2 DEF StoredInv, TableIsOfSource, OfSource
    <3>2. table[id0].lastModified \in Int /\ source[id0].lastModified \in Int
      BY <2>2, <3>1, DatesAreNumbers
    <3> QED
      BY <1>2, <1>3, <3>1, <3>2
  <2>3. ASSUME id0 \in DOMAIN table
        PROVE  /\ table[id0].lastModified \in Int
               /\ source'[id0].lastModified \in Int
    BY <1>2, <1>3, <2>3, DatesAreNumbers
  <2>4. ASSUME NEW id \in DOMAIN table
        PROVE  /\ id \in DOMAIN source'
               /\ table[id].lastModified <= source'[id].lastModified
               /\ table[id].lastModified = source'[id].lastModified =>
                      table[id].deleted = source'[id].deleted
    <3>1. CASE id = id0
      BY <1>2, <2>2, <2>3, <3>1
    <3>2. CASE id # id0
      BY <2>1, <3>2 DEF StoredInv, TableIsOfSource, OfSource
    <3> QED
      BY <3>1, <3>2
  <2>5. table' = table
    BY <1>1
  <2> QED
    BY <2>4, <2>5 DEF StoredInv, TableIsOfSource, OfSource
<1>6. ASSUME NEW w, Placed(w), NEW id \in DOMAIN source',
             source'[id].lastModified \in Minutes({w})
      PROVE  id \in DOMAIN source /\ source'[id] = source[id]
  <2>1. now \notin Minutes({w})
    BY <1>6, WindowsArePast DEF StoredInv
  <2> QED
    BY <1>2, <1>6, <2>1
<1>7. ASSUME NEW id \in DOMAIN source, source'[id] = source[id], Agrees(id)
      PROVE  Agrees(id)'
  BY <1>1, <1>7 DEF Agrees
<1>8. ASSUME NEW ids, NEW w, Placed(w), StoredSince(ids, w)
      PROVE  StoredSince(ids, w)'
  BY <1>6, <1>7, <1>8 DEF StoredSince
<1>9. RowsAreStored'
  BY <1>1, <1>8 DEF StoredInv, RowsAreStored, TypeInv, Placements
<1>10. ProgressIsStored' /\ SeenIsWritten'
  BY <1>1, <1>8 DEF StoredInv, ProgressIsStored, SeenIsWritten, TypeInv, Placements,
     AtWindow
<1>11. SuccessWindowsAreStored'
  <2>1. SuccessRows' = SuccessRows /\ \A r \in SuccessRows : Placed(r.window)
    BY <1>1 DEF SuccessRows, StoredInv, TypeInv, Placements
  <2> QED
    BY <1>6, <1>7, <2>1 DEF StoredInv, SuccessWindowsAreStored
<1> QED
  BY <1>4, <1>5, <1>9, <1>10, <1>11 DEF StoredInv

\* A record that is taken is stored as the source has it.
LEMMA TakenAgrees ==
    ASSUME StoredInv, source' = source, NEW id \in DOMAIN source,
           id \in DOMAIN table', Takes(table, table', id, source[id])
    PROVE  Agrees(id)' /\ OfSource(id)'
<1> DEFINE row == source[id]
           old == table[id]
           new == table'[id]
<1>1. /\ row \in Update
      /\ row.deleted \in BOOLEAN /\ row.lastModified \in Nat
      /\ row.deleted <=> row.content = NoContent
      /\ ~row.deleted => row.content = row.lastModified
  <2>1. source[id] \in Update
    BY DEF StoredInv, TypeInv, TypeOK
  <2>2. /\ source[id].deleted \in BOOLEAN /\ source[id].lastModified \in Nat
    BY <2>1 DEF Update
  <2> QED
    BY <2>1, <2>2 DEF StoredInv, SourceIsDated
<1>2. row.content = NoContent => row.content \notin Nat \/ row.deleted
  BY <1>1
<1>3. SUFFICES
        /\ new.deleted = row.deleted /\ new.lastModified <= row.lastModified
        /\ ~row.deleted => new.content = row.content
        /\ new.lastModified = row.lastModified => new.deleted = row.deleted
        /\ \/ new.deleted /\ new.content = NoContent
           \/ /\ new.deleted /\ new.content \in Nat /\ new.content < new.lastModified
           \/ ~new.deleted /\ new.content = new.lastModified
  BY DEF Agrees, OfSource
<1>4. CASE id \notin DOMAIN table
  <2>1. PICK c : new = TaggedRow(row, c)
    BY <1>4 DEF Takes
  <2>2. /\ new.content = row.content /\ new.deleted = row.deleted
        /\ new.lastModified = row.lastModified
    BY <2>1 DEF TaggedRow
  <2> HIDE DEF new, row
  <2> QED
    BY <1>1, <2>2
<1>5. CASE id \in DOMAIN table
  <2>1. /\ old.lastModified \in Nat /\ old.deleted \in BOOLEAN
        /\ old.lastModified <= row.lastModified
        /\ old.lastModified = row.lastModified => old.deleted = row.deleted
        /\ \/ old.deleted /\ old.content = NoContent
           \/ /\ old.deleted /\ old.content \in Nat /\ old.content < old.lastModified
           \/ ~old.deleted /\ old.content = old.lastModified
    <3>1. table[id] \in AdapterRow
      BY <1>5 DEF StoredInv, TypeInv, TypeOK, IsTable
    <3>2. table[id].lastModified \in Nat /\ table[id].deleted \in BOOLEAN
      BY <3>1 DEF AdapterRow
    <3>3. OfSource(id)
      BY <1>5 DEF StoredInv, TableIsOfSource
    <3> QED
      BY <3>2, <3>3 DEF OfSource
  <2>2. CASE row.content # old.content /\ row.lastModified > old.lastModified
    <3>1. PICK c : new = TaggedRow(PreserveContent(old, row), c)
      BY <1>5, <2>2 DEF Takes
    <3>2. /\ new.content = PreserveContent(old, row).content
          /\ new.deleted = PreserveContent(old, row).deleted
          /\ new.lastModified = PreserveContent(old, row).lastModified
      BY <3>1 DEF TaggedRow
    <3>3. row = [content |-> row.content, deleted |-> row.deleted,
                 lastModified |-> row.lastModified]
      BY <1>1 DEF Update
    <3> HIDE DEF new, row, old
    <3>4. /\ new.deleted = row.deleted /\ new.lastModified = row.lastModified
          /\ new.content = IF row.deleted /\ row.content = NoContent
                           THEN old.content ELSE row.content
      BY <3>2, <3>3 DEF PreserveContent
    <3>5. CASE row.deleted
      <4>1. new.content = old.content
        BY <1>1, <3>4, <3>5
      <4>2. CASE old.content = NoContent
        BY <1>1, <3>4, <3>5, <4>1, <4>2
      <4>3. CASE old.content \in Nat /\ old.content <= old.lastModified
        BY <1>1, <2>1, <2>2, <3>4, <3>5, <4>1, <4>3
      <4>4. old.content = NoContent \/ (old.content \in Nat /\ old.content <= old.lastModified)
        BY <2>1
      <4> QED
        BY <4>2, <4>3, <4>4
    <3>6. CASE ~row.deleted
      BY <1>1, <3>4, <3>6
    <3> QED
      BY <3>5, <3>6
  <2>3. CASE ~(row.content # old.content /\ row.lastModified > old.lastModified)
    <3>1. new = old
      BY <1>5, <2>3 DEF Takes
    <3>2. CASE row.lastModified = old.lastModified
      <4>1. old.deleted = row.deleted
        BY <2>1, <3>2
      <4>2. ~row.deleted => old.content = row.content
        BY <1>1, <2>1, <3>2, <4>1
      <4> HIDE DEF new, row, old
      <4> QED
        BY <2>1, <3>1, <3>2, <4>1, <4>2
    <3>3. CASE row.content = old.content /\ old.lastModified < row.lastModified
      <4>a. old.lastModified # NoContent
        <5>1. row.lastModified <= now /\ now \in 0..MaxNow
          BY DEF StoredInv, SourceIsDated, TypeInv, TypeOK
        <5>2. old.lastModified \in 0..MaxNow
          BY <1>1, <2>1, <3>3, <5>1, Constants
        <5> QED
          BY <5>2, HarvestAssumption, NoContentAssumption
      <4> HIDE DEF new, row, old
      <4>1. CASE row.deleted
        <5>1. old.content = NoContent /\ old.deleted
          BY <1>1, <2>1, <3>3, <4>a, <4>1
        <5> QED
          BY <1>1, <2>1, <3>1, <3>3, <4>1, <5>1
      <4>2. CASE ~row.deleted
        BY <1>1, <2>1, <3>1, <3>3, <4>2
      <4> QED
        BY <4>1, <4>2
    <3> HIDE DEF new, row, old
    <3>4. row.lastModified = old.lastModified
          \/ (row.content = old.content /\ old.lastModified < row.lastModified)
      BY <1>1, <2>1, <2>3
    <3> QED
      BY <3>2, <3>3, <3>4
  <2> QED
    BY <2>2, <2>3
<1> QED
  BY <1>4, <1>5

LEMMA StoredProcessBatch ==
    ASSUME StoredInv, ProcessBatch, TypeInv'
    PROVE  StoredInv'
<1>1. PICK batch \in Batches : \E progress : Processed(batch, progress)
  BY ProcessBatchIs DEF StoredInv
<1>2. PICK progress : Processed(batch, progress)
  BY <1>1
<1>3. AtWindow /\ UNCHANGED <<now, source, rows, emitted, died, faults>>
  BY DEF ProcessBatch, AtWindow
<1>4. /\ batch \subseteq DOMAIN source
      /\ DOMAIN SourceRows(batch) = batch
      /\ \A id \in batch : SourceRows(batch)[id] = source[id]
  BY BatchType DEF StoredInv
<1>5. /\ DOMAIN table' = DOMAIN table \union batch
      /\ \A id \in DOMAIN table \ batch : table'[id] = table[id]
      /\ \A id \in batch : Takes(table, table', id, source[id])
  <2>1. /\ IsTable(table) /\ DOMAIN SourceRows(batch) \subseteq Ids
        /\ \A id \in DOMAIN SourceRows(batch) : SourceRows(batch)[id] \in Update
    BY BatchType DEF StoredInv, TypeInv, TypeOK
  <2>2. /\ DOMAIN table' = DOMAIN table \union DOMAIN SourceRows(batch)
        /\ \A id \in DOMAIN table \ DOMAIN SourceRows(batch) : table'[id] = table[id]
        /\ \A id \in DOMAIN SourceRows(batch) :
               Takes(table, table', id, SourceRows(batch)[id])
    <3>1. table' = CommitChangeset(table, IncrementalChanges(table, SourceRows(batch)))
      BY <1>2 DEF Processed
    <3> QED
      BY <2>1, <3>1, IncrementalCommit
  <2> QED
    BY <1>4, <2>2
<1>6. \A id \in batch : Agrees(id)' /\ OfSource(id)'
  BY <1>3, <1>4, <1>5, TakenAgrees
<1>7. \A id : Agrees(id) => Agrees(id)'
  <2> SUFFICES ASSUME NEW id, Agrees(id) PROVE Agrees(id)'
    OBVIOUS
  <2>1. CASE id \in batch
    BY <1>6, <2>1
  <2>2. CASE id \notin batch
    BY <1>3, <1>5, <2>2 DEF Agrees
  <2> QED
    BY <2>1, <2>2
<1>8. TableIsOfSource'
  <2> SUFFICES ASSUME NEW id \in DOMAIN table' PROVE OfSource(id)'
    BY DEF TableIsOfSource
  <2>1. CASE id \in batch
    BY <1>6, <2>1
  <2>2. CASE id \notin batch
    BY <1>3, <1>5, <2>2 DEF OfSource, StoredInv, TableIsOfSource
  <2> QED
    BY <2>1, <2>2
<1>9. SourceIsDated'
  BY <1>3 DEF StoredInv, SourceIsDated
<1>10. \A ids, w : StoredSince(ids, w) => StoredSince(ids, w)'
  BY <1>3, <1>7 DEF StoredSince
<1>11. RowsAreStored'
  BY <1>3, <1>10 DEF StoredInv, RowsAreStored
<1>12. SuccessWindowsAreStored'
  <2>1. SuccessRows' = SuccessRows
    BY <1>3 DEF SuccessRows
  <2> QED
    BY <1>3, <1>7, <2>1 DEF StoredInv, SuccessWindowsAreStored
<1>13. ProgressIsStored' /\ SeenIsWritten'
  <2>1. /\ run'.progress = progress /\ progress.window = run.progress.window
        /\ progress.ids = run.progress.ids \union batch
        /\ progress.seen = run.progress.seen \union batch
        /\ progress.failed = run.progress.failed
    BY <1>2 DEF Processed
  <2>2. \A id \in run.progress.ids \intersect DOMAIN source :
            source[id].lastModified \in Minutes({run.progress.window}) => Agrees(id)'
    BY <1>3, <1>7 DEF StoredInv, ProgressIsStored, StoredSince
  <2>3. ProgressIsStored'
    BY <1>3, <1>6, <2>1, <2>2 DEF ProgressIsStored, StoredSince
  <2>4. SeenIsWritten'
    BY <1>3, <2>1 DEF StoredInv, SeenIsWritten
  <2> QED
    BY <2>3, <2>4
<1> QED
  BY <1>8, <1>9, <1>11, <1>12, <1>13 DEF StoredInv

\* Steps that leave the rows alone, and are not at a window afterwards.
LEMMA StoredBetweenWindows ==
    ASSUME StoredInv, TypeInv', UNCHANGED <<now, source, table, rows>>,
           ~AtWindow'
    PROVE  StoredInv'
<1>1. /\ SourceIsDated' /\ TableIsOfSource'
      /\ RowsAreStored' /\ SuccessWindowsAreStored'
  BY NowType, RowsStayStored
<1> QED
  BY <1>1 DEF StoredInv, ProgressIsStored, SeenIsWritten

LEMMA StoredStartWindow ==
    ASSUME StoredInv, StartWindow, TypeInv'
    PROVE  StoredInv'
<1>1. PICK window \in run.todo :
          run' = [run EXCEPT !.step = "window", !.todo = @ \ {window},
                             !.progress = Resumed(window)]
  BY DEF StartWindow
<1>2. UNCHANGED <<now, source, table, rows>>
  BY DEF StartWindow
<1>3. run'.progress = Resumed(window)
  BY <1>1 DEF StoredInv, TypeInv, TypeOK, Run
<1>4. /\ Resumed(window).window = window
      /\ Resumed(window).ids = UNION {r.ids : r \in RowsOf(window)}
      /\ Resumed(window).seen = Resumed(window).ids
  <2> DEFINE ids == UNION {r.ids : r \in RowsOf(window)}
             changesets == UNION {r.changesets : r \in RowsOf(window)}
  <2>1. Resumed(window) =
            [NoProgress EXCEPT !.window = window, !.ids = ids, !.seen = ids,
                               !.changesets = changesets]
    BY DEF Resumed
  <2> HIDE DEF ids, changesets
  <2>2. /\ Resumed(window).window = window /\ Resumed(window).ids = ids
        /\ Resumed(window).seen = ids
    BY <2>1 DEF NoProgress
  <2> QED
    BY <2>2 DEF ids
<1>5. /\ SourceIsDated' /\ TableIsOfSource'
      /\ RowsAreStored' /\ SuccessWindowsAreStored'
      /\ \A ids, w : StoredSince(ids, w)' <=> StoredSince(ids, w)
  BY <1>2, NowType, RowsStayStored
<1>6. StoredSince(Resumed(window).ids, window)
  <2>1. \A r \in RowsOf(window) : StoredSince(r.ids, window)
    BY DEF StoredInv, RowsAreStored, RowsOf
  <2> QED
    BY <1>4, <2>1 DEF StoredSince
<1>7. ProgressIsStored'
  <2>1. \A ids, w : StoredSince(ids, w) => StoredSince(ids, w)'
    BY <1>5
  <2>2. StoredSince(Resumed(window).ids, window)
            => /\ \A id \in Resumed(window).ids \intersect DOMAIN source :
                      source[id].lastModified \in Minutes({window}) => Agrees(id)
    BY DEF StoredSince
  <2>3. \A id : Agrees(id) => Agrees(id)'
    BY <1>2 DEF Agrees
  <2> QED
    BY <1>2, <1>3, <1>4, <1>6, <2>2, <2>3 DEF ProgressIsStored, StoredSince
<1>8. SeenIsWritten'
  BY <1>3, <1>4 DEF SeenIsWritten
<1> QED
  BY <1>5, <1>7, <1>8 DEF StoredInv

LEMMA StoredBatchFails ==
    ASSUME StoredInv, BatchFails, TypeInv'
    PROVE  StoredInv'
<1>1. PICK batch \in Batches : \E step, progress : Failed(batch, step, progress)
  BY BatchFailsIs DEF StoredInv
<1>2. PICK step, progress : Failed(batch, step, progress)
  BY <1>1
<1>3. AtWindow /\ UNCHANGED <<now, source, table, rows>>
  BY DEF BatchFails, AtWindow
<1>4. /\ run'.progress = progress /\ progress.window = run.progress.window
      /\ progress.ids = run.progress.ids /\ progress.failed
  BY <1>2 DEF Failed
<1>5. /\ SourceIsDated' /\ TableIsOfSource'
      /\ RowsAreStored' /\ SuccessWindowsAreStored'
      /\ \A ids, w : StoredSince(ids, w)' <=> StoredSince(ids, w)
  BY <1>3, NowType, RowsStayStored
<1>6. \A id : Agrees(id) => Agrees(id)'
  BY <1>3 DEF Agrees
<1>7. ProgressIsStored' /\ SeenIsWritten'
  BY <1>3, <1>4, <1>6 DEF StoredInv, ProgressIsStored, SeenIsWritten, StoredSince
<1> QED
  BY <1>5, <1>7 DEF StoredInv

\* The row of a window with what was written of it.
LEMMA StoredUpsert ==
    ASSUME StoredInv, UNCHANGED <<now, source, table>>, NEW row, Upsert(row),
           StoredSince(row.ids, row.window),
           row.state = "success" =>
               \A id \in DOMAIN source :
                   source[id].lastModified \in Minutes({row.window}) => Agrees(id)
    PROVE  /\ SourceIsDated' /\ TableIsOfSource'
           /\ RowsAreStored' /\ SuccessWindowsAreStored'
<1>1. /\ SourceIsDated' /\ TableIsOfSource'
      /\ \A id : Agrees(id)' <=> Agrees(id)
      /\ \A ids, w : StoredSince(ids, w)' <=> StoredSince(ids, w)
  BY NowType, StoredStays
<1>2. \A r \in rows' : r = row \/ r \in rows
  BY DEF Upsert
<1>3. RowsAreStored'
  BY <1>1, <1>2 DEF StoredInv, RowsAreStored
<1>4. SuccessWindowsAreStored'
  BY <1>1, <1>2 DEF StoredInv, SuccessWindowsAreStored, SuccessRows
<1> QED
  BY <1>1, <1>3, <1>4

LEMMA StoredSaveProgress ==
    ASSUME StoredInv, SaveProgress, TypeInv'
    PROVE  StoredInv'
<1>1. /\ AtWindow /\ UNCHANGED <<now, source, table, emitted, died>>
      /\ run' = [run EXCEPT !.step = "window"]
  BY DEF SaveProgress, AtWindow
<1>2. run'.progress = run.progress
  BY <1>1 DEF StoredInv, TypeInv, TypeOK, Run
<1>3. \A id : Agrees(id) => Agrees(id)'
  BY <1>1 DEF Agrees
<1>4. ProgressIsStored' /\ SeenIsWritten'
  BY <1>1, <1>2, <1>3 DEF StoredInv, ProgressIsStored, SeenIsWritten, StoredSince
<1>5. CASE rows' = rows
  <2>1. /\ SourceIsDated' /\ TableIsOfSource'
        /\ RowsAreStored' /\ SuccessWindowsAreStored'
    BY <1>1, <1>5, NowType, RowsStayStored
  <2> QED
    BY <1>4, <2>1 DEF StoredInv
<1>6. CASE Upsert(Summary(run.progress, "partial_success"))
  <2>1. PICK row : row = Summary(run.progress, "partial_success")
    OBVIOUS
  <2>2. /\ row.window = run.progress.window /\ row.ids = run.progress.ids
        /\ row.state = "partial_success" /\ Upsert(row)
    BY <1>6, <2>1, SummaryType DEF StoredInv, TypeInv, TypeOK, Run
  <2>3. StoredSince(row.ids, row.window)
    BY <1>1, <2>2 DEF StoredInv, ProgressIsStored
  <2>4. row.state # "success"
    BY <2>2
  <2>5. /\ SourceIsDated' /\ TableIsOfSource'
        /\ RowsAreStored' /\ SuccessWindowsAreStored'
    BY <1>1, <2>2, <2>3, <2>4, StoredUpsert
  <2> QED
    BY <1>4, <2>5 DEF StoredInv
<1> QED
  BY <1>5, <1>6 DEF SaveProgress

LEMMA StoredFinishWindow ==
    ASSUME StoredInv, FinishWindow, TypeInv'
    PROVE  StoredInv'
<1>1. PICK progress, state, row : Finished(progress, state, row)
  BY FinishWindowIs DEF StoredInv
<1>2. AtWindow /\ UNCHANGED <<now, source, table, emitted, died>>
  BY DEF FinishWindow, AtWindow
<1>3. /\ row.window = run.progress.window /\ row.ids = run.progress.ids
      /\ row.state = state /\ Upsert(row)
      /\ state = "success" => ~run.progress.failed /\ Remaining = {}
  BY <1>1, SummaryType DEF Finished
<1>4. StoredSince(row.ids, row.window)
  BY <1>2, <1>3 DEF StoredInv, ProgressIsStored
<1>5. ASSUME state = "success", NEW id \in DOMAIN source,
             source[id].lastModified \in Minutes({row.window})
      PROVE  Agrees(id)
  <2>1. id \in run.progress.seen
    BY <1>3, <1>5 DEF Remaining
  <2>2. id \in row.ids
    BY <1>2, <1>3, <1>5, <2>1 DEF StoredInv, SeenIsWritten
  <2> QED
    BY <1>4, <1>5, <2>2 DEF StoredSince
<1>6. /\ SourceIsDated' /\ TableIsOfSource'
      /\ RowsAreStored' /\ SuccessWindowsAreStored'
  BY <1>2, <1>3, <1>4, <1>5, StoredUpsert
<1>7. ~AtWindow'
  BY <1>1 DEF Finished, AtWindow
<1> QED
  BY <1>6, <1>7 DEF StoredInv, ProgressIsStored, SeenIsWritten

LEMMA StoredMarkPublished ==
    ASSUME StoredInv, MarkPublished, TypeInv'
    PROVE  StoredInv'
<1>1. /\ rows' = {StampedRow(r) : r \in rows} /\ run' = Idle
      /\ \A r \in rows : /\ StampedRow(r).window = r.window
                         /\ StampedRow(r).state = r.state
                         /\ StampedRow(r).ids = r.ids
      /\ UNCHANGED <<now, source, table>>
  BY MarkPublishedIs DEF MarkPublished, StoredInv
<1>2. /\ SourceIsDated' /\ TableIsOfSource'
      /\ \A id : Agrees(id)' <=> Agrees(id)
      /\ \A ids, w : StoredSince(ids, w)' <=> StoredSince(ids, w)
  BY <1>1, NowType, StoredStays
<1>3. RowsAreStored'
  BY <1>1, <1>2 DEF StoredInv, RowsAreStored
<1>4. SuccessWindowsAreStored'
  BY <1>1, <1>2 DEF StoredInv, SuccessWindowsAreStored, SuccessRows
<1>5. ~AtWindow'
  BY <1>1 DEF Idle, AtWindow
<1> QED
  BY <1>2, <1>3, <1>4, <1>5 DEF StoredInv, ProgressIsStored, SeenIsWritten

LEMMA StoredInit == Init => StoredInv
<1> SUFFICES ASSUME Init PROVE StoredInv
  OBVIOUS
<1>1. TypeInv
  BY TypeInit
<1>2. DOMAIN source = {} /\ DOMAIN table = {} /\ rows = {} /\ run.step = "idle"
  BY DEF Init, Idle
<1> QED
  BY <1>1, <1>2 DEF StoredInv, SourceIsDated, TableIsOfSource, RowsAreStored,
     ProgressIsStored, SeenIsWritten, SuccessWindowsAreStored, SuccessRows, AtWindow

LEMMA StoredStep ==
    ASSUME StoredInv, [Next]_vars
    PROVE  StoredInv'
<1>1. TypeInv'
  BY TypeStep DEF StoredInv
<1>2. CASE UNCHANGED vars
  BY <1>1, <1>2, NowType, StoredTick DEF vars
<1>3. CASE Tick
  BY <1>1, <1>3, NowType, StoredTick DEF Tick
<1>4. CASE \/ Trigger \/ Backfill \/ StartLoader \/ FinishLoader \/ PublishEvent
           \/ LoaderIsRetried \/ ExecutionFails
  <2>1. UNCHANGED <<now, source, table, rows>>
    BY <1>4 DEF Trigger, Backfill, StartLoader, FinishLoader, PublishEvent,
                LoaderIsRetried, ExecutionFails
  <2>2. ASSUME Trigger \/ Backfill \/ LoaderIsRetried \/ ExecutionFails
        PROVE  run'.step \notin {"window", "batched"}
    <3>1. CASE Trigger
      <4>1. PICK range : run' = [Idle EXCEPT !.step = "load", !.scheduled = TRUE,
                                             !.range = range]
        BY <3>1 DEF Trigger
      <4> QED
        BY <4>1 DEF Idle
    <3>2. CASE Backfill
      <4>1. PICK range : run' = [Idle EXCEPT !.step = "load", !.range = range]
        BY <3>2 DEF Backfill
      <4> QED
        BY <4>1 DEF Idle
    <3>3. CASE LoaderIsRetried
      BY <3>3 DEF LoaderIsRetried, Idle
    <3>4. CASE ExecutionFails
      BY <3>4 DEF ExecutionFails, Idle
    <3> QED
      BY <2>2, <3>1, <3>2, <3>3, <3>4
  <2>3. ASSUME StartLoader \/ FinishLoader \/ PublishEvent
        PROVE  run'.step \notin {"window", "batched"}
    <3>1. run \in Run
      BY DEF StoredInv, TypeInv, TypeOK
    <3>2. CASE StartLoader
      BY <3>1, <3>2 DEF StartLoader, Run
    <3>3. CASE FinishLoader \/ PublishEvent
      BY <3>1, <3>3 DEF FinishLoader, PublishEvent, Run
    <3> QED
      BY <2>3, <3>2, <3>3
  <2>4. ~AtWindow'
    BY <1>4, <2>2, <2>3 DEF AtWindow
  <2> QED
    BY <1>1, <2>1, <2>4, StoredBetweenWindows
<1> QED
  BY <1>1, <1>2, <1>3, <1>4, StoredModify, StoredStartWindow, StoredProcessBatch,
     StoredSaveProgress, StoredFinishWindow, StoredMarkPublished, StoredBatchFails
  DEF Next, Execute

\* Whatever faults there are, at whatever step an execution dies, and however the
\* source goes on changing: a record that is dated in a window that is marked as
\* harvested is stored as the source has it.
THEOREM HarvestedIsStored ==
    Spec => []SuccessWindowsAreStored
<1>1. StoredInv /\ [Next]_vars => StoredInv'
  BY StoredStep
<1>2. StoredInv => SuccessWindowsAreStored
  BY DEF StoredInv
<1> QED
  BY <1>1, <1>2, StoredInit, PTL DEF Spec
=============================================================================
