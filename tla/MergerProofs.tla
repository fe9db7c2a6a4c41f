---------------------------- MODULE MergerProofs ----------------------------
(***************************************************************************)
(* Proofs about the merger.  First, about what a merge of any group makes: *)
(* every work comes out once, an image has one parent, and nothing is      *)
(* merged with what it has nothing to do with, for all the groups that     *)
(* MCMergeRules grows.  Then, for any works, contents, batches and faults: *)
(* that the indexes hold the merge of the current groups when nothing is   *)
(* left to do, that nothing lost is visible in them, and that images are   *)
(* announced.                                                              *)
(***************************************************************************)
EXTENDS Merger, MCMergeRules, WorkGraphProofs, SequenceTheorems, FiniteSetTheorems,
        TLAPS

(***************************************************************************)
(* The target of a group.                                                  *)
(***************************************************************************)

\* A group as it is fetched: no two of its works are the same or in one place.
IsGroup(W) ==
    /\ IsFiniteSet(W)
    /\ \A w \in W : w.place \in Nat
    /\ \A v, w \in W : v.place = w.place \/ v.id = w.id => v = w

\* The least of a few numbers is one of them.
LEMMA LeastOfFew ==
    ASSUME NEW S \in SUBSET (1..7), S # {}
    PROVE  /\ Min(S) \in S
           /\ \A x \in S : (\A y \in S : x <= y) => x = Min(S)
<1>1. \E x \in S : \A y \in S : x <= y
  <2>1. CASE 1 \in S
    BY <2>1
  <2>2. CASE 1 \notin S /\ 2 \in S
    BY <2>2
  <2>3. CASE 1 \notin S /\ 2 \notin S /\ 3 \in S
    BY <2>3
  <2>4. CASE 1 \notin S /\ 2 \notin S /\ 3 \notin S /\ 4 \in S
    BY <2>4
  <2>5. CASE 1 \notin S /\ 2 \notin S /\ 3 \notin S /\ 4 \notin S /\ 5 \in S
    BY <2>5
  <2>6. CASE /\ 1 \notin S /\ 2 \notin S /\ 3 \notin S /\ 4 \notin S /\ 5 \notin S
             /\ 6 \in S
    BY <2>6
  <2>7. CASE /\ 1 \notin S /\ 2 \notin S /\ 3 \notin S /\ 4 \notin S /\ 5 \notin S
             /\ 6 \notin S
    <3>1. \A x : x \in S => x = 7
      BY <2>7
    <3> QED
      BY <3>1
  <2> QED
    BY <2>1, <2>2, <2>3, <2>4, <2>5, <2>6, <2>7
<1>2. Min(S) \in S /\ \A y \in S : Min(S) <= y
  BY <1>1 DEF Min
<1>3. \A x, y \in S : x <= y /\ y <= x => x = y
  OBVIOUS
<1> QED
  BY <1>2, <1>3

\* Every work has a precedence.
LEMMA PrecedenceType ==
    ASSUME NEW w
    PROVE  Precedence(w) \in 1..7
<1> DEFINE S == {k \in 1..7 : \/ k = 1 /\ w.source = "ebsco"
                              \/ k = 2 /\ TeiTarget(w)
                              \/ k = 3 /\ ArchiveStub(w)
                              \/ k = 4 /\ DigitisedAv(w)
                              \/ k = 5 /\ PhysicalLms(w)
                              \/ k = 6 /\ Lms(w)
                              \/ k = 7}
<1>1. S \in SUBSET (1..7) /\ S # {}
  OBVIOUS
<1>2. Precedence(w) = Min(S)
  BY DEF Precedence
<1> HIDE DEF S
<1> QED
  BY <1>1, <1>2, LeastOfFew

\* There is at most one target.
LEMMA TargetIsOne ==
    ASSUME NEW W, IsGroup(W), NEW S \in SUBSET W
    PROVE  /\ FindTarget(S) \subseteq S
           /\ \A t \in FindTarget(S) : Visible(t) /\ FindTarget(S) = {t}
           /\ \A t \in FindTarget(S) : \A w \in S : ComesFirst(t, w)
<1>1. ASSUME NEW t \in FindTarget(S), NEW u \in FindTarget(S) PROVE t = u
  <2>1. t \in W /\ u \in W /\ ComesFirst(t, u) /\ ComesFirst(u, t)
    BY DEF FindTarget
  <2>2. Precedence(t) \in Int /\ Precedence(u) \in Int
    BY PrecedenceType
  <2>3. t.place \in Int /\ u.place \in Int
    BY <2>1 DEF IsGroup
  <2>4. t.place = u.place
    BY <2>1, <2>2, <2>3 DEF ComesFirst
  <2> QED
    BY <2>1, <2>4 DEF IsGroup
<1> QED
  BY <1>1 DEF FindTarget

\* A part of a group is one.
LEMMA PartOfGroup ==
    ASSUME NEW W, IsGroup(W), NEW g \in SUBSET W
    PROVE  IsGroup(g)
BY FS_Subset DEF IsGroup

----------------------------------------------------------------------------
(***************************************************************************)
(* What becomes of the works of a group that is merged as one.             *)
(***************************************************************************)
\* Only sources are redirected, and all that give the target an image are.
LEMMA RedirectsAreSources ==
    ASSUME NEW t, NEW S
    PROVE  /\ RedirectSources(t, S) \subseteq S
           /\ ImageSources(t, S) \subseteq RedirectSources(t, S)
<1>1. /\ MetsItems(S) \subseteq S /\ MiroItems(S) \subseteq S /\ LmsWorks(S) \subseteq S
      /\ DigitalOrLms(S) \subseteq S
  BY DEF MetsItems, MiroItems, LmsWorks, DigitalOrLms
<1>3. LinkedDigitised(t, S) \subseteq S
  BY DEF LinkedDigitised
<1>4. TakenSingleMiro(t, S) \subseteq S /\ KnownDuplicates(t, S) \subseteq S
  BY <1>1 DEF TakenSingleMiro, KnownDuplicates, Taken
<1>5. ItemSources(t, S) \subseteq S
  <2>1. ASSUME NEW k \in 1..4 PROVE ItemRules(t, S)[k].takes \subseteq S
    <3>1. CASE k = 1
      BY <1>1, <3>1 DEF ItemRules, Taken
    <3>2. CASE k = 2
      BY <1>1, <3>2 DEF ItemRules, Taken
    <3>3. CASE k = 3
      BY <1>1, <3>3 DEF ItemRules, Taken
    <3>4. CASE k = 4
      BY <1>4, <3>4 DEF ItemRules
    <3> QED
      BY <3>1, <3>2, <3>3, <3>4
  <2> QED
    BY <1>3, <1>4, <2>1 DEF ItemSources
<1>6. ThumbnailSources(t, S) \subseteq S
  BY <1>1 DEF ThumbnailSources, Taken
<1>7. IdentifierSources(t, S) \subseteq S
  <2>1. LmsWorks(S) \union MiroItems(S) \union {s \in S : ArchiveStub(s)} \subseteq S
    BY <1>1
  <2> QED
    BY <1>1, <1>3, <1>4, <2>1 DEF IdentifierSources, Taken
<1>8. ImageSources(t, S) \subseteq S
  BY <1>1 DEF ImageSources, Taken
<1> QED
  BY <1>5, <1>6, <1>7, <1>8 DEF RedirectSources

\* What a merge makes of works of its own: one document of each, those of the
\* parts of the target, and images of its works, each under one parent.
IsOutcome(o, W) ==
    /\ \A w \in W : \E d \in o.works : d.id = w.id /\ d.parent = w.id
    /\ \A d \in o.works : \E w \in W :
           d.parent = w.id /\ (d.id = w.id \/ (Visible(w) /\ d.id \in w.stubs))
    /\ \A d, e \in o.works : d.id = e.id /\ d.parent = e.parent => d = e
    /\ \A i \in o.images : /\ i.image \in Ids(W)
                           /\ i = [image |-> i.image, parent |-> i.parent]
                           /\ \E d \in o.works : d.id = i.image /\ d.target = i.parent
    /\ \A i, j \in o.images : i.image = j.image => i = j

\* No work is a part of another, or of itself.
WorksAreNoParts(W) ==
    \A v, w \in W : v.id \notin w.stubs /\ v.id \notin w.removed

\* The fields of a document.
LEMMA DocOf ==
    ASSUME NEW id, NEW status, NEW items, NEW target, NEW redirects, NEW parent,
           NEW d, d = Doc(id, status, items, target, redirects, parent)
    PROVE  /\ d.id = id /\ d.status = status /\ d.items = items
           /\ d.target = target /\ d.redirects = redirects /\ d.parent = parent
BY DEF Doc

\* A work that is merged alone makes an outcome.
LEMMA AloneIsOutcome ==
    ASSUME NEW t, Visible(t), WorksAreNoParts({t})
    PROVE  IsOutcome(MergeAlone(t), {t})
<1> DEFINE items == UnmergedItems(t)
           own == Doc(t.id, "visible", items, t.id, {}, t.id)
           Inner1(id) == Doc(id, "visible", items, id, {}, t.id)
           o == MergeAlone(t)
<1>1. /\ o.works = {Inner1(id) : id \in t.stubs} \union {own}
      /\ o.images = {[image |-> w.id, parent |-> w.id] : w \in MiroItems({t})}
  BY DEF MergeAlone, InnerWorks
<1>2. /\ own.id = t.id /\ own.target = t.id /\ own.parent = t.id
      /\ \A id : /\ Inner1(id).id = id /\ Inner1(id).parent = t.id
  BY DocOf
<1>3. MiroItems({t}) \subseteq {t}
  BY DEF MiroItems
<1>4. t.id \notin t.stubs
  BY DEF WorksAreNoParts
<1> HIDE DEF own, Inner1, o, items
<1>5. \A i \in o.images : i = [image |-> t.id, parent |-> t.id]
  BY <1>1, <1>3
<1>6. \A d \in o.works :
          \/ d = own /\ d.id = t.id /\ d.parent = t.id
          \/ d.id \in t.stubs /\ d = Inner1(d.id) /\ d.parent = t.id
  BY <1>1, <1>2
<1>7. own \in o.works
  BY <1>1
<1>8. \A i \in o.images : /\ i.image \in Ids({t})
                          /\ i = [image |-> i.image, parent |-> i.parent]
                          /\ \E d \in o.works : d.id = i.image /\ d.target = i.parent
  BY <1>2, <1>5, <1>7 DEF Ids
<1>9. \A d, e \in o.works : d.id = e.id => d = e
  BY <1>4, <1>6
<1>10. IsOutcome(o, {t})
  BY <1>2, <1>5, <1>6, <1>7, <1>8, <1>9 DEF IsOutcome
<1> QED
  BY <1>10 DEF o

\* So does a group that is passed through.
LEMMA PassThroughIsOutcome ==
    ASSUME NEW W, IsGroup(W)
    PROVE  IsOutcome(PassThrough(W), W)
<1>1. \A w : AsItIs(w).id = w.id /\ AsItIs(w).parent = w.id
  BY DocOf DEF AsItIs
<1>2. /\ PassThrough(W).works = {AsItIs(w) : w \in W}
      /\ PassThrough(W).images = {}
  BY DEF PassThrough
<1>3. \A v, w \in W : v.id = w.id => v = w
  BY DEF IsGroup
<1> QED
  BY <1>1, <1>2, <1>3 DEF IsOutcome

\* So does a group that is merged into its target.
LEMMA MergeIntoIsOutcome ==
    ASSUME NEW W, IsGroup(W), WorksAreNoParts(W), NEW t \in W, Visible(t),
           NEW S, S = {w \in W \ {t} : ~Deleted(w)},
           NEW D, D = {w \in W : Deleted(w)}
    PROVE  IsOutcome(MergeInto(t, S, D), W)
<1> DEFINE R == RedirectSources(t, S)
           items == MergedItems(t, S)
           own == Doc(t.id, "visible", items, t.id, Ids(R), t.id)
           Inner1(id) == Doc(id, "visible", items, id, {}, t.id)
           o == MergeInto(t, S, D)
           IS == ImageSources(t, S)
<1>1. /\ o.works = {Redirected(w, t) : w \in R}
                       \union {AsItIs(w) : w \in (S \ R) \union D}
                       \union {Inner1(id) : id \in t.stubs} \union {own}
      /\ o.images = {[image |-> s.id, parent |-> t.id] : s \in IS}
  BY DEF MergeInto, InnerWorks
<1>2. /\ own.id = t.id /\ own.target = t.id /\ own.parent = t.id
      /\ \A id : /\ Inner1(id).id = id /\ Inner1(id).parent = t.id
      /\ \A w : AsItIs(w).id = w.id /\ AsItIs(w).parent = w.id
      /\ \A w : /\ Redirected(w, t).id = w.id /\ Redirected(w, t).parent = w.id
                /\ Redirected(w, t).target = t.id
  BY DocOf DEF AsItIs, Redirected
<1>3. R \subseteq S /\ IS \subseteq R
  BY RedirectsAreSources
<1>4. /\ W = {t} \union R \union ((S \ R) \union D)
      /\ t \notin R /\ t \notin (S \ R) \union D
      /\ R \intersect ((S \ R) \union D) = {}
  <2>1. t \notin D
    BY DEF Visible, Deleted
  <2> QED
    BY <1>3, <2>1
<1>5. \A v, w \in W : v.id = w.id => v = w
  BY DEF IsGroup
<1>6. \A v, w \in W : v.id \notin w.stubs
  BY DEF WorksAreNoParts
<1> DEFINE A == (S \ R) \union D
<1> HIDE DEF own, Inner1, o, items, R, IS, A
<1>7. /\ o.works = {Redirected(w, t) : w \in R} \union {AsItIs(w) : w \in A}
                       \union {Inner1(id) : id \in t.stubs} \union {own}
      /\ W = {t} \union R \union A /\ t \notin R /\ t \notin A /\ R \intersect A = {}
  BY <1>1, <1>4 DEF A
<1>8. \A w \in W : \E d \in o.works : d.id = w.id /\ d.parent = w.id
  BY <1>2, <1>7
<1>9. ASSUME NEW d \in o.works
      PROVE  \/ \E w \in R : d = Redirected(w, t) /\ d.id = w.id /\ d.parent = w.id
             \/ \E w \in A : d = AsItIs(w) /\ d.id = w.id /\ d.parent = w.id
             \/ d.id \in t.stubs /\ d = Inner1(d.id) /\ d.parent = t.id
             \/ d = own /\ d.id = t.id /\ d.parent = t.id
  <2>1. CASE d \in {Redirected(w, t) : w \in R}
    <3>1. PICK w \in R : d = Redirected(w, t)
      BY <2>1
    <3> QED
      BY <1>2, <3>1
  <2>2. CASE d \in {AsItIs(w) : w \in A}
    <3>1. PICK w \in A : d = AsItIs(w)
      BY <2>2
    <3> QED
      BY <1>2, <3>1
  <2>3. CASE d \in {Inner1(id) : id \in t.stubs}
    <3>1. PICK id \in t.stubs : d = Inner1(id)
      BY <2>3
    <3>2. d.id = id /\ d.parent = t.id
      BY <1>2, <3>1
    <3> QED
      BY <3>1, <3>2
  <2>4. CASE d = own
    BY <1>2, <2>4
  <2> QED
    BY <1>7, <2>1, <2>2, <2>3, <2>4
<1>10. \A d \in o.works : \E w \in W :
           d.parent = w.id /\ (d.id = w.id \/ (Visible(w) /\ d.id \in w.stubs))
  BY <1>7, <1>9
<1>11. ASSUME NEW d \in o.works, NEW e \in o.works, d.id = e.id PROVE d = e
  <2>1. CASE d.id \in t.stubs
    <3>1. d = Inner1(d.id) /\ e = Inner1(d.id)
      BY <1>6, <1>7, <1>9, <1>11, <2>1
    <3> QED
      BY <3>1
  <2>2. CASE d.id \notin t.stubs
    BY <1>5, <1>7, <1>9, <1>11, <2>2
  <2> QED
    BY <2>1, <2>2
<1>12. ASSUME NEW i \in o.images
       PROVE  /\ i.image \in Ids(W)
              /\ i = [image |-> i.image, parent |-> i.parent] /\ i.parent = t.id
              /\ \E d \in o.works : d.id = i.image /\ d.target = i.parent
  <2>1. PICK s \in IS : i = [image |-> s.id, parent |-> t.id]
    BY <1>1
  <2>2. s \in R /\ s \in W
    BY <1>3, <1>7
  <2>3. Redirected(s, t) \in o.works
    BY <1>7, <2>2
  <2> QED
    BY <1>2, <2>1, <2>2, <2>3 DEF Ids
<1>13. \A i, j \in o.images : i.image = j.image => i = j
  BY <1>12
<1>14. IsOutcome(o, W)
  BY <1>8, <1>10, <1>11, <1>12, <1>13 DEF IsOutcome
<1> QED
  BY <1>14 DEF o

\* So does every group.
LEMMA GroupHasOutcome ==
    ASSUME NEW W, IsGroup(W), WorksAreNoParts(W)
    PROVE  IsOutcome(MergeWorks(W), W)
<1> DEFINE target == FindTarget(W)
           First(S) == CHOOSE w \in S : TRUE
<1>1. CASE Cardinality(W) = 1 /\ Visible(First(W))
  <2>1. PICK w : W = {w}
    BY <1>1, FS_Singleton DEF IsGroup
  <2>2. MergeWorks(W) = MergeAlone(First(W))
    BY <1>1 DEF MergeWorks
  <2>3. First(W) = w
    BY <2>1
  <2> QED
    BY <1>1, <2>1, <2>2, <2>3, AloneIsOutcome
<1>2. CASE ~(Cardinality(W) = 1 /\ Visible(First(W))) /\ target = {}
  <2>1. MergeWorks(W) = PassThrough(W)
    BY <1>2 DEF MergeWorks
  <2> QED
    BY <2>1, PassThroughIsOutcome
<1>3. CASE ~(Cardinality(W) = 1 /\ Visible(First(W))) /\ target # {}
  <2>1. PICK t \in target : target = {t} /\ t \in W /\ Visible(t)
    BY <1>3, TargetIsOne
  <2>2. First(target) = t
    BY <2>1
  <2>3. MergeWorks(W) = MergeInto(First(target), {w \in W \ target : ~Deleted(w)},
                                  {w \in W : Deleted(w)})
    BY <1>3 DEF MergeWorks
  <2> HIDE DEF target, First
  <2>4. MergeWorks(W) = MergeInto(t, {w \in W \ {t} : ~Deleted(w)}, {w \in W : Deleted(w)})
    BY <2>1, <2>2, <2>3
  <2> QED
    BY <2>1, <2>4, MergeIntoIsOutcome
<1> QED
  BY <1>1, <1>2, <1>3

----------------------------------------------------------------------------
(***************************************************************************)
(* How a group is split.                                                   *)
(***************************************************************************)
IsPartition(P, W) ==
    /\ UNION P = W
    /\ \A A, B \in P : A \intersect B # {} => A = B

\* Two components that meet are one: what they share is apart as well.
LEMMA ComponentsAreDisjoint ==
    ASSUME NEW W, NEW C \in Components(W), NEW D \in Components(W),
           C \intersect D # {}
    PROVE  C = D
<1> DEFINE both == C \intersect D
<1>1. /\ C \in SUBSET W /\ Apart(C, W)
      /\ \A E \in SUBSET C : Apart(E, W) => E \in {{}, C}
      /\ D \in SUBSET W /\ Apart(D, W)
      /\ \A E \in SUBSET D : Apart(E, W) => E \in {{}, D}
  BY DEF Components
<1>2. Apart(both, W)
  BY <1>1 DEF Apart
<1>3. both \in SUBSET C /\ both \in SUBSET D
  OBVIOUS
<1> HIDE DEF both
<1>4. both \in {{}, C} /\ both \in {{}, D}
  BY <1>1, <1>2, <1>3
<1> QED
  BY <1>4 DEF both

\* Every work is in a component: the works that are in every part that is apart
\* and has the work.
LEMMA ComponentsHaveAll ==
    ASSUME NEW W, NEW w \in W
    PROVE  \E C \in Components(W) : w \in C
<1> DEFINE Has(E) == E \in SUBSET W /\ w \in E /\ Apart(E, W)
           C == {v \in W : \A E \in SUBSET W : Has(E) => v \in E}
<1>1. w \in C /\ C \in SUBSET W
  OBVIOUS
<1>2. Apart(C, W)
  <2> SUFFICES ASSUME NEW v \in C, NEW u \in W \ C
               PROVE  ~Linked(v, u) /\ ~Linked(u, v)
    BY DEF Apart
  <2>1. PICK E \in SUBSET W : Has(E) /\ u \notin E
    OBVIOUS
  <2>2. v \in E
    BY <2>1
  <2> QED
    BY <2>1, <2>2 DEF Apart
<1>3. ASSUME NEW E \in SUBSET C, Apart(E, W) PROVE E \in {{}, C}
  <2>1. E \in SUBSET W
    OBVIOUS
  <2>2. CASE w \in E
    <3>1. Has(E)
      BY <1>3, <2>1, <2>2
    <3>2. \A v \in C : v \in E
      BY <2>1, <3>1
    <3> QED
      BY <3>2
  <2>3. CASE w \notin E
    <3>1. Apart(C \ E, W)
      BY <1>2, <1>3 DEF Apart
    <3>2. Has(C \ E)
      BY <1>1, <2>3, <3>1
    <3>3. C \ E \in SUBSET W
      BY <1>1
    <3>4. \A v \in C : v \in C \ E
      BY <3>2, <3>3
    <3> QED
      BY <3>4
  <2> QED
    BY <2>2, <2>3
<1> HIDE DEF C
<1>4. C \in Components(W)
  BY <1>1, <1>2, <1>3 DEF Components
<1> QED
  BY <1>1, <1>4

\* Groups that are disjoint, and what is left.
LEMMA WithRestIsPartition ==
    ASSUME NEW W, NEW groups \in SUBSET SUBSET W,
           \A A, B \in groups : A \intersect B # {} => A = B
    PROVE  /\ IsPartition(groups \union {W \ UNION groups}, W)
           /\ IsPartition((groups \union {W \ UNION groups}) \ {{}}, W)
<1> DEFINE rest == W \ UNION groups
           P == groups \union {rest}
<1>1. /\ \A A \in groups : A \intersect rest = {} /\ A \subseteq W
      /\ rest \subseteq W
  OBVIOUS
<1>2. \A w \in W : w \in rest \/ \E A \in groups : w \in A
  OBVIOUS
<1> HIDE DEF rest
<1>3. \A A, B \in P : A \intersect B # {} => A = B
  BY <1>1
<1>4. \A w : w \in UNION P <=> w \in W
  BY <1>1, <1>2
<1>5. \A w : w \in UNION (P \ {{}}) <=> w \in W
  BY <1>1, <1>2
<1>6. IsPartition(P, W) /\ IsPartition(P \ {{}}, W)
  BY <1>3, <1>4, <1>5 DEF IsPartition
<1> QED
  BY <1>6 DEF rest

\* A group that is not cut is a partition of itself.
LEMMA WholeIsPartition ==
    ASSUME NEW W
    PROVE  IsPartition({W}, W)
BY DEF IsPartition

\* The names of PartitionSharedMiro.
Miros(W) == {w \in W : Miro(w)}
LinksToMiro(c, m) == \E w \in c : Linked(w, m)
Bridged(W) ==
    {c \in Components(W \ Miros(W)) : \E m \in Miros(W) : LinksToMiro(c, m)}
Carved(W) == {c \in Bridged(W) : FindTarget(W) \intersect c = {}}
MiroOwners(W, m) ==
    LET linking == {c \in Bridged(W) : LinksToMiro(c, m)}
    IN  {c \in linking : FindTarget(UNION linking) \intersect c # {}}
CarvedGroup(W, c) == c \union {m \in Miros(W) : c \in MiroOwners(W, m)}
CarvedGroups(W) == {CarvedGroup(W, c) : c \in Carved(W)}

\* The cut at shared Miro images, in these words.
LEMMA SharedMiroIs ==
    ASSUME NEW W
    PROVE  PartitionSharedMiro(W) =
               IF FindTarget(W) = {} \/ Cardinality(Bridged(W)) <= 1 THEN {W}
               ELSE CarvedGroups(W) \union {W \ UNION CarvedGroups(W)}
BY DEF PartitionSharedMiro, Miros, LinksToMiro, Bridged, Carved, MiroOwners,
       CarvedGroup, CarvedGroups

\* No two carved groups meet: a Miro work goes with the target of its own.
LEMMA CarvedGroupsAreDisjoint ==
    ASSUME NEW W, IsGroup(W)
    PROVE  /\ CarvedGroups(W) \in SUBSET SUBSET W
           /\ \A A, B \in CarvedGroups(W) : A \intersect B # {} => A = B
<1>1. \A c \in Bridged(W) : c \in Components(W \ Miros(W)) /\ c \subseteq W \ Miros(W)
  BY DEF Bridged, Components
<1>2. ASSUME NEW m, NEW c, NEW d, c \in MiroOwners(W, m), d \in MiroOwners(W, m)
      PROVE  c = d
  <2> DEFINE linking == {b \in Bridged(W) : LinksToMiro(b, m)}
  <2>1. /\ c \in Bridged(W) /\ FindTarget(UNION linking) \intersect c # {}
        /\ d \in Bridged(W) /\ FindTarget(UNION linking) \intersect d # {}
    BY <1>2 DEF MiroOwners
  <2>2. UNION linking \in SUBSET W
    BY <1>1
  <2> HIDE DEF linking
  <2>3. \A t, u \in FindTarget(UNION linking) : t = u
    BY <2>2, TargetIsOne
  <2>4. c \intersect d # {}
    BY <2>1, <2>3
  <2> QED
    BY <1>1, <2>1, <2>4, ComponentsAreDisjoint
<1>3. ASSUME NEW c \in Carved(W), NEW d \in Carved(W),
             CarvedGroup(W, c) \intersect CarvedGroup(W, d) # {}
      PROVE  c = d
  <2>1. c \in Bridged(W) /\ d \in Bridged(W)
    BY DEF Carved
  <2>2. PICK w : w \in CarvedGroup(W, c) /\ w \in CarvedGroup(W, d)
    BY <1>3
  <2>3. CASE w \in Miros(W)
    <3>1. c \in MiroOwners(W, w) /\ d \in MiroOwners(W, w)
      BY <1>1, <2>1, <2>2, <2>3 DEF CarvedGroup
    <3> QED
      BY <1>2, <3>1
  <2>4. CASE w \notin Miros(W)
    <3>1. w \in c /\ w \in d
      BY <2>2, <2>4 DEF CarvedGroup
    <3> QED
      BY <1>1, <2>1, <3>1, ComponentsAreDisjoint
  <2> QED
    BY <2>3, <2>4
<1>4. \A c \in Carved(W) : CarvedGroup(W, c) \in SUBSET W
  BY <1>1 DEF Carved, CarvedGroup, Miros
<1> QED
  BY <1>3, <1>4 DEF CarvedGroups

\* The cut at shared Miro images is a partition of the group.
LEMMA SharedMiroIsPartition ==
    ASSUME NEW W, IsGroup(W)
    PROVE  IsPartition(PartitionSharedMiro(W), W)
BY SharedMiroIs, CarvedGroupsAreDisjoint, WithRestIsPartition, WholeIsPartition

\* The names of PartitionAudiovisual.
Ebibs(W) == {w \in W : DigitisedAv(w)}
LinkedEbibs(W, o) == {e \in Ebibs(W) : Linked(o, e) \/ Linked(e, o)}
Attached(W, e) == {o \in W \ LmsWorks(W) : LinkedEbibs(W, o) = {e}}
EbibGroups(W) ==
    {{e} \union Attached(W, e) : e \in {d \in Ebibs(W) : Attached(W, d) # {}}}

\* The cut at audiovisual e-bibs, in these words.
LEMMA AudiovisualIs ==
    ASSUME NEW W
    PROVE  PartitionAudiovisual(W) =
               IF Cardinality(W) < 2 \/ \A t \in FindTarget(W) : ~Lms(t) THEN {W}
               ELSE (EbibGroups(W) \union {W \ UNION EbibGroups(W)}) \ {{}}
BY DEF PartitionAudiovisual, Ebibs, LinkedEbibs, Attached, EbibGroups

\* The cut at audiovisual e-bibs is a partition of the group.
LEMMA AudiovisualIsPartition ==
    ASSUME NEW W
    PROVE  IsPartition(PartitionAudiovisual(W), W)
<1>1. \A e \in Ebibs(W) : e \in LmsWorks(W) /\ e \in W
  BY DEF Ebibs, DigitisedAv, LmsWorks
<1>2. EbibGroups(W) \in SUBSET SUBSET W
  BY <1>1 DEF EbibGroups, Attached
<1>3. ASSUME NEW d \in Ebibs(W), NEW e \in Ebibs(W),
             ({d} \union Attached(W, d)) \intersect ({e} \union Attached(W, e)) # {}
      PROVE  d = e
  <2>1. PICK w : w \in {d} \union Attached(W, d) /\ w \in {e} \union Attached(W, e)
    BY <1>3
  <2>2. CASE w \in LmsWorks(W)
    BY <2>1, <2>2 DEF Attached
  <2>3. CASE w \notin LmsWorks(W)
    <3>1. LinkedEbibs(W, w) = {d} /\ LinkedEbibs(W, w) = {e}
      BY <1>1, <2>1, <2>3 DEF Attached
    <3> QED
      BY <3>1
  <2> QED
    BY <2>2, <2>3
<1>4. \A A, B \in EbibGroups(W) : A \intersect B # {} => A = B
  BY <1>3 DEF EbibGroups
<1> QED
  BY <1>2, <1>4, AudiovisualIs, WithRestIsPartition, WholeIsPartition

\* The groups that are merged apart.
GroupsOf(W) == UNION {PartitionAudiovisual(g) : g \in PartitionSharedMiro(W)}

\* What is merged as one partitions the group.
LEMMA GroupsArePartition ==
    ASSUME NEW W, IsGroup(W)
    PROVE  /\ IsPartition(GroupsOf(W), W)
           /\ \A g \in GroupsOf(W) : g \in SUBSET W /\ IsGroup(g)
<1> DEFINE P == PartitionSharedMiro(W)
<1>1. IsPartition(P, W)
  BY SharedMiroIsPartition
<1>2. \A g \in P : IsPartition(PartitionAudiovisual(g), g)
  BY AudiovisualIsPartition
<1> HIDE DEF P
<1>3. \A A : A \in GroupsOf(W) <=> \E g \in P : A \in PartitionAudiovisual(g)
  BY DEF GroupsOf, P
<1>4. UNION GroupsOf(W) = W
  <2>1. \A w : w \in UNION GroupsOf(W) => w \in W
    BY <1>1, <1>2, <1>3 DEF IsPartition
  <2>2. \A w : w \in W => w \in UNION GroupsOf(W)
    BY <1>1, <1>2, <1>3 DEF IsPartition
  <2> QED
    BY <2>1, <2>2
<1>5. ASSUME NEW A \in GroupsOf(W), NEW B \in GroupsOf(W), A \intersect B # {}
      PROVE  A = B
  <2>1. PICK g \in P : A \in PartitionAudiovisual(g)
    BY <1>3
  <2>2. PICK h \in P : B \in PartitionAudiovisual(h)
    BY <1>3
  <2>3. A \subseteq g /\ B \subseteq h
    BY <1>2, <2>1, <2>2 DEF IsPartition
  <2>4. g = h
    BY <1>1, <1>5, <2>3 DEF IsPartition
  <2> QED
    BY <1>2, <1>5, <2>1, <2>2, <2>4 DEF IsPartition
<1>6. \A g \in GroupsOf(W) : g \in SUBSET W /\ IsGroup(g)
  BY <1>4, PartOfGroup
<1> QED
  BY <1>4, <1>5, <1>6 DEF IsPartition

\* A merge is an outcome, with the lost parts of its works that it has not made.
LEMMA MergeIsOutcome ==
    ASSUME NEW W, IsGroup(W), WorksAreNoParts(W)
    PROVE  \E o : /\ IsOutcome(o, W)
                  /\ Merge(W).works =
                         o.works \union DeletedInternalWorks(W, Ids(o.works))
                  /\ Merge(W).images = o.images
<1> DEFINE outcomes == {MergeWorks(g) : g \in GroupsOf(W)}
           emitted == UNION {o.works : o \in outcomes}
           images == UNION {o.images : o \in outcomes}
           all == [works |-> emitted, images |-> images]
<1>1. Merge(W) = [works  |-> emitted \union DeletedInternalWorks(W, Ids(emitted)),
                  images |-> images]
  BY DEF Merge, GroupsOf
<1>2. /\ IsPartition(GroupsOf(W), W)
      /\ \A g \in GroupsOf(W) : g \in SUBSET W /\ IsGroup(g)
  BY GroupsArePartition
<1>3. ASSUME NEW g \in GroupsOf(W) PROVE IsOutcome(MergeWorks(g), g)
  <2>1. IsGroup(g) /\ WorksAreNoParts(g)
    BY <1>2 DEF WorksAreNoParts
  <2> QED
    BY <2>1, GroupHasOutcome
<1>4. ASSUME NEW d
      PROVE  d \in emitted <=> \E g \in GroupsOf(W) : d \in MergeWorks(g).works
  OBVIOUS
<1>5. ASSUME NEW i
      PROVE  i \in images <=> \E g \in GroupsOf(W) : i \in MergeWorks(g).images
  OBVIOUS
<1>6. all.works = emitted /\ all.images = images
  OBVIOUS
<1> HIDE DEF outcomes, emitted, images, all
<1>7. \A v, w \in W : v.id = w.id => v = w
  BY DEF IsGroup
<1>8. \A g, h \in GroupsOf(W) : \A w : w \in g /\ w \in h => g = h
  BY <1>2 DEF IsPartition
<1>9. ASSUME NEW w \in W PROVE \E d \in emitted : d.id = w.id /\ d.parent = w.id
  <2>1. PICK g \in GroupsOf(W) : w \in g
    BY <1>2 DEF IsPartition
  <2>2. PICK d \in MergeWorks(g).works : d.id = w.id /\ d.parent = w.id
    BY <1>3, <2>1 DEF IsOutcome
  <2> QED
    BY <1>4, <2>2
<1>10. ASSUME NEW g \in GroupsOf(W), NEW d \in MergeWorks(g).works
       PROVE  \E w \in g : /\ w \in W /\ d.parent = w.id
                           /\ d.id = w.id \/ (Visible(w) /\ d.id \in w.stubs)
  BY <1>2, <1>3 DEF IsOutcome
<1>11. ASSUME NEW d \in emitted
       PROVE  \E w \in W : /\ d.parent = w.id
                           /\ d.id = w.id \/ (Visible(w) /\ d.id \in w.stubs)
  <2>1. PICK g \in GroupsOf(W) : d \in MergeWorks(g).works
    BY <1>4
  <2> QED
    BY <1>10, <2>1
<1>12. ASSUME NEW d \in emitted, NEW e \in emitted, d.id = e.id, d.parent = e.parent
       PROVE  d = e
  <2>1. PICK g \in GroupsOf(W) : d \in MergeWorks(g).works
    BY <1>4
  <2>2. PICK h \in GroupsOf(W) : e \in MergeWorks(h).works
    BY <1>4
  <2>3. PICK v \in g : v \in W /\ d.parent = v.id
    BY <1>10, <2>1
  <2>4. PICK w \in h : w \in W /\ e.parent = w.id
    BY <1>10, <2>2
  <2>5. g = h
    BY <1>7, <1>8, <1>12, <2>3, <2>4
  <2> QED
    BY <1>3, <1>12, <2>1, <2>2, <2>5 DEF IsOutcome
<1>13. ASSUME NEW g \in GroupsOf(W), NEW i \in MergeWorks(g).images
       PROVE  /\ \E w \in g : w \in W /\ i.image = w.id
              /\ i = [image |-> i.image, parent |-> i.parent]
              /\ \E d \in emitted : d.id = i.image /\ d.target = i.parent
  <2>1. /\ i.image \in Ids(g)
        /\ i = [image |-> i.image, parent |-> i.parent]
        /\ \E d \in MergeWorks(g).works : d.id = i.image /\ d.target = i.parent
    BY <1>3 DEF IsOutcome
  <2> QED
    BY <1>2, <1>4, <2>1 DEF Ids
<1>14. ASSUME NEW i \in images
       PROVE  /\ i.image \in Ids(W)
              /\ i = [image |-> i.image, parent |-> i.parent]
              /\ \E d \in emitted : d.id = i.image /\ d.target = i.parent
  <2>1. PICK g \in GroupsOf(W) : i \in MergeWorks(g).images
    BY <1>5
  <2> QED
    BY <1>13, <2>1 DEF Ids
<1>15. ASSUME NEW i \in images, NEW j \in images, i.image = j.image PROVE i = j
  <2>1. PICK g \in GroupsOf(W) : i \in MergeWorks(g).images
    BY <1>5
  <2>2. PICK h \in GroupsOf(W) : j \in MergeWorks(h).images
    BY <1>5
  <2>3. g = h
    BY <1>7, <1>8, <1>13, <1>15, <2>1, <2>2
  <2> QED
    BY <1>3, <1>15, <2>1, <2>2, <2>3 DEF IsOutcome
<1>16. IsOutcome(all, W)
  BY <1>6, <1>9, <1>11, <1>12, <1>14, <1>15 DEF IsOutcome
<1> QED
  BY <1>1, <1>6, <1>16

\* The lost parts that a merge deletes.
LEMMA DeletedIs ==
    ASSUME NEW W, NEW emitted, NEW d
    PROVE  d \in DeletedInternalWorks(W, emitted) <=>
               \E w \in W : \E id \in LostParts(w) :
                   id \notin emitted /\ d = DeletedChild(id, w)
BY DEF DeletedInternalWorks

\* The fields of a deleted part.
LEMMA DeletedChildIs ==
    ASSUME NEW id, NEW w
    PROVE  /\ DeletedChild(id, w).id = id /\ DeletedChild(id, w).parent = w.id
           /\ DeletedChild(id, w).status = "deleted"
BY DocOf DEF DeletedChild

----------------------------------------------------------------------------
(***************************************************************************)
(* Which works are redirected to which.                                    *)
(***************************************************************************)

\* Works of the identified index are not redirected.
NoneIsRedirected(W) == \A w \in W : w.status # "redirected"

\* A group that is merged as one redirects to its target only.
LEMMA RedirectsGoToTarget ==
    ASSUME NEW W, IsGroup(W), NoneIsRedirected(W),
           NEW d \in MergeWorks(W).works, d.status = "redirected"
    PROVE  \E v, t \in W : FindTarget(W) = {t} /\ d = Redirected(v, t)
<1> DEFINE target == FindTarget(W)
           First(S) == CHOOSE w \in S : TRUE
<1>1. /\ \A id, items, t : Doc(id, "visible", items, id, {}, t).status = "visible"
      /\ \A id, items, R : Doc(id, "visible", items, id, R, id).status = "visible"
      /\ \A w : AsItIs(w).status = w.status
  BY DocOf DEF AsItIs
<1>2. CASE Cardinality(W) = 1 /\ Visible(First(W))
  <2>1. MergeWorks(W) = MergeAlone(First(W))
    BY <1>2 DEF MergeWorks
  <2>2. d.status = "visible"
    BY <1>1, <2>1 DEF MergeAlone, InnerWorks
  <2> QED
    BY <2>2
<1>3. CASE ~(Cardinality(W) = 1 /\ Visible(First(W))) /\ target = {}
  <2>1. MergeWorks(W) = PassThrough(W)
    BY <1>3 DEF MergeWorks
  <2>2. PICK w \in W : d = AsItIs(w)
    BY <2>1 DEF PassThrough
  <2> QED
    BY <1>1, <2>2 DEF NoneIsRedirected
<1>4. CASE ~(Cardinality(W) = 1 /\ Visible(First(W))) /\ target # {}
  <2> DEFINE S == {w \in W \ target : ~Deleted(w)}
             D == {w \in W : Deleted(w)}
             R(t) == RedirectSources(t, S)
  <2>1. PICK t \in target : target = {t} /\ t \in W
    BY <1>4, TargetIsOne
  <2>2. First(target) = t
    BY <2>1
  <2>3. MergeWorks(W) = MergeInto(First(target), S, D)
    BY <1>4 DEF MergeWorks
  <2>4. R(t) \subseteq S /\ S \subseteq W /\ D \subseteq W
    BY RedirectsAreSources
  <2> HIDE DEF First, S, D
  <2>5. MergeWorks(W).works =
            {Redirected(w, t) : w \in R(t)} \union {AsItIs(w) : w \in (S \ R(t)) \union D}
            \union InnerWorks(t, MergedItems(t, S))
            \union {Doc(t.id, "visible", MergedItems(t, S), t.id, Ids(R(t)), t.id)}
    BY <2>2, <2>3 DEF MergeInto
  <2> HIDE DEF R, target
  <2>6. d \notin {AsItIs(w) : w \in (S \ R(t)) \union D}
    BY <1>1, <2>4 DEF NoneIsRedirected
  <2>7. d \notin InnerWorks(t, MergedItems(t, S))
    BY <1>1 DEF InnerWorks
  <2>8. d # Doc(t.id, "visible", MergedItems(t, S), t.id, Ids(R(t)), t.id)
    BY <1>1
  <2>9. PICK v \in R(t) : d = Redirected(v, t)
    BY <2>5, <2>6, <2>7, <2>8
  <2> QED
    BY <2>1, <2>4, <2>9 DEF target
<1> QED
  BY <1>2, <1>3, <1>4

\* A merge redirects within what is merged as one.
LEMMA RedirectsOfMerge ==
    ASSUME NEW W, IsGroup(W), NoneIsRedirected(W),
           NEW d \in Merge(W).works, d.status = "redirected"
    PROVE  /\ d.items = {}
           /\ \E g \in GroupsOf(W) : \E v, t \in g :
                  FindTarget(g) = {t} /\ d.id = v.id /\ d.target = t.id
<1> DEFINE emitted == UNION {o.works : o \in {MergeWorks(g) : g \in GroupsOf(W)}}
<1>1. Merge(W).works = emitted \union DeletedInternalWorks(W, Ids(emitted))
  BY DEF Merge, GroupsOf
<1>2. d \in emitted => \E g \in GroupsOf(W) : d \in MergeWorks(g).works
  OBVIOUS
<1> HIDE DEF emitted
<1>3. d \notin DeletedInternalWorks(W, Ids(emitted))
  BY DeletedIs, DeletedChildIs
<1>4. PICK g \in GroupsOf(W) : d \in MergeWorks(g).works
  BY <1>1, <1>2, <1>3
<1>5. IsGroup(g) /\ NoneIsRedirected(g)
  BY GroupsArePartition DEF NoneIsRedirected
<1>6. PICK v \in g, t \in g : FindTarget(g) = {t} /\ d = Redirected(v, t)
  BY <1>4, <1>5, RedirectsGoToTarget
<1>7. d.id = v.id /\ d.target = t.id /\ d.items = {}
  BY <1>6, DocOf DEF Redirected
<1> QED
  BY <1>6, <1>7

\* A target is an EBSCO, TEI, archive or lms work.
LEMMA TargetIsOfAKind ==
    ASSUME NEW S, NEW t \in FindTarget(S)
    PROVE  t.source = "ebsco" \/ TeiTarget(t) \/ ArchiveStub(t) \/ Lms(t)
<1> SUFFICES ASSUME ~(t.source = "ebsco" \/ TeiTarget(t) \/ ArchiveStub(t) \/ Lms(t))
             PROVE  FALSE
  OBVIOUS
<1>1. Precedence(t) < 7
  BY DEF FindTarget
<1>2. {k \in 1..7 : \/ k = 1 /\ t.source = "ebsco"
                    \/ k = 2 /\ TeiTarget(t)
                    \/ k = 3 /\ ArchiveStub(t)
                    \/ k = 4 /\ DigitisedAv(t)
                    \/ k = 5 /\ PhysicalLms(t)
                    \/ k = 6 /\ Lms(t)
                    \/ k = 7} = {7}
  BY DEF DigitisedAv, PhysicalLms
<1>3. Precedence(t) = Min({7})
  BY <1>2 DEF Precedence
<1>4. Min({7}) = 7
  BY DEF Min
<1> QED
  BY <1>1, <1>3, <1>4

\* A Miro work is never the target.
LEMMA MirosAreNoTargets ==
    ASSUME NEW S, NEW t \in FindTarget(S)
    PROVE  ~Miro(t)
BY TargetIsOfAKind DEF TeiTarget, ArchiveStub, Lms, Miro

\* What the matcher groups is linked, and Miro works link to nothing.
IsConnected(W) ==
    /\ \A D \in SUBSET W : Apart(D, W) => D \in {{}, W}
    /\ \A m \in Miros(W) : \A w \in W : ~Linked(m, w)

\* A component of the others that is not the whole links to a Miro work.
LEMMA ComponentsAreBridged ==
    ASSUME NEW W, IsConnected(W), NEW C \in Components(W \ Miros(W)), C # W
    PROVE  C \in Bridged(W)
<1>1. C \in SUBSET W /\ C # {} /\ Apart(C, W \ Miros(W)) /\ C \in SUBSET (W \ Miros(W))
  BY DEF Components
<1>2. ~Apart(C, W)
  BY <1>1 DEF IsConnected
<1>3. PICK v \in C, w \in W \ C : Linked(v, w) \/ Linked(w, v)
  BY <1>2 DEF Apart
<1>4. w \in Miros(W)
  BY <1>1, <1>3 DEF Apart
<1>5. Linked(v, w)
  BY <1>1, <1>3, <1>4 DEF IsConnected
<1> QED
  BY <1>4, <1>5 DEF Bridged, LinksToMiro

\* Two works are two.
LEMMA PairHasTwo ==
    ASSUME NEW a, NEW b, a # b
    PROVE  IsFiniteSet({a, b}) /\ Cardinality({a, b}) = 2
<1>1. IsFiniteSet({a}) /\ Cardinality({a}) = 1
  BY FS_Singleton
<1>2. b \notin {a} /\ {a, b} = {a} \union {b}
  OBVIOUS
<1> QED
  BY <1>1, <1>2, FS_AddElement

\* Works that are merged are in one component without the Miro works.
LEMMA MergedAreConnected ==
    ASSUME NEW W, IsGroup(W), IsConnected(W), NEW g \in GroupsOf(W),
           NEW v \in g, ~Miro(v), NEW t \in FindTarget(g)
    PROVE  \E C \in Components(W \ Miros(W)) : v \in C /\ t \in C
<1>1. g \in SUBSET W /\ IsGroup(g) /\ t \in g /\ ~Miro(t)
  BY GroupsArePartition, MirosAreNoTargets DEF FindTarget
<1>2. v \in W \ Miros(W) /\ t \in W \ Miros(W)
  BY <1>1 DEF Miros
<1>3. PICK C \in Components(W \ Miros(W)) : v \in C
  BY <1>2, ComponentsHaveAll
<1>4. PICK D \in Components(W \ Miros(W)) : t \in D
  BY <1>2, ComponentsHaveAll
<1>5. PICK h \in PartitionSharedMiro(W) : g \in PartitionAudiovisual(h)
  BY DEF GroupsOf
<1>6. g \subseteq h
  BY <1>5, AudiovisualIsPartition DEF IsPartition
<1>7. SUFFICES ASSUME C # D, C # W, D # W PROVE FALSE
  <2>1. C \subseteq W /\ D \subseteq W
    BY DEF Components
  <2> QED
    BY <1>1, <1>2, <1>3, <1>4, <1>7, <2>1
<1>8. C \in Bridged(W) /\ D \in Bridged(W)
  BY <1>7, ComponentsAreBridged
<1>9. FindTarget(W) # {}
  <2> SUFFICES ASSUME FindTarget(W) = {} PROVE FALSE
    OBVIOUS
  <2>1. PartitionSharedMiro(W) = {W}
    BY SharedMiroIs
  <2>2. PartitionAudiovisual(W) = {W}
    BY AudiovisualIs
  <2>3. g = W
    BY <1>5, <2>1, <2>2
  <2> QED
    BY <2>3
<1>10. ~(Cardinality(Bridged(W)) <= 1)
  <2>1. IsFiniteSet(Bridged(W))
    <3>1. IsFiniteSet(SUBSET W)
      BY FS_SUBSET DEF IsGroup
    <3>2. Bridged(W) \subseteq SUBSET W
      BY DEF Bridged, Components
    <3> QED
      BY <3>1, <3>2, FS_Subset
  <2>2. Cardinality({C, D}) = 2 /\ IsFiniteSet({C, D})
    BY <1>7, PairHasTwo
  <2>3. Cardinality({C, D}) <= Cardinality(Bridged(W))
    BY <1>8, <2>1, FS_Subset
  <2>4. Cardinality(Bridged(W)) \in Nat
    BY <2>1, FS_CardinalityType
  <2> QED
    BY <2>2, <2>3, <2>4
<1>11. PartitionSharedMiro(W) = CarvedGroups(W) \union {W \ UNION CarvedGroups(W)}
  BY <1>9, <1>10, SharedMiroIs
<1>12. CASE h \in CarvedGroups(W)
  <2>1. PICK c \in Carved(W) : h = CarvedGroup(W, c)
    BY <1>12 DEF CarvedGroups
  <2>2. v \in c /\ t \in c
    BY <1>1, <1>2, <1>6, <2>1 DEF CarvedGroup
  <2>3. c \in Components(W \ Miros(W))
    BY DEF Carved, Bridged
  <2>4. c = C /\ c = D
    BY <1>3, <1>4, <2>2, <2>3, ComponentsAreDisjoint
  <2> QED
    BY <1>7, <2>4
<1>13. CASE h = W \ UNION CarvedGroups(W)
  <2>1. ASSUME NEW c \in Bridged(W), NEW w \in c, w \in h
        PROVE  FindTarget(W) \intersect c # {}
    <3> SUFFICES ASSUME c \in Carved(W) PROVE FALSE
      BY DEF Carved
    <3>1. w \in CarvedGroup(W, c)
      BY DEF CarvedGroup
    <3> QED
      BY <1>13, <2>1, <3>1 DEF CarvedGroups
  <2>2. FindTarget(W) \intersect C # {} /\ FindTarget(W) \intersect D # {}
    BY <1>1, <1>3, <1>4, <1>6, <1>8, <2>1
  <2>3. \A a, b \in FindTarget(W) : a = b
    BY TargetIsOne
  <2>4. C \intersect D # {}
    BY <2>2, <2>3
  <2> QED
    BY <1>7, <2>4, ComponentsAreDisjoint
<1> QED
  BY <1>5, <1>11, <1>12, <1>13

\* A work with one linked audiovisual e-bib is merged into no other lms work.
LEMMA EbibsKeepWorks ==
    ASSUME NEW W, IsGroup(W), NEW g \in GroupsOf(W),
           NEW v \in g, ~Miro(v), ~Lms(v), NEW t \in FindTarget(g), Lms(t),
           NEW e, LinkedEbibs(W, v) = {e}
    PROVE  t = e
<1>1. g \in SUBSET W /\ IsGroup(g) /\ t \in g
  BY GroupsArePartition DEF FindTarget
<1>2. /\ e \in W /\ DigitisedAv(e) /\ Lms(e) /\ ~Miro(e)
      /\ Linked(v, e) \/ Linked(e, v)
  BY DEF LinkedEbibs, Ebibs, DigitisedAv, Lms, Miro
<1>3. PICK h \in PartitionSharedMiro(W) : g \in PartitionAudiovisual(h)
  BY DEF GroupsOf
<1>4. /\ g \subseteq h /\ h \subseteq W
      /\ \A A, B \in PartitionAudiovisual(h) : A \intersect B # {} => A = B
  BY <1>3, AudiovisualIsPartition, SharedMiroIsPartition DEF IsPartition
<1>5. v \in W \ Miros(W) /\ e \in W \ Miros(W)
  BY <1>1, <1>2 DEF Miros
<1>6. ASSUME NEW c \in Carved(W)
      PROVE  v \in CarvedGroup(W, c) <=> e \in CarvedGroup(W, c)
  <2>1. c \in SUBSET (W \ Miros(W)) /\ Apart(c, W \ Miros(W))
    BY DEF Carved, Bridged, Components
  <2>2. v \in c <=> e \in c
    BY <1>2, <1>5, <2>1 DEF Apart
  <2> QED
    BY <1>5, <2>2 DEF CarvedGroup
<1>7. e \in h
  <2>1. CASE PartitionSharedMiro(W) = {W}
    BY <1>2, <1>3, <2>1
  <2>2. CASE h \in CarvedGroups(W)
    BY <1>4, <1>6, <2>2 DEF CarvedGroups
  <2>3. CASE h = W \ UNION CarvedGroups(W)
    <3>1. ~\E c \in Carved(W) : v \in CarvedGroup(W, c)
      BY <1>4, <2>3 DEF CarvedGroups
    <3>2. ~\E c \in Carved(W) : e \in CarvedGroup(W, c)
      BY <1>6, <3>1
    <3> QED
      BY <1>2, <2>3, <3>2 DEF CarvedGroups
  <2> QED
    BY <1>3, <2>1, <2>2, <2>3, SharedMiroIs
<1>8. CASE Cardinality(h) < 2 \/ \A u \in FindTarget(h) : ~Lms(u)
  <2>1. g = h
    BY <1>3, <1>8, AudiovisualIs
  <2>2. v # t
    OBVIOUS
  <2>3. Cardinality({v, t}) = 2
    BY <2>2, PairHasTwo
  <2>4. Cardinality({v, t}) <= Cardinality(h) /\ Cardinality(h) \in Nat
    BY <1>1, <2>1, FS_Subset, FS_CardinalityType DEF IsGroup
  <2> QED
    BY <1>8, <2>1, <2>3, <2>4
<1>9. CASE ~(Cardinality(h) < 2 \/ \A u \in FindTarget(h) : ~Lms(u))
  <2>1. PartitionAudiovisual(h) = (EbibGroups(h) \union {h \ UNION EbibGroups(h)}) \ {{}}
    BY <1>9, AudiovisualIs
  <2>2. LinkedEbibs(h, v) = {e} /\ e \in Ebibs(h)
    BY <1>2, <1>4, <1>7 DEF LinkedEbibs, Ebibs
  <2>3. v \in Attached(h, e)
    BY <1>4, <2>2 DEF Attached, LmsWorks
  <2> DEFINE own == {e} \union Attached(h, e)
  <2>4. own \in PartitionAudiovisual(h)
    BY <2>1, <2>2, <2>3 DEF EbibGroups
  <2>5. g = own
    BY <1>3, <1>4, <2>3, <2>4
  <2>6. t \notin Attached(h, e)
    BY DEF Attached, LmsWorks
  <2> QED
    BY <1>1, <2>5, <2>6
<1> QED
  BY <1>8, <1>9

----------------------------------------------------------------------------
(***************************************************************************)
(* The groups that MCMergeRules grows, of any families: the works have the *)
(* ids 1, 2, 3 ..., and no set of them is apart from the others.           *)
(***************************************************************************)
Kinds == {"physical", "online", "iiif"}
Formats ==
    {"books", "pictures", "audiovisual", "archives", "none"}
AnyItem ==
    [identified : BOOLEAN,
     locations : SUBSET [kind : Kinds, from : Int, nth : Nat]]
AnyCandidate == [id : Int, pair : BOOLEAN]
AnyWork ==
    [id : Nat, place : Nat, source : Sources, status : Statuses, items : SUBSET AnyItem,
     format : Formats, digmiro : BOOLEAN, candidates : Seq(AnyCandidate),
     stubs : SUBSET Int, removed : SUBSET Int]

\* The work w is the k-th of its group.
IsAt(w, k) ==
    /\ w.id = k /\ w.place = k
    /\ w.stubs \subseteq {-k} /\ w.removed \subseteq {1 - k, -1 - k}
    /\ Miro(w) => w.candidates = <<>>

\* No set of places is apart.
IsLinked(ws) ==
    \A D \in SUBSET DOMAIN ws :
        (\A i \in D, j \in DOMAIN ws \ D : ~Linked(ws[i], ws[j]) /\ ~Linked(ws[j], ws[i]))
            => D \in {{}, DOMAIN ws}

RulesInv ==
    /\ family \in Families
    /\ works \in Seq(AnyWork)
    /\ \A k \in DOMAIN works : IsAt(works[k], k)
    /\ IsLinked(works)
    /\ merged = Merge(ToSet(works))

\* A work of a shape is a work, at its place, that names nothing yet.
LEMMA ShapedIs ==
    ASSUME NEW shape \in Shapes, NEW k \in Nat \ {0}
    PROVE  /\ Shaped(shape, k) \in AnyWork
           /\ IsAt(Shaped(shape, k), k)
           /\ Shaped(shape, k).candidates = <<>>
<1> DEFINE Fine(w) == w \in AnyWork /\ IsAt(w, k) /\ w.candidates = <<>>
<1>1. \A n \in Nat, kind \in Kinds, identified \in BOOLEAN :
          Located(k, n, kind, identified) \in AnyItem
  BY DEF Located, AnyItem
<1>2. /\ Physical(k, 1) \in AnyItem /\ Physical(k, 2) \in AnyItem
  BY <1>1 DEF Physical, Kinds
<1>3. Digital(k, "online") \in AnyItem /\ Digital(k, "iiif") \in AnyItem
  BY <1>1 DEF Digital, Kinds
<1>4. Located(k, 1, "physical", FALSE) \in AnyItem
  BY <1>1 DEF Kinds
<1>5. <<>> \in Seq(AnyCandidate)
  OBVIOUS
<1>6. \A source \in Sources, status \in Statuses, items \in SUBSET AnyItem,
         format \in Formats : Fine(Work(k, source, status, items, format))
  BY <1>5 DEF Work, AnyWork, IsAt
<1>7. /\ \A w : Fine(w) => Fine([w EXCEPT !.digmiro = TRUE])
      /\ \A w : Fine(w) => Fine([w EXCEPT !.stubs = {Inner(k)}])
      /\ \A w : Fine(w) => Fine([w EXCEPT !.removed = {Inner(k - 1), Inner(k + 1)}])
  <2> SUFFICES ASSUME NEW w, Fine(w)
               PROVE  /\ Fine([w EXCEPT !.digmiro = TRUE])
                      /\ Fine([w EXCEPT !.stubs = {Inner(k)}])
                      /\ Fine([w EXCEPT !.removed = {Inner(k - 1), Inner(k + 1)}])
    OBVIOUS
  <2>1. /\ Inner(k) = -k /\ Inner(k - 1) = 1 - k /\ Inner(k + 1) = -1 - k
        /\ -k \in Int /\ 1 - k \in Int /\ -1 - k \in Int
    BY DEF Inner
  <2>2. Fine([w EXCEPT !.digmiro = TRUE])
    BY DEF AnyWork, IsAt, Miro
  <2>3. Fine([w EXCEPT !.stubs = {Inner(k)}])
    BY <2>1 DEF AnyWork, IsAt, Miro
  <2>4. Fine([w EXCEPT !.removed = {Inner(k - 1), Inner(k + 1)}])
    BY <2>1 DEF AnyWork, IsAt, Miro
  <2> QED
    BY <2>2, <2>3, <2>4
<1>8. /\ {"lms", "archive", "mets", "miro", "ebsco", "tei"} \subseteq Sources
      /\ {"visible", "invisible", "deleted"} \subseteq Statuses
      /\ {"books", "pictures", "audiovisual", "archives", "none"} \subseteq Formats
  BY DEF Sources, Statuses, Formats
<1> HIDE DEF Fine
<1>9. CASE shape \in {"bib", "copies"}
  <2>1. /\ Fine(Work(k, "lms", "visible", {Physical(k, 1)}, "books"))
        /\ Fine(Work(k, "lms", "visible", {Physical(k, 1), Physical(k, 2)}, "books"))
    BY <1>2, <1>6, <1>8
  <2> QED
    BY <1>9, <2>1 DEF Shaped, Fine
<1>10. CASE shape \in {"picture", "digmiro"}
  <2>1. Fine(Work(k, "lms", "visible", {Physical(k, 1)}, "pictures"))
    BY <1>2, <1>6, <1>8
  <2> QED
    BY <1>7, <1>10, <2>1 DEF Shaped, Fine
<1>11. CASE shape \in {"ebib", "av", "avebib"}
  <2>1. /\ Fine(Work(k, "lms", "visible", {Digital(k, "online")}, "books"))
        /\ Fine(Work(k, "lms", "visible", {Physical(k, 1)}, "audiovisual"))
        /\ Fine(Work(k, "lms", "visible", {}, "audiovisual"))
    BY <1>2, <1>3, <1>6, <1>8
  <2> QED
    BY <1>11, <2>1 DEF Shaped, Fine
<1>12. CASE shape \in {"archive", "mets", "miro"}
  <2>1. /\ Fine(Work(k, "archive", "visible", {Located(k, 1, "physical", FALSE)}, "archives"))
        /\ Fine(Work(k, "mets", "invisible", {Digital(k, "iiif")}, "none"))
        /\ Fine(Work(k, "miro", "visible", {Digital(k, "iiif")}, "none"))
    BY <1>3, <1>4, <1>6, <1>8
  <2> QED
    BY <1>12, <2>1 DEF Shaped, Fine
<1>13. CASE shape \in {"ebsco", "deleted"}
  <2>1. /\ Fine(Work(k, "ebsco", "visible", {Digital(k, "online")}, "none"))
        /\ Fine(Work(k, "lms", "deleted", {}, "none"))
    BY <1>3, <1>6, <1>8
  <2> QED
    BY <1>13, <2>1 DEF Shaped, Fine
<1>14. CASE shape \in {"tei", "lostit"}
  <2>1. Fine(Work(k, "tei", "visible", {}, "archives"))
    BY <1>6, <1>8
  <2> QED
    BY <1>7, <1>14, <2>1 DEF Shaped, Fine
<1> QED
  BY <1>9, <1>10, <1>11, <1>12, <1>13, <1>14 DEF Shapes

\* The sequence of a finite set.
LEMMA SetToSeqIs ==
    ASSUME NEW S, IsFiniteSet(S)
    PROVE  /\ Cardinality(S) \in Nat
           /\ SetToSeq(S) \in [1..Cardinality(S) -> S]
           /\ S # {} => Cardinality(S) > 0
<1>1. Cardinality(S) \in Nat /\ ExistsBijection(1..Cardinality(S), S)
  BY FS_CardinalityType
<1>2. \E f \in [1..Cardinality(S) -> S] : IsInjective(f)
  BY <1>1 DEF ExistsBijection, Bijection, Injection, IsInjective
<1>3. SetToSeq(S) \in [1..Cardinality(S) -> S]
  BY <1>2 DEF SetToSeq
<1>4. S # {} => Cardinality(S) > 0
  BY <1>1, FS_EmptySet
<1> QED
  BY <1>1, <1>3, <1>4

\* A link more changes nothing else about a work.
LEMMA WithLinkIs ==
    ASSUME NEW k \in Nat, NEW w \in AnyWork, IsAt(w, k), ~Miro(w), NEW v \in AnyWork
    PROVE  /\ WithLink(w, v) \in AnyWork
           /\ IsAt(WithLink(w, v), k)
           /\ Linked(WithLink(w, v), v)
           /\ \A u : Linked(w, u) => Linked(WithLink(w, v), u)
<1> DEFINE link == Link(w, v)
           more == Append(w.candidates, link)
<1>1. w.candidates \in Seq(AnyCandidate) /\ link \in AnyCandidate /\ link.id = v.id
  BY DEF AnyWork, Link, AnyCandidate, MayPair
<1>2. /\ more \in Seq(AnyCandidate)
      /\ Len(w.candidates) \in Nat
      /\ DOMAIN more = 1..Len(w.candidates) + 1
      /\ DOMAIN w.candidates = 1..Len(w.candidates)
      /\ \A i \in 1..Len(w.candidates) : more[i] = w.candidates[i]
      /\ more[Len(w.candidates) + 1] = link
  BY <1>1, AppendProperties
<1>3. WithLink(w, v) = [w EXCEPT !.candidates = more]
  BY DEF WithLink
<1> HIDE DEF more, link
<1>4. /\ WithLink(w, v) \in AnyWork
      /\ WithLink(w, v).candidates = more
      /\ IsAt(WithLink(w, v), k)
  BY <1>2, <1>3 DEF AnyWork, IsAt, Miro
<1>5. Linked(WithLink(w, v), v)
  BY <1>1, <1>2, <1>4 DEF Linked
<1>6. \A u : Linked(w, u) => Linked(WithLink(w, v), u)
  BY <1>2, <1>4 DEF Linked
<1> QED
  BY <1>4, <1>5, <1>6

\* Only lms, archive, METS and TEI works name others.
LEMMA MirosNameNone ==
    ASSUME NEW a, NEW b, MayLink(a, b)
    PROVE  ~Miro(a)
BY DEF MayLink, MayPair, Miro, Lms

\* The empty group is one of those that are grown.
LEMMA RulesStart == RulesInit => RulesInv
<1> SUFFICES ASSUME RulesInit PROVE RulesInv
  OBVIOUS
<1>1. works = <<>> /\ family \in Families /\ merged = Merge({})
  BY DEF RulesInit
<1>2. works \in Seq(AnyWork) /\ DOMAIN works = {}
  BY <1>1
<1>3. ToSet(works) = {}
  BY <1>2 DEF ToSet
<1>4. IsLinked(works)
  BY <1>2 DEF IsLinked
<1> QED
  BY <1>1, <1>2, <1>3, <1>4 DEF RulesInv

\* A work that is added is linked to one of the group, and no link is lost.
LEMMA AddWorkKeepsInv ==
    ASSUME RulesInv, NEW shape \in family.shapes, AddWork(shape)
    PROVE  /\ family' \in Families
           /\ works' \in Seq(AnyWork)
           /\ \A k \in DOMAIN works' : IsAt(works'[k], k)
           /\ IsLinked(works')
<1> DEFINE n == Len(works)
           new == Shaped(shape, n + 1)
<1>1. /\ family \in Families /\ family' = family
      /\ shape \in Shapes
      /\ works \in Seq(AnyWork) /\ n \in Nat /\ DOMAIN works = 1..n
      /\ \A k \in 1..n : works[k] \in AnyWork /\ IsAt(works[k], k)
      /\ IsLinked(works)
  BY FamiliesAssumption DEF RulesInv, AddWork
<1>2. new \in AnyWork /\ IsAt(new, n + 1) /\ new.candidates = <<>>
  BY <1>1, ShapedIs
<1>3. PICK to \in SUBSET {k \in DOMAIN works : MayLink(new, works[k])},
           by \in SUBSET {k \in DOMAIN works : MayLink(works[k], new)} :
           /\ to \union by # {} \/ works = <<>>
           /\ works' = Append(
                  [k \in DOMAIN works |-> IF k \in by THEN WithLink(works[k], new)
                                                      ELSE works[k]],
                  [new EXCEPT !.candidates =
                      [k \in 1..Cardinality(to) |-> Link(new, works[SetToSeq(to)[k]])]])
  BY DEF AddWork
<1> DEFINE links == [k \in 1..Cardinality(to) |-> Link(new, works[SetToSeq(to)[k]])]
           last == [new EXCEPT !.candidates = links]
           rest == [k \in 1..n |-> IF k \in by THEN WithLink(works[k], new) ELSE works[k]]
<1>4. /\ Cardinality(to) \in Nat
      /\ SetToSeq(to) \in [1..Cardinality(to) -> to]
      /\ to # {} => Cardinality(to) > 0
  <2>1. IsFiniteSet(to)
    <3>1. IsFiniteSet(1..n)
      BY <1>1, FS_Interval
    <3> QED
      BY <1>1, <3>1, FS_Subset
  <2> QED
    BY <2>1, SetToSeqIs
<1>5. ASSUME NEW k \in 1..Cardinality(to)
      PROVE  /\ links[k] \in AnyCandidate
             /\ links[k].id = works[SetToSeq(to)[k]].id
  <2>1. SetToSeq(to)[k] \in 1..n
    BY <1>1, <1>4
  <2>2. works[SetToSeq(to)[k]].id \in Int
    BY <1>1, <2>1 DEF AnyWork
  <2> QED
    BY <2>2 DEF Link, AnyCandidate, MayPair
<1>6. links \in Seq(AnyCandidate) /\ DOMAIN links = 1..Cardinality(to)
  <2>1. links \in [1..Cardinality(to) -> AnyCandidate]
    BY <1>5
  <2> QED
    BY <1>4, <2>1, SeqDef
<1>7. to # {} => ~Miro(new)
  BY MirosNameNone
<1>8. to = {} => links = <<>>
  BY <1>4, <1>6, FS_EmptySet
<1> HIDE DEF links
<1>9. /\ last \in AnyWork /\ IsAt(last, n + 1) /\ last.candidates = links
      /\ last.id = new.id /\ last.source = new.source
  BY <1>2, <1>6, <1>7, <1>8 DEF AnyWork, IsAt, Miro
<1>10. ASSUME NEW k \in 1..n
       PROVE  /\ rest[k] \in AnyWork /\ IsAt(rest[k], k)
              /\ rest[k].id = works[k].id
              /\ \A u : Linked(works[k], u) => Linked(rest[k], u)
              /\ k \in by => Linked(rest[k], new)
  <2>1. CASE k \in by
    <3>1. ~Miro(works[k])
      BY <2>1, MirosNameNone
    <3>2. rest[k] = WithLink(works[k], new)
      BY <2>1
    <3>3. /\ rest[k] \in AnyWork /\ IsAt(rest[k], k)
          /\ \A u : Linked(works[k], u) => Linked(rest[k], u)
          /\ Linked(rest[k], new)
      BY <1>1, <1>2, <3>1, <3>2, WithLinkIs
    <3> QED
      BY <1>1, <3>3 DEF IsAt
  <2>2. CASE k \notin by
    BY <1>1, <2>2
  <2> QED
    BY <2>1, <2>2
<1>11. rest \in Seq(AnyWork) /\ Len(rest) = n /\ DOMAIN rest = 1..n
  <2>1. rest \in [1..n -> AnyWork]
    BY <1>10
  <2> QED
    BY <1>1, <2>1, SeqDef
<1>12. works' = Append(rest, last)
  BY <1>1, <1>3 DEF links
<1> HIDE DEF rest, last
<1>13. /\ works' \in Seq(AnyWork) /\ DOMAIN works' = 1..n + 1
       /\ \A k \in 1..n : works'[k] = rest[k]
       /\ works'[n + 1] = last
  BY <1>9, <1>11, <1>12, AppendProperties
<1>14. ASSUME NEW k \in 1..n + 1
       PROVE  IsAt(works'[k], k)
  BY <1>9, <1>10, <1>13
<1>15. \A i, j \in 1..n : Linked(works[i], works[j]) => Linked(works'[i], works'[j])
  <2> SUFFICES ASSUME NEW i \in 1..n, NEW j \in 1..n, Linked(works[i], works[j])
               PROVE  Linked(rest[i], rest[j])
    BY <1>13
  <2>1. Linked(rest[i], works[j]) /\ rest[j].id = works[j].id
    BY <1>10
  <2> QED
    BY <2>1 DEF Linked
<1>16. n > 0 => \E k \in 1..n : \/ Linked(works'[k], works'[n + 1])
                                \/ Linked(works'[n + 1], works'[k])
  <2> SUFFICES ASSUME n > 0
               PROVE  \E k \in 1..n : Linked(rest[k], last) \/ Linked(last, rest[k])
    BY <1>13
  <2>1. to \union by # {}
    BY <1>3
  <2>2. CASE to # {}
    <3>1. 1 \in DOMAIN links /\ SetToSeq(to)[1] \in 1..n
      BY <1>1, <1>4, <1>6, <2>2
    <3>2. links[1].id = rest[SetToSeq(to)[1]].id
      BY <1>4, <1>5, <1>10, <2>2, <3>1
    <3>3. Linked(last, rest[SetToSeq(to)[1]])
      BY <1>9, <3>1, <3>2 DEF Linked
    <3> QED
      BY <3>1, <3>3
  <2>3. CASE by # {}
    <3>1. PICK k \in by : k \in 1..n
      BY <1>1, <2>3
    <3>2. Linked(rest[k], new)
      BY <1>10, <3>1
    <3> QED
      BY <1>9, <3>1, <3>2 DEF Linked
  <2> QED
    BY <2>1, <2>2, <2>3
<1>17. IsLinked(works')
  <2> SUFFICES ASSUME NEW D \in SUBSET (1..n + 1),
                      \A i \in D, j \in (1..n + 1) \ D :
                          ~Linked(works'[i], works'[j]) /\ ~Linked(works'[j], works'[i])
               PROVE  D \in {{}, 1..n + 1}
    BY <1>13 DEF IsLinked
  <2> DEFINE E == D \intersect 1..n
  <2>1. E \in {{}, 1..n}
    <3>1. \A i \in E, j \in (1..n) \ E :
              ~Linked(works[i], works[j]) /\ ~Linked(works[j], works[i])
      BY <1>1, <1>15
    <3>2. E \in SUBSET DOMAIN works
      BY <1>1
    <3> QED
      BY <1>1, <3>1, <3>2 DEF IsLinked
  <2>2. n > 0 => \E k \in 1..n : k \in D <=> n + 1 \in D
    BY <1>1, <1>16
  <2>3. 1..n + 1 = (1..n) \union {n + 1}
    BY <1>1
  <2>4. CASE n = 0
    <3>1. 1..n + 1 = {n + 1}
      BY <2>3, <2>4
    <3> QED
      BY <3>1
  <2>5. CASE n > 0
    <3>1. PICK k \in 1..n : k \in D <=> n + 1 \in D
      BY <2>2, <2>5
    <3>2. CASE E = {}
      <4>1. D = {}
        BY <2>3, <3>1, <3>2
      <4> QED
        BY <4>1
    <3>3. CASE E = 1..n
      <4>1. D = 1..n + 1
        BY <2>3, <3>1, <3>3
      <4> QED
        BY <4>1
    <3> QED
      BY <2>1, <3>2, <3>3
  <2> QED
    BY <1>1, <2>4, <2>5
<1> QED
  BY <1>1, <1>13, <1>14, <1>17

\* RulesInv is an invariant.
LEMMA RulesInductive == RulesSpec => []RulesInv
<1>1. ASSUME RulesInv, RulesNext PROVE RulesInv'
  <2>1. PICK shape \in family.shapes : AddWork(shape)
    BY <1>1 DEF RulesNext
  <2>2. merged' = Merge(ToSet(works'))
    BY <1>1 DEF RulesNext
  <2> QED
    BY <1>1, <2>1, <2>2, AddWorkKeepsInv DEF RulesInv
<1>2. ASSUME RulesInv, UNCHANGED <<family, works, merged>> PROVE RulesInv'
  BY <1>2 DEF RulesInv, IsLinked
<1> QED
  BY <1>1, <1>2, RulesStart, PTL DEF RulesSpec

\* The works of a group, as the lemmas about groups want them.
LEMMA GrownGroup ==
    ASSUME RulesInv, NEW W, W = ToSet(works)
    PROVE  /\ IsGroup(W) /\ WorksAreNoParts(W) /\ NoneIsRedirected(W) /\ IsConnected(W)
           /\ \A w \in W : w.id \in DOMAIN works /\ works[w.id] = w
           /\ \A k \in DOMAIN works : works[k] \in W /\ works[k].id = k
<1>1. /\ works \in Seq(AnyWork) /\ Len(works) \in Nat /\ DOMAIN works = 1..Len(works)
      /\ \A k \in DOMAIN works : works[k] \in AnyWork /\ IsAt(works[k], k)
      /\ W = {works[k] : k \in DOMAIN works}
  BY DEF RulesInv, ToSet
<1>2. /\ \A w \in W : w.id \in DOMAIN works /\ works[w.id] = w
      /\ \A k \in DOMAIN works : works[k] \in W /\ works[k].id = k
  BY <1>1 DEF IsAt
<1>3. \A w \in W : w \in AnyWork /\ IsAt(w, w.id) /\ w.id \in 1..Len(works)
  BY <1>1, <1>2
<1>4. IsFiniteSet(W)
  <2> DEFINE at == [k \in DOMAIN works |-> works[k]]
  <2>1. IsFiniteSet(DOMAIN works)
    BY <1>1, FS_Interval
  <2>2. at \in Surjection(DOMAIN works, W)
    BY <1>1 DEF Surjection
  <2> QED
    BY <2>1, <2>2, FS_Surjection
<1>5. IsGroup(W)
  BY <1>2, <1>3, <1>4 DEF IsGroup, IsAt
<1>6. WorksAreNoParts(W)
  <2> SUFFICES ASSUME NEW v \in W, NEW w \in W
               PROVE  v.id \notin w.stubs /\ v.id \notin w.removed
    BY DEF WorksAreNoParts
  <2>1. v.id \in 1..Len(works) /\ w.id \in 1..Len(works)
    BY <1>3
  <2>2. w.stubs \subseteq {-w.id} /\ w.removed \subseteq {1 - w.id, -1 - w.id}
    BY <1>3 DEF IsAt
  <2>3. v.id # -w.id /\ v.id # 1 - w.id /\ v.id # -1 - w.id
    BY <1>1, <2>1
  <2> QED
    BY <2>2, <2>3
<1>7. NoneIsRedirected(W)
  BY <1>3 DEF NoneIsRedirected, AnyWork, Statuses
<1>8. IsConnected(W)
  <2>1. ASSUME NEW D \in SUBSET W, Apart(D, W) PROVE D \in {{}, W}
    <3> DEFINE I == {k \in DOMAIN works : works[k] \in D}
    <3>1. \A i \in I, j \in DOMAIN works \ I :
              ~Linked(works[i], works[j]) /\ ~Linked(works[j], works[i])
      BY <1>1, <2>1 DEF Apart
    <3>2. I \in {{}, DOMAIN works}
      BY <3>1 DEF RulesInv, IsLinked
    <3> QED
      BY <1>1, <3>2
  <2>2. ASSUME NEW m \in Miros(W), NEW w \in W PROVE ~Linked(m, w)
    <3>1. m.candidates = <<>>
      BY <1>3 DEF IsAt, Miros
    <3> QED
      BY <3>1 DEF Linked
  <2> QED
    BY <2>1, <2>2 DEF IsConnected
<1> QED
  BY <1>2, <1>5, <1>6, <1>7, <1>8

\* Every work of a merge comes out of it, and no id comes out twice.
LEMMA ComesOutOnce == RulesInv => EveryWorkComesOutOnce
<1> SUFFICES ASSUME RulesInv PROVE EveryWorkComesOutOnce
  OBVIOUS
<1> DEFINE W == ToSet(works)
<1>1. /\ IsGroup(W) /\ WorksAreNoParts(W)
      /\ \A w \in W : w.id \in DOMAIN works /\ works[w.id] = w
      /\ \A k \in DOMAIN works : works[k] \in W /\ works[k].id = k
  BY GrownGroup
<1>2. merged = Merge(W)
  BY DEF RulesInv
<1> HIDE DEF W
<1>3. PICK o : /\ IsOutcome(o, W)
               /\ Merge(W).works = o.works \union DeletedInternalWorks(W, Ids(o.works))
  BY <1>1, MergeIsOutcome
<1>4. ASSUME NEW d \in Merge(W).works \ o.works
      PROVE  d.status = "deleted" /\ d.id \notin Ids(o.works)
  BY <1>3, DeletedIs, DeletedChildIs
<1>5. ASSUME NEW d \in o.works, NEW e \in o.works, d.id = e.id PROVE d = e
  <2>1. PICK v \in W : /\ d.parent = v.id
                       /\ d.id = v.id \/ (Visible(v) /\ d.id \in v.stubs)
    BY <1>3 DEF IsOutcome
  <2>2. PICK w \in W : /\ e.parent = w.id
                       /\ e.id = w.id \/ (Visible(w) /\ e.id \in w.stubs)
    BY <1>3 DEF IsOutcome
  <2>3. v.id = w.id
    <3>1. CASE d.id = v.id /\ e.id = w.id
      BY <1>5, <3>1
    <3>2. CASE d.id = v.id /\ e.id # w.id
      BY <1>1, <1>5, <2>2, <3>2 DEF WorksAreNoParts
    <3>3. CASE d.id # v.id /\ e.id = w.id
      BY <1>1, <1>5, <2>1, <3>3 DEF WorksAreNoParts
    <3>4. CASE d.id \in v.stubs /\ e.id \in w.stubs
      <4>1. v.stubs \subseteq {-v.id} /\ w.stubs \subseteq {-w.id}
        BY <1>1 DEF RulesInv, IsAt
      <4>2. v.id \in Int /\ w.id \in Int /\ -v.id = -w.id
        <5>1. v.id \in DOMAIN works /\ w.id \in DOMAIN works
          BY <1>1
        <5>2. works \in Seq(AnyWork)
          BY DEF RulesInv
        <5> QED
          BY <1>5, <3>4, <4>1, <5>1, <5>2
      <4> QED
        BY <4>2
    <3> QED
      BY <2>1, <2>2, <3>1, <3>2, <3>3, <3>4
  <2> QED
    BY <1>3, <1>5, <2>1, <2>2, <2>3 DEF IsOutcome
<1>6. DOMAIN works \subseteq Ids(merged.works)
  BY <1>1, <1>2, <1>3 DEF IsOutcome, Ids
<1>7. ASSUME NEW d \in merged.works, NEW e \in merged.works, d.id = e.id
      PROVE  d = e \/ {d.status, e.status} = {"deleted"}
  BY <1>2, <1>4, <1>5, <1>7 DEF Ids
<1> QED
  BY <1>6, <1>7 DEF EveryWorkComesOutOnce

\* EveryWorkComesOutOnce, for any families of works: every work that goes into a
\* merge comes out of it, and no id comes out twice.
THEOREM WorksComeOutOnce == RulesSpec => []EveryWorkComesOutOnce
BY ComesOutOnce, RulesInductive, PTL

\* ImagesHaveOneParent, likewise: an image is published under one work, to which
\* its Miro or METS work is redirected, or which it is.
THEOREM ImagesAreOfOneParent == RulesSpec => []ImagesHaveOneParent
<1>1. RulesInv => ImagesHaveOneParent
  <2> SUFFICES ASSUME RulesInv PROVE ImagesHaveOneParent
    OBVIOUS
  <2> DEFINE W == ToSet(works)
  <2>1. IsGroup(W) /\ WorksAreNoParts(W)
    BY GrownGroup
  <2>2. merged = Merge(W)
    BY DEF RulesInv
  <2> HIDE DEF W
  <2>3. PICK o : /\ IsOutcome(o, W)
                 /\ Merge(W).works = o.works \union DeletedInternalWorks(W, Ids(o.works))
                 /\ Merge(W).images = o.images
    BY <2>1, MergeIsOutcome
  <2> QED
    BY <2>2, <2>3 DEF IsOutcome, ImagesHaveOneParent, DocsOf
<1> QED
  BY <1>1, RulesInductive, PTL

\* NoPoolingThroughMiro, likewise: a work is only redirected to one that links
\* join it with when no Miro work is counted.
THEOREM NothingPoolsThroughMiro == RulesSpec => []NoPoolingThroughMiro
<1>1. RulesInv => NoPoolingThroughMiro
  <2> SUFFICES ASSUME RulesInv PROVE NoPoolingThroughMiro
    OBVIOUS
  <2> DEFINE W == ToSet(works)
  <2>1. /\ IsGroup(W) /\ NoneIsRedirected(W) /\ IsConnected(W)
        /\ \A w \in W : w.id \in DOMAIN works /\ works[w.id] = w
    BY GrownGroup
  <2>2. merged = Merge(W)
    BY DEF RulesInv
  <2>3. {w \in ToSet(works) : ~Miro(w)} = W \ Miros(W)
    BY DEF Miros
  <2> HIDE DEF W
  <2>4. ASSUME NEW d \in RedirectsOf(merged), ~Miro(works[d.id])
        PROVE  Connected(W \ Miros(W), works[d.id], works[d.target])
    <3>1. PICK g \in GroupsOf(W) : \E v, t \in g :
                   FindTarget(g) = {t} /\ d.id = v.id /\ d.target = t.id
      BY <2>1, <2>2, RedirectsOfMerge DEF RedirectsOf
    <3>2. PICK v \in g, t \in g : FindTarget(g) = {t} /\ d.id = v.id /\ d.target = t.id
      BY <3>1
    <3>3. g \in SUBSET W
      BY <2>1, GroupsArePartition
    <3>4. works[d.id] = v /\ works[d.target] = t
      BY <2>1, <3>2, <3>3
    <3>5. \E C \in Components(W \ Miros(W)) : v \in C /\ t \in C
      BY <2>1, <2>4, <3>2, <3>4, MergedAreConnected
    <3> QED
      BY <3>4, <3>5 DEF Connected
  <2> QED
    BY <2>3, <2>4 DEF NoPoolingThroughMiro
<1> QED
  BY <1>1, RulesInductive, PTL

\* EbibsKeepTheirMets, likewise: a METS work linked to one audiovisual e-bib is
\* redirected to no other lms work.
THEOREM MetsStayWithTheirEbib == RulesSpec => []EbibsKeepTheirMets
<1>1. RulesInv => EbibsKeepTheirMets
  <2> SUFFICES ASSUME RulesInv PROVE EbibsKeepTheirMets
    OBVIOUS
  <2> DEFINE W == ToSet(works)
  <2>1. /\ IsGroup(W) /\ NoneIsRedirected(W)
        /\ \A w \in W : w.id \in DOMAIN works /\ works[w.id] = w
    BY GrownGroup
  <2>2. merged = Merge(W)
    BY DEF RulesInv
  <2>3. \A v : LinkedEbibs(W, v) =
            {e \in ToSet(works) : DigitisedAv(e) /\ (Linked(v, e) \/ Linked(e, v))}
    BY DEF LinkedEbibs, Ebibs
  <2> HIDE DEF W
  <2>4. ASSUME NEW d \in RedirectsOf(merged), Lms(works[d.target]),
               works[d.id].source = "mets",
               Cardinality(LinkedEbibs(W, works[d.id])) = 1
        PROVE  works[d.target] \in LinkedEbibs(W, works[d.id])
    <3>1. PICK g \in GroupsOf(W) : \E v, t \in g :
                   FindTarget(g) = {t} /\ d.id = v.id /\ d.target = t.id
      BY <2>1, <2>2, RedirectsOfMerge DEF RedirectsOf
    <3>2. PICK v \in g, t \in g : FindTarget(g) = {t} /\ d.id = v.id /\ d.target = t.id
      BY <3>1
    <3>3. g \in SUBSET W
      BY <2>1, GroupsArePartition
    <3>4. works[d.id] = v /\ works[d.target] = t
      BY <2>1, <3>2, <3>3
    <3>5. PICK e : LinkedEbibs(W, v) = {e}
      <4>1. IsFiniteSet(LinkedEbibs(W, v))
        BY <2>1, FS_Subset DEF LinkedEbibs, Ebibs, IsGroup
      <4> QED
        BY <2>4, <3>4, <4>1, FS_Singleton
    <3>6. ~Miro(v) /\ ~Lms(v) /\ Lms(t) /\ t \in FindTarget(g)
      BY <2>4, <3>2, <3>4 DEF Miro, Lms
    <3>7. t = e
      BY <2>1, <3>5, <3>6, EbibsKeepWorks
    <3> QED
      BY <3>4, <3>5, <3>7
  <2> QED
    BY <2>3, <2>4 DEF EbibsKeepTheirMets
<1> QED
  BY <1>1, RulesInductive, PTL

----------------------------------------------------------------------------
(***************************************************************************)
(* What becomes of the locations of digitised works.                       *)
(***************************************************************************)

\* The rules that make the items, one by one.
LEMMA ItemRulesAre ==
    ASSUME NEW t, NEW S, NEW rules, rules = ItemRules(t, S)
    PROVE  /\ DOMAIN rules = 1..5
           /\ rules[1].takes = Taken(TeiTarget(t), DigitalOrLms(S))
           /\ rules[1].makes = ItemsOf(rules[1].takes)
           /\ rules[2].takes = Taken(ArchiveStub(t), DigitalOrLms(S))
           /\ rules[2].makes = ItemsOf(rules[2].takes)
           /\ rules[3].takes = Taken(Lms(t), MetsItems(S))
           /\ rules[3].makes = WithItemsOf(t, rules[3].takes)
           /\ rules[4].takes = TakenSingleMiro(t, S)
           /\ rules[4].makes = WithItemsOf(t, rules[4].takes)
           /\ rules[5].makes = t.items \union
                  UNION {OnlineItems(d) : d \in LinkedDigitised(t, S)}
<1> DEFINE tei == Taken(TeiTarget(t), DigitalOrLms(S))
           archive == Taken(ArchiveStub(t), DigitalOrLms(S))
           mets == Taken(Lms(t), MetsItems(S))
           miro == TakenSingleMiro(t, S)
           pair == Taken(/\ PhysicalLms(t) /\ ~Audiovisual(t) /\ Pairs(t) # {}, LmsWorks(S))
           online == t.items \union UNION {OnlineItems(d) : d \in LinkedDigitised(t, S)}
<1>1. rules = <<[takes |-> tei,     makes |-> ItemsOf(tei)],
                [takes |-> archive, makes |-> ItemsOf(archive)],
                [takes |-> mets,    makes |-> WithItemsOf(t, mets)],
                [takes |-> miro,    makes |-> WithItemsOf(t, miro)],
                [takes |-> pair,    makes |-> online]>>
  BY DEF ItemRules
<1> HIDE DEF tei, archive, mets, miro, pair, online
<1>2. /\ DOMAIN rules = 1..5
      /\ rules[1].takes = tei /\ rules[1].makes = ItemsOf(tei)
      /\ rules[2].takes = archive /\ rules[2].makes = ItemsOf(archive)
      /\ rules[3].takes = mets /\ rules[3].makes = WithItemsOf(t, mets)
      /\ rules[4].takes = miro /\ rules[4].makes = WithItemsOf(t, miro)
      /\ rules[5].makes = online
  BY <1>1
<1> QED
  BY <1>2 DEF tei, archive, mets, miro, online

\* The first rule that takes anything makes the items.
LEMMA FirstRuleMakes ==
    ASSUME NEW t, NEW S, NEW rules, rules = ItemRules(t, S)
    PROVE  /\ Taking(rules) \subseteq 1..5
           /\ Taking(rules) = {} => MergedItems(t, S) = UnmergedItems(t)
           /\ Taking(rules) # {} =>
                  \E k \in Taking(rules) : MergedItems(t, S) = rules[k].makes
           /\ \A k \in Taking(rules) :
                  (\A j \in Taking(rules) : k <= j) => MergedItems(t, S) = rules[k].makes
<1>1. Taking(rules) \subseteq 1..5
  BY ItemRulesAre DEF Taking
<1>2. MergedItems(t, S) = IF Taking(rules) = {} THEN UnmergedItems(t)
                          ELSE rules[Min(Taking(rules))].makes
  BY DEF MergedItems
<1>3. Taking(rules) \in SUBSET (1..7)
  BY <1>1
<1> QED
  BY <1>1, <1>2, <1>3, LeastOfFew

\* The locations of some items.
LocationsIn(items) == UNION {i.locations : i \in items}

\* A work with the items of others, or with their locations on its own item, has
\* no location but theirs and its own ...
LEMMA LocationsBeside ==
    ASSUME NEW t \in AnyWork, NEW S, NEW l
    PROVE  l \in LocationsIn(WithItemsOf(t, S)) =>
               l \in LocationsIn(t.items) \/ l \in LocationsIn(ItemsOf(S))
<1>1. CASE SingleItem(t)
  <2> DEFINE more == UNION {j.locations : j \in ItemsOf(S)}
  <2>1. WithItemsOf(t, S) = {[i EXCEPT !.locations = @ \union more] : i \in t.items}
    BY <1>1 DEF WithItemsOf
  <2>2. \A i \in t.items : [i EXCEPT !.locations = @ \union more].locations =
                               i.locations \union more
    BY DEF AnyWork, AnyItem
  <2>3. more = LocationsIn(ItemsOf(S))
    BY DEF LocationsIn
  <2> DEFINE Full(i) == [i EXCEPT !.locations = @ \union more]
  <2>4. /\ WithItemsOf(t, S) = {Full(i) : i \in t.items}
        /\ \A i \in t.items : Full(i).locations = i.locations \union more
    BY <2>1, <2>2
  <2> HIDE DEF more, Full
  <2>5. SUFFICES ASSUME l \in LocationsIn(WithItemsOf(t, S))
                 PROVE  l \in LocationsIn(t.items) \/ l \in more
    BY <2>3
  <2>6. PICK i \in t.items : l \in Full(i).locations
    BY <2>4, <2>5 DEF LocationsIn
  <2> QED
    BY <2>4, <2>6 DEF LocationsIn
<1>2. CASE ~SingleItem(t)
  <2>1. WithItemsOf(t, S) = t.items \union ItemsOf(S)
    BY <1>2 DEF WithItemsOf
  <2> QED
    BY <2>1 DEF LocationsIn
<1> QED
  BY <1>1, <1>2

\* ... and all those of the others are.
LEMMA LocationsOfOthers ==
    ASSUME NEW t \in AnyWork, NEW S, NEW l \in LocationsIn(ItemsOf(S))
    PROVE  l \in LocationsIn(WithItemsOf(t, S))
<1>1. CASE SingleItem(t)
  <2> DEFINE more == UNION {j.locations : j \in ItemsOf(S)}
  <2>1. WithItemsOf(t, S) = {[i EXCEPT !.locations = @ \union more] : i \in t.items}
    BY <1>1 DEF WithItemsOf
  <2>2. \A i \in t.items : [i EXCEPT !.locations = @ \union more].locations =
                               i.locations \union more
    BY DEF AnyWork, AnyItem
  <2>3. more = LocationsIn(ItemsOf(S))
    BY DEF LocationsIn
  <2>4. PICK i : i \in t.items
    <3>1. t.items # {}
      BY <1>1, FS_EmptySet DEF SingleItem
    <3> QED
      BY <3>1
  <2> HIDE DEF more
  <2>5. l \in [i EXCEPT !.locations = @ \union more].locations
    BY <2>2, <2>3, <2>4
  <2>6. [i EXCEPT !.locations = @ \union more] \in WithItemsOf(t, S)
    BY <2>1, <2>4
  <2> QED
    BY <2>5, <2>6 DEF LocationsIn
<1>2. CASE ~SingleItem(t)
  <2>1. WithItemsOf(t, S) = t.items \union ItemsOf(S)
    BY <1>2 DEF WithItemsOf
  <2> QED
    BY <2>1 DEF LocationsIn
<1> QED
  BY <1>1, <1>2

\* A digitised work leaves its locations on any target but an EBSCO work.
LEMMA MetsAreTaken ==
    ASSUME NEW t \in AnyWork, TeiTarget(t) \/ ArchiveStub(t) \/ Lms(t),
           NEW S, NEW v \in S, MetsItem(v)
    PROVE  LocationsIn(v.items) \subseteq LocationsIn(MergedItems(t, S))
<1> DEFINE rules == ItemRules(t, S)
<1>1. v \in MetsItems(S) /\ v \in DigitalOrLms(S)
  BY DEF MetsItems, DigitalOrLms
<1>2. \A T : v \in T => LocationsIn(v.items) \subseteq LocationsIn(ItemsOf(T))
  BY DEF LocationsIn, ItemsOf
<1>3. /\ ~(TeiTarget(t) /\ ArchiveStub(t)) /\ ~(TeiTarget(t) /\ Lms(t))
      /\ ~(ArchiveStub(t) /\ Lms(t))
  BY DEF TeiTarget, ArchiveStub, Lms
<1>4. /\ DOMAIN rules = 1..5
      /\ rules[1].takes = Taken(TeiTarget(t), DigitalOrLms(S))
      /\ rules[1].makes = ItemsOf(rules[1].takes)
      /\ rules[2].takes = Taken(ArchiveStub(t), DigitalOrLms(S))
      /\ rules[2].makes = ItemsOf(rules[2].takes)
      /\ rules[3].takes = Taken(Lms(t), MetsItems(S))
      /\ rules[3].makes = WithItemsOf(t, rules[3].takes)
  BY ItemRulesAre
<1>5. /\ Taking(rules) \subseteq 1..5
      /\ \A k \in Taking(rules) :
             (\A j \in Taking(rules) : k <= j) => MergedItems(t, S) = rules[k].makes
  BY FirstRuleMakes
<1>6. \A k \in 1..5 : k \in Taking(rules) <=> rules[k].takes # {}
  BY <1>4 DEF Taking
<1> HIDE DEF rules
<1>7. CASE TeiTarget(t)
  <2>1. rules[1].takes = DigitalOrLms(S)
    BY <1>4, <1>7 DEF Taken
  <2>2. 1 \in Taking(rules) /\ \A j \in Taking(rules) : 1 <= j
    BY <1>1, <1>5, <1>6, <2>1
  <2>3. MergedItems(t, S) = rules[1].makes
    BY <1>5, <2>2
  <2> QED
    BY <1>1, <1>2, <1>4, <2>1, <2>3
<1>8. CASE ArchiveStub(t)
  <2>1. rules[2].takes = DigitalOrLms(S) /\ rules[1].takes = {}
    BY <1>3, <1>4, <1>8 DEF Taken
  <2>2. 2 \in Taking(rules) /\ \A j \in Taking(rules) : 2 <= j
    BY <1>1, <1>5, <1>6, <2>1
  <2>3. MergedItems(t, S) = rules[2].makes
    BY <1>5, <2>2
  <2> QED
    BY <1>1, <1>2, <1>4, <2>1, <2>3
<1>9. CASE Lms(t)
  <2>1. rules[3].takes = MetsItems(S) /\ rules[2].takes = {} /\ rules[1].takes = {}
    BY <1>3, <1>4, <1>9 DEF Taken
  <2>2. 3 \in Taking(rules) /\ \A j \in Taking(rules) : 3 <= j
    BY <1>1, <1>5, <1>6, <2>1
  <2>3. MergedItems(t, S) = WithItemsOf(t, MetsItems(S))
    BY <1>4, <1>5, <2>1, <2>2
  <2> QED
    BY <1>1, <1>2, <2>3, LocationsOfOthers
<1> QED
  BY <1>7, <1>8, <1>9

\* A merged target has no location that is not one of the works'.
LEMMA LocationsAreOfWorks ==
    ASSUME NEW t \in AnyWork, NEW S, NEW l \in LocationsIn(MergedItems(t, S))
    PROVE  \E w \in S \union {t} : l \in LocationsIn(w.items)
<1> DEFINE rules == ItemRules(t, S)
           Of(items) == \E w \in S \union {t} : l \in LocationsIn(w.items)
<1>1. /\ MetsItems(S) \subseteq S /\ MiroItems(S) \subseteq S
      /\ DigitalOrLms(S) \subseteq S
  BY DEF MetsItems, MiroItems, LmsWorks, DigitalOrLms
<1>2. TakenSingleMiro(t, S) \subseteq S /\ LinkedDigitised(t, S) \subseteq S
  BY <1>1 DEF TakenSingleMiro, Taken, LinkedDigitised
<1>3. \A T \in SUBSET S : l \in LocationsIn(ItemsOf(T)) =>
          \E w \in S : l \in LocationsIn(w.items)
  BY DEF LocationsIn, ItemsOf
<1>4. /\ rules[1].takes = Taken(TeiTarget(t), DigitalOrLms(S))
      /\ rules[1].makes = ItemsOf(rules[1].takes)
      /\ rules[2].takes = Taken(ArchiveStub(t), DigitalOrLms(S))
      /\ rules[2].makes = ItemsOf(rules[2].takes)
      /\ rules[3].takes = Taken(Lms(t), MetsItems(S))
      /\ rules[3].makes = WithItemsOf(t, rules[3].takes)
      /\ rules[4].takes = TakenSingleMiro(t, S)
      /\ rules[4].makes = WithItemsOf(t, rules[4].takes)
      /\ rules[5].makes = t.items \union
             UNION {OnlineItems(d) : d \in LinkedDigitised(t, S)}
  BY ItemRulesAre
<1>5. /\ Taking(rules) \subseteq 1..5
      /\ Taking(rules) = {} => MergedItems(t, S) = UnmergedItems(t)
      /\ Taking(rules) # {} => \E k \in Taking(rules) : MergedItems(t, S) = rules[k].makes
  BY FirstRuleMakes
<1> HIDE DEF rules
<1>6. CASE MergedItems(t, S) = UnmergedItems(t)
  <2>1. l \in LocationsIn(t.items)
    BY <1>6 DEF UnmergedItems, LocationsIn
  <2> QED
    BY <2>1
<1>7. ASSUME NEW k \in 1..5, MergedItems(t, S) = rules[k].makes
      PROVE  \E w \in S \union {t} : l \in LocationsIn(w.items)
  <2>1. CASE k = 1 \/ k = 2
    <3>1. PICK T \in SUBSET S : rules[k].makes = ItemsOf(T)
      BY <1>1, <1>4, <2>1 DEF Taken
    <3> QED
      BY <1>3, <1>7, <3>1
  <2>2. CASE k = 3 \/ k = 4
    <3>1. PICK T \in SUBSET S : rules[k].makes = WithItemsOf(t, T)
      BY <1>1, <1>2, <1>4, <2>2 DEF Taken
    <3>2. l \in LocationsIn(t.items) \/ l \in LocationsIn(ItemsOf(T))
      BY <1>7, <3>1, LocationsBeside
    <3> QED
      BY <1>3, <3>2
  <2>3. CASE k = 5
    <3> DEFINE online == UNION {OnlineItems(d) : d \in LinkedDigitised(t, S)}
    <3>1. \A i \in online : \E d \in S : i \in d.items
      BY <1>2 DEF OnlineItems
    <3>2. rules[5].makes = t.items \union online
      BY <1>4
    <3> HIDE DEF online
    <3> QED
      BY <1>7, <2>3, <3>1, <3>2 DEF LocationsIn
  <2> QED
    BY <2>1, <2>2, <2>3
<1> QED
  BY <1>5, <1>6, <1>7

\* What becomes of the locations of a group that is merged as one: those of a
\* document that is no inner work are its own work's, or it is the target's.
LEMMA LocationsInGroup ==
    ASSUME NEW W \in SUBSET AnyWork, IsGroup(W),
           NEW d \in MergeWorks(W).works, d.parent = d.id, NEW l \in LocationsIn(d.items)
    PROVE  \E w \in W : /\ l \in LocationsIn(w.items)
                        /\ \/ w.id = d.id
                           \/ \E t \in W : FindTarget(W) = {t} /\ t.id = d.id
<1> DEFINE target == FindTarget(W)
           First(S) == CHOOSE w \in S : TRUE
           Goal == \E w \in W : /\ l \in LocationsIn(w.items)
                                /\ \/ w.id = d.id
                                   \/ \E t \in W : FindTarget(W) = {t} /\ t.id = d.id
<1>1. \A id, status, items, at, redirects, parent :
          d = Doc(id, status, items, at, redirects, parent) =>
              d.id = parent /\ d.items = items /\ d.parent = parent
  BY DocOf
<1>2. ASSUME NEW w \in W, d = AsItIs(w) PROVE Goal
  <2>1. d.id = w.id /\ d.items = w.items
    BY <1>1, <1>2, DocOf DEF AsItIs
  <2> QED
    BY <2>1
<1>3. CASE Cardinality(W) = 1 /\ Visible(First(W))
  <2>1. MergeWorks(W) = MergeAlone(First(W))
    BY <1>3 DEF MergeWorks
  <2>2. PICK w : W = {w}
    BY <1>3, FS_Singleton DEF IsGroup
  <2>3. First(W) = w
    BY <2>2
  <2> HIDE DEF First
  <2>4. MergeWorks(W) = MergeAlone(w)
    BY <2>1, <2>3
  <2>5. d.id = w.id /\ d.items = UnmergedItems(w)
    BY <1>1, <2>4 DEF MergeAlone, InnerWorks
  <2>6. UnmergedItems(w) \subseteq w.items
    BY DEF UnmergedItems
  <2> QED
    BY <2>2, <2>5, <2>6 DEF LocationsIn
<1>4. CASE ~(Cardinality(W) = 1 /\ Visible(First(W))) /\ target = {}
  <2>1. MergeWorks(W) = PassThrough(W)
    BY <1>4 DEF MergeWorks
  <2>2. PICK w \in W : d = AsItIs(w)
    BY <2>1 DEF PassThrough
  <2> QED
    BY <1>2, <2>2
<1>5. CASE ~(Cardinality(W) = 1 /\ Visible(First(W))) /\ target # {}
  <2> DEFINE S == {w \in W \ target : ~Deleted(w)}
             D == {w \in W : Deleted(w)}
             R(t) == RedirectSources(t, S)
  <2>1. PICK t \in target : target = {t} /\ t \in W
    BY <1>5, TargetIsOne
  <2>2. First(target) = t
    BY <2>1
  <2>3. MergeWorks(W) = MergeInto(First(target), S, D)
    BY <1>5 DEF MergeWorks
  <2>4. R(t) \subseteq S /\ S \subseteq W /\ D \subseteq W
    BY RedirectsAreSources
  <2> HIDE DEF First, S, D
  <2>5. MergeWorks(W).works =
            {Redirected(w, t) : w \in R(t)} \union {AsItIs(w) : w \in (S \ R(t)) \union D}
            \union InnerWorks(t, MergedItems(t, S))
            \union {Doc(t.id, "visible", MergedItems(t, S), t.id, Ids(R(t)), t.id)}
    BY <2>2, <2>3 DEF MergeInto
  <2> HIDE DEF R, target, Goal
  <2>6. ASSUME d \in {Redirected(w, t) : w \in R(t)} PROVE Goal
    <3>1. d.items = {}
      BY <1>1, <2>6 DEF Redirected
    <3> QED
      BY <3>1 DEF LocationsIn
  <2>7. ASSUME d \in {AsItIs(w) : w \in (S \ R(t)) \union D} PROVE Goal
    BY <1>2, <2>4, <2>7
  <2>8. ASSUME \/ d \in InnerWorks(t, MergedItems(t, S))
               \/ d = Doc(t.id, "visible", MergedItems(t, S), t.id, Ids(R(t)), t.id)
        PROVE  Goal
    <3>1. d.id = t.id /\ d.items = MergedItems(t, S)
      BY <1>1, <2>8 DEF InnerWorks
    <3>2. PICK w \in S \union {t} : l \in LocationsIn(w.items)
      BY <2>1, <3>1, LocationsAreOfWorks
    <3>3. w \in W /\ t \in W /\ FindTarget(W) = {t} /\ t.id = d.id
      BY <2>1, <2>4, <3>1 DEF target
    <3> QED
      BY <3>2, <3>3 DEF Goal
  <2>9. Goal
    BY <2>5, <2>6, <2>7, <2>8
  <2> QED
    BY <2>9 DEF Goal
<1> QED
  BY <1>3, <1>4, <1>5

\* A target with somebody to merge with comes out with the merged items.
LEMMA TargetHasMerged ==
    ASSUME NEW W, IsGroup(W), NEW t \in W, FindTarget(W) = {t},
           NEW v \in W, v # t, NEW S, S = {w \in W \ {t} : ~Deleted(w)}
    PROVE  \E d \in MergeWorks(W).works :
               d.id = t.id /\ d.status = "visible" /\ d.items = MergedItems(t, S)
<1> DEFINE First(A) == CHOOSE w \in A : TRUE
           D == {w \in W : Deleted(w)}
           own == Doc(t.id, "visible", MergedItems(t, S), t.id, Ids(RedirectSources(t, S)), t.id)
<1>1. Cardinality(W) # 1
  BY FS_Singleton DEF IsGroup
<1>2. MergeWorks(W) = MergeInto(First(FindTarget(W)),
                                {w \in W \ FindTarget(W) : ~Deleted(w)}, D)
  BY <1>1 DEF MergeWorks
<1>3. First(FindTarget(W)) = t
  OBVIOUS
<1> HIDE DEF First, D
<1>4. MergeWorks(W) = MergeInto(t, S, D)
  BY <1>2, <1>3
<1>5. own \in MergeWorks(W).works
  BY <1>4 DEF MergeInto
<1>6. own.id = t.id /\ own.status = "visible" /\ own.items = MergedItems(t, S)
  BY DocOf
<1> QED
  BY <1>5, <1>6

\* Links change nothing of a work's source, status and items: they are those of a
\* shape of the family.
ShapesInv ==
    \A k \in DOMAIN works : \E shape \in family.shapes :
        LET w == Shaped(shape, k)
        IN  /\ works[k].source = w.source
            /\ works[k].status = w.status
            /\ works[k].items = w.items

\* A work that is added is of a shape of the family, and links are all that the
\* others get.
LEMMA RulesKeepShapes ==
    ASSUME RulesInv, ShapesInv, RulesNext
    PROVE  ShapesInv'
<1> DEFINE n == Len(works)
           Same(v, w) == v.source = w.source /\ v.status = w.status /\ v.items = w.items
<1>1. PICK shape \in family.shapes : AddWork(shape)
  BY DEF RulesNext
<1> DEFINE new == Shaped(shape, n + 1)
<1>2. /\ family' = family
      /\ works \in Seq(AnyWork) /\ n \in Nat /\ DOMAIN works = 1..n
      /\ \A k \in 1..n : works[k] \in AnyWork
      /\ shape \in Shapes
  BY <1>1, FamiliesAssumption DEF RulesInv, AddWork
<1>3. new \in AnyWork
  BY <1>2, ShapedIs
<1>4. PICK to, by :
           works' = Append(
               [k \in DOMAIN works |-> IF k \in by THEN WithLink(works[k], new)
                                                   ELSE works[k]],
               [new EXCEPT !.candidates =
                   [k \in 1..Cardinality(to) |-> Link(new, works[SetToSeq(to)[k]])]])
  BY <1>1 DEF AddWork
<1> DEFINE links == [k \in 1..Cardinality(to) |-> Link(new, works[SetToSeq(to)[k]])]
           last == [new EXCEPT !.candidates = links]
           rest == [k \in 1..n |-> IF k \in by THEN WithLink(works[k], new) ELSE works[k]]
<1>5. Same(last, new)
  BY <1>3 DEF AnyWork
<1>6. ASSUME NEW k \in 1..n PROVE Same(rest[k], works[k])
  <2>1. \A c : Same([works[k] EXCEPT !.candidates = c], works[k])
    BY <1>2 DEF AnyWork
  <2> QED
    BY <2>1 DEF WithLink
<1>7. works' = Append(rest, last)
  BY <1>2, <1>4
<1> HIDE DEF links, last
<1>8. Len(rest) = n /\ DOMAIN rest = 1..n /\ rest \in Seq({rest[k] : k \in 1..n})
  <2>1. rest \in [1..n -> {rest[k] : k \in 1..n}]
    OBVIOUS
  <2> QED
    BY <1>2, <2>1, SeqDef
<1> HIDE DEF rest
<1>9. /\ DOMAIN works' = 1..n + 1
      /\ \A k \in 1..n : works'[k] = rest[k]
      /\ works'[n + 1] = last
  <2> DEFINE T == {rest[k] : k \in 1..n} \union {last}
  <2>1. rest \in Seq(T) /\ last \in T
    BY <1>8
  <2> HIDE DEF T
  <2> QED
    BY <1>2, <1>7, <1>8, <2>1, AppendProperties
<1>10. ASSUME NEW k \in 1..n + 1
       PROVE  \E s \in family.shapes : Same(works'[k], Shaped(s, k))
  <2>1. CASE k = n + 1
    BY <1>5, <1>9, <2>1
  <2>2. CASE k \in 1..n
    <3>1. PICK s \in family.shapes : Same(works[k], Shaped(s, k))
      BY <1>2, <2>2 DEF ShapesInv
    <3> QED
      BY <1>6, <1>9, <2>2, <3>1
  <2> QED
    BY <1>2, <2>1, <2>2
<1> QED
  BY <1>2, <1>9, <1>10 DEF ShapesInv

\* So is ShapesInv an invariant.
LEMMA ShapesInductive == RulesSpec => [](RulesInv /\ ShapesInv)
<1>1. RulesInit => ShapesInv
  BY DEF RulesInit, ShapesInv
<1>2. RulesInv /\ ShapesInv /\ [RulesNext]_<<family, works, merged>> => ShapesInv'
  <2>1. ASSUME ShapesInv, UNCHANGED <<family, works, merged>> PROVE ShapesInv'
    BY <2>1 DEF ShapesInv
  <2> QED
    BY <2>1, RulesKeepShapes
<1> QED
  BY <1>1, <1>2, RulesInductive, PTL DEF RulesSpec

\* Which works have which items.
LEMMA ShapedHas ==
    ASSUME NEW shape \in Shapes, NEW k, NEW w, w = Shaped(shape, k)
    PROVE  /\ \A i \in w.items : \A l \in i.locations : l.from = k
           /\ w.source = "mets" => w.items = {Digital(k, "iiif")} /\ w.status = "invisible"
           /\ w.source = "ebsco" => shape = "ebsco"
<1> DEFINE Fine(v) ==
        /\ \A i \in v.items : \A l \in i.locations : l.from = k
        /\ v.source = "mets" => v.items = {Digital(k, "iiif")} /\ v.status = "invisible"
        /\ v.source = "ebsco" => shape = "ebsco"
<1>1. \A n, kind, identified : \A l \in Located(k, n, kind, identified).locations : l.from = k
  BY DEF Located
<1>2. \A kind, n : /\ \A l \in Physical(k, n).locations : l.from = k
                   /\ \A l \in Digital(k, kind).locations : l.from = k
  BY <1>1 DEF Physical, Digital
<1>3. \A source, status, items, format :
          LET v == Work(k, source, status, items, format)
          IN  v.source = source /\ v.status = status /\ v.items = items
  BY DEF Work
<1>4. \A source, status, items, format, x :
          LET v == Work(k, source, status, items, format)
          IN  /\ [v EXCEPT !.digmiro = x].source = source
              /\ [v EXCEPT !.digmiro = x].items = items
              /\ [v EXCEPT !.stubs = x].source = source
              /\ [v EXCEPT !.stubs = x].items = items
              /\ [v EXCEPT !.removed = x].source = source
              /\ [v EXCEPT !.removed = x].items = items
  BY DEF Work
<1>5. CASE shape \in {"bib", "copies", "ebib", "av", "avebib"}
  BY <1>2, <1>3, <1>5 DEF Shaped
<1>6. CASE shape \in {"picture", "digmiro"}
  BY <1>2, <1>3, <1>4, <1>6 DEF Shaped
<1>7. CASE shape \in {"mets", "miro", "ebsco"}
  BY <1>2, <1>3, <1>7 DEF Shaped
<1>9. CASE shape = "archive"
  <2> DEFINE item == Located(k, 1, "physical", FALSE)
  <2>1. w = Work(k, "archive", "visible", {item}, "archives")
    BY <1>9 DEF Shaped
  <2>2. \A l \in item.locations : l.from = k
    BY <1>1
  <2> HIDE DEF item
  <2>3. w.source = "archive" /\ w.items = {item}
    BY <1>3, <2>1
  <2> QED
    BY <2>2, <2>3
<1>10. CASE shape = "deleted"
  BY <1>3, <1>10 DEF Shaped
<1>8. CASE shape \in {"tei", "lostit"}
  BY <1>4, <1>8 DEF Shaped
<1> QED
  BY <1>5, <1>6, <1>7, <1>8, <1>9, <1>10 DEF Shapes

\* A document of a merge that has items is made by a group of it.
LEMMA DocumentsOfGroups ==
    ASSUME NEW W, NEW d
    PROVE  /\ \A g \in GroupsOf(W) : d \in MergeWorks(g).works => d \in Merge(W).works
           /\ d \in Merge(W).works /\ d.items # {} =>
                  \E g \in GroupsOf(W) : d \in MergeWorks(g).works
<1> DEFINE emitted == UNION {o.works : o \in {MergeWorks(g) : g \in GroupsOf(W)}}
<1>1. Merge(W).works = emitted \union DeletedInternalWorks(W, Ids(emitted))
  BY DEF Merge, GroupsOf
<1>2. d \in emitted <=> \E g \in GroupsOf(W) : d \in MergeWorks(g).works
  OBVIOUS
<1> HIDE DEF emitted
<1>3. \A id, w : DeletedChild(id, w).items = {}
  BY DocOf DEF DeletedChild
<1>4. d.items # {} => d \notin DeletedInternalWorks(W, Ids(emitted))
  BY <1>3, DeletedIs
<1> QED
  BY <1>1, <1>2, <1>4

\* A work of a family without EBSCO works.
LEMMA WorksHave ==
    ASSUME RulesInv, ShapesInv, NEW w \in ToSet(works)
    PROVE  /\ \A l \in LocationsIn(w.items) : l.from = w.id
           /\ w.source = "mets" => w.items = {Digital(w.id, "iiif")} /\ ~Deleted(w)
           /\ w.source = "ebsco" => "ebsco" \in family.shapes
<1>1. w.id \in DOMAIN works /\ works[w.id] = w
  BY GrownGroup
<1>2. PICK shape \in family.shapes : /\ w.source = Shaped(shape, w.id).source
                                     /\ w.status = Shaped(shape, w.id).status
                                     /\ w.items = Shaped(shape, w.id).items
  BY <1>1 DEF ShapesInv
<1>3. shape \in Shapes
  BY FamiliesAssumption DEF RulesInv
<1>4. /\ \A i \in w.items : \A l \in i.locations : l.from = w.id
      /\ w.source = "mets" => w.items = {Digital(w.id, "iiif")} /\ w.status = "invisible"
      /\ w.source = "ebsco" => shape = "ebsco"
  BY <1>2, <1>3, ShapedHas
<1> QED
  BY <1>2, <1>4 DEF LocationsIn, Deleted

\* EBSCO works are in none of the families.
NoEbscoWorks == \A f \in Families : "ebsco" \notin f.shapes

\* DigitisationIsKept, for any families without EBSCO works: a digitised work that
\* is redirected leaves its location on the target, and on no other document that
\* is not of an inner work.  An EBSCO target takes no items of METS works, so that
\* one that is redirected to it for its image leaves its location nowhere.
THEOREM DigitisationStays ==
    ASSUME NoEbscoWorks
    PROVE  RulesSpec => []DigitisationIsKept
<1>1. RulesInv /\ ShapesInv => DigitisationIsKept
  <2> SUFFICES ASSUME RulesInv, ShapesInv PROVE DigitisationIsKept
    OBVIOUS
  <2> DEFINE W == ToSet(works)
  <2>1. /\ IsGroup(W) /\ NoneIsRedirected(W) /\ W \subseteq AnyWork
        /\ \A w \in W : w.id \in DOMAIN works /\ works[w.id] = w
    <3>1. W \subseteq AnyWork
      BY DEF RulesInv, ToSet
    <3> QED
      BY <3>1, GrownGroup
  <2>2. merged = Merge(W)
    BY DEF RulesInv
  <2>3. \A w \in W : w.source # "ebsco"
    BY WorksHave DEF RulesInv, NoEbscoWorks
  <2>4. EveryWorkComesOutOnce
    BY ComesOutOnce
  <2>5. \A w \in W : /\ \A l \in LocationsIn(w.items) : l.from = w.id
                     /\ w.source = "mets" =>
                            w.items = {Digital(w.id, "iiif")} /\ ~Deleted(w)
    BY WorksHave
  <2> HIDE DEF W
  <2>6. ASSUME NEW d \in RedirectsOf(merged), works[d.id].source = "mets"
        PROVE  \A t \in merged.works : t.parent = t.id =>
                   (LocationsIn(works[d.id].items) \subseteq LocationsIn(t.items)
                        <=> t.id = d.target)
    <3>1. d \in merged.works /\ d.status = "redirected"
      BY DEF RedirectsOf
    <3>2. PICK g \in GroupsOf(W) : \E v, u \in g :
                   FindTarget(g) = {u} /\ d.id = v.id /\ d.target = u.id
      BY <2>1, <2>2, <3>1, RedirectsOfMerge
    <3>3. PICK v \in g, u \in g : FindTarget(g) = {u} /\ d.id = v.id /\ d.target = u.id
      BY <3>2
    <3>4. d.items = {}
      BY <2>1, <2>2, <3>1, RedirectsOfMerge
    <3>5. g \in SUBSET W /\ IsGroup(g)
      BY <2>1, GroupsArePartition
    <3>6. works[d.id] = v /\ v.source = "mets" /\ v.items = {Digital(v.id, "iiif")}
      BY <2>1, <2>5, <2>6, <3>3, <3>5
    <3>7. TeiTarget(u) \/ ArchiveStub(u) \/ Lms(u)
      BY <2>3, <3>3, <3>5, TargetIsOfAKind
    <3>8. u # v
      BY <3>6, <3>7 DEF TeiTarget, ArchiveStub, Lms
    <3>9. MetsItem(v)
      <4>1. Cardinality(v.items) = 1
        BY <3>6, FS_Singleton
      <4>2. \A l \in Digital(v.id, "iiif").locations : l.kind \in DigitalKinds
        BY DEF Digital, Located, DigitalKinds
      <4> QED
        BY <3>6, <4>1, <4>2 DEF MetsItem, SingleItem, AllLocations
    <3> DEFINE S == {w \in g \ {u} : ~Deleted(w)}
               l == [kind |-> "iiif", from |-> v.id, nth |-> 1]
    <3>10. v \in S
      BY <2>5, <3>5, <3>6, <3>8
    <3>11. l \in LocationsIn(v.items)
      BY <3>6 DEF LocationsIn, Digital, Located
    <3>17. S = {w \in g \ {u} : ~Deleted(w)}
      OBVIOUS
    <3> HIDE DEF S
    <3>18. IsGroup(g) /\ u \in g /\ FindTarget(g) = {u} /\ v \in g /\ v # u
      BY <3>3, <3>5, <3>8
    <3>12. PICK x \in MergeWorks(g).works :
               x.id = u.id /\ x.status = "visible" /\ x.items = MergedItems(u, S)
      BY <3>17, <3>18, TargetHasMerged, SMTT(60)
    <3>13. x \in merged.works
      BY <2>2, DocumentsOfGroups
    <3>14. LocationsIn(v.items) \subseteq LocationsIn(x.items)
      BY <2>1, <3>5, <3>7, <3>9, <3>10, <3>12, MetsAreTaken
    <3>15. ASSUME NEW t \in merged.works, t.id = d.target PROVE t = x
      BY <2>4, <3>3, <3>12, <3>13, <3>15 DEF EveryWorkComesOutOnce
    <3>16. ASSUME NEW t \in merged.works, t.parent = t.id, l \in LocationsIn(t.items)
           PROVE  t.id = d.target
      <4>1. t.items # {}
        BY <3>16 DEF LocationsIn
      <4>2. PICK h \in GroupsOf(W) : t \in MergeWorks(h).works
        BY <2>2, <4>1, DocumentsOfGroups
      <4>3. h \in SUBSET W /\ IsGroup(h)
        BY <2>1, GroupsArePartition
      <4>4. PICK w \in h : /\ l \in LocationsIn(w.items)
                           /\ \/ w.id = t.id
                              \/ \E y \in h : FindTarget(h) = {y} /\ y.id = t.id
        BY <2>1, <3>16, <4>2, <4>3, LocationsInGroup
      <4>5. w.id = v.id
        <5>1. l.from = v.id
          OBVIOUS
        <5> QED
          BY <2>5, <4>3, <4>4, <5>1
      <4>6. w = v /\ h = g
        BY <2>1, <3>3, <3>5, <4>3, <4>4, <4>5, GroupsArePartition DEF IsGroup, IsPartition
      <4>7. w.id # t.id
        <5> SUFFICES ASSUME w.id = t.id PROVE FALSE
          OBVIOUS
        <5>1. t = d
          BY <2>4, <3>1, <3>3, <4>5 DEF EveryWorkComesOutOnce
        <5> QED
          BY <3>4, <4>1, <5>1
      <4> QED
        BY <3>3, <4>4, <4>6, <4>7
    <3> QED
      BY <3>6, <3>11, <3>14, <3>15, <3>16
  <2> QED
    BY <2>6 DEF DigitisationIsKept, LocationsOf, LocationsIn
<1> QED
  BY <1>1, ShapesInductive, PTL

----------------------------------------------------------------------------
(***************************************************************************)
(* Orders of groups, and the documents of one merge.                       *)
(***************************************************************************)

\* An order of a finite set has all of it.
LEMMA OrderHasAll ==
    ASSUME NEW S, IsFiniteSet(S), NEW f \in SetToSeqs(S)
    PROVE  ToSet(f) = S
<1> DEFINE n == Cardinality(S)
<1>1. /\ f \in [1..n -> S]
      /\ \A i, j \in 1..n : i # j => f[i] # f[j]
  BY DEF SetToSeqs
<1>2. n \in Nat /\ IsFiniteSet(1..n) /\ Cardinality(1..n) = n
  BY FS_CardinalityType, FS_Interval
<1> HIDE DEF n
<1>3. ToSet(f) = {f[i] : i \in 1..n}
  BY <1>1 DEF ToSet
<1>4. f \in Surjection(1..n, ToSet(f)) /\ f \in Injection(1..n, ToSet(f))
  BY <1>1, <1>3 DEF Surjection, Injection, IsInjective
<1>5. Cardinality(ToSet(f)) = n
  BY <1>2, <1>4, FS_Surjection
<1>6. ToSet(f) \subseteq S
  BY <1>1, <1>3
<1> QED
  BY <1>5, <1>6, FS_Subset DEF n

\* A set of ids that can be published together.
Together(ids) == \E s \in Scenarios : ids \subseteq s.works

LEMMA TogetherOrder ==
    ASSUME NEW ids, Together(ids), NEW f \in SetToSeqs(ids)
    PROVE  /\ ToSet(f) = ids
           /\ ids \subseteq Works
           /\ IsFiniteSet(ids)
           /\ \A k \in DOMAIN f : f[k] \in ids
           /\ \A w \in ids : \E k \in DOMAIN f : f[k] = w
<1>1. ids \subseteq Works /\ IsFiniteSet(ids)
  BY MergerAssumption, FS_Subset DEF Together
<1>2. ToSet(f) = ids
  BY <1>1, OrderHasAll
<1> QED
  BY <1>1, <1>2 DEF ToSet

\* The contents that works have had are among those that Merged knows.
LEMMA MergedKnows ==
    ASSUME NEW ids, Together(ids), ids # {}, NEW f \in SetToSeqs(ids),
           NEW r, \A w \in ids : r[w] \in DOMAIN Contents[w]
    PROVE  WorksAt(f, r) \in DOMAIN Merged
<1> DEFINE rev == [w \in ids |-> r[w]]
           revs == {q \in [ids -> UNION {DOMAIN Contents[w] : w \in ids}] :
                       \A w \in ids : q[w] \in DOMAIN Contents[w]}
           all == {WorksAt(order, q) : order \in SetToSeqs(ids), q \in revs}
<1>1. rev \in revs
  OBVIOUS
<1>2. WorksAt(f, rev) = WorksAt(f, r)
  BY TogetherOrder DEF WorksAt
<1>3. WorksAt(f, r) \in all
  BY <1>1, <1>2
<1>4. ids \in (UNION {SUBSET s.works : s \in Scenarios}) \ {{}}
  BY DEF Together
<1> HIDE DEF rev
<1> QED
  BY <1>3, <1>4 DEF Merged

\* The ids of the documents of a group.
OwnIds(ids) == UNION {PartsOf(w) : w \in ids}

\* Groups that can be published together and share an id share a work.
LEMMA OwnIdsAreOwn ==
    ASSUME NEW A, NEW B, Together(A \union B),
           OwnIds(A) \intersect OwnIds(B) # {}
    PROVE  A \intersect B # {}
BY MergerAssumption DEF OwnIds, Together

\* The documents of an outcome differ from time to time in their versions only.
LEMMA DocumentsAtTimes ==
    ASSUME NEW outcome, NEW t, NEW u, NEW d \in Documents(outcome, t)
    PROVE  /\ d = [kind |-> d.kind, id |-> d.id, version |-> t, doc |-> d.doc]
           /\ d.version = t
           /\ [kind |-> d.kind, id |-> d.id, version |-> u, doc |-> d.doc]
                  \in Documents(outcome, u)
<1>1. ASSUME NEW w \in outcome.works, d = Document("work", w.id, t, w)
      PROVE  /\ d = [kind |-> d.kind, id |-> d.id, version |-> t, doc |-> d.doc]
             /\ d.version = t
             /\ [kind |-> d.kind, id |-> d.id, version |-> u, doc |-> d.doc]
                    = Document("work", w.id, u, w)
  BY <1>1 DEF Document
<1>2. ASSUME NEW i \in outcome.images, d = Document("image", i.image, t, i)
      PROVE  /\ d = [kind |-> d.kind, id |-> d.id, version |-> t, doc |-> d.doc]
             /\ d.version = t
             /\ [kind |-> d.kind, id |-> d.id, version |-> u, doc |-> d.doc]
                    = Document("image", i.image, u, i)
  BY <1>2 DEF Document
<1>3. \A v : /\ \A w \in outcome.works :
                   Document("work", w.id, v, w) \in Documents(outcome, v)
             /\ \A i \in outcome.images :
                   Document("image", i.image, v, i) \in Documents(outcome, v)
  BY DEF Documents
<1>4. \/ \E w \in outcome.works : d = Document("work", w.id, t, w)
      \/ \E i \in outcome.images : d = Document("image", i.image, t, i)
  BY DEF Documents
<1> QED
  BY <1>1, <1>2, <1>3, <1>4

\* No work has a part of another, or a part that it has lost.
PartsAreApart(W) ==
    /\ IsGroup(W) /\ WorksAreNoParts(W)
    /\ \A w \in W : /\ w.stubs \union w.removed \subseteq PartsOf(w.id)
                    /\ w.stubs \intersect w.removed = {}
    /\ \A v, w \in W : PartsOf(v.id) \intersect PartsOf(w.id) # {} => v = w

\* The works of a group are one for each of its ids, and have their own parts.
LEMMA WorksOfGroup ==
    ASSUME NEW ids, Together(ids), NEW f \in SetToSeqs(ids),
           NEW r, \A w \in ids : r[w] \in DOMAIN Contents[w],
           NEW W, W = WorksAt(f, r)
    PROVE  /\ PartsAreApart(W)
           /\ \A w \in W : w.id \in ids
           /\ \A i \in ids : \E w \in W :
                  w.id = i /\ LostParts(w) = LostParts(Contents[i][r[i]])
<1> DEFINE n == Cardinality(ids)
           at == [k \in 1..n |-> [Contents[f[k]][r[f[k]]] EXCEPT !.place = k]]
<1>1. /\ n \in Nat /\ f \in [1..n -> ids]
      /\ \A j, k \in 1..n : j # k => f[j] # f[k]
      /\ \A i \in ids : \E k \in 1..n : f[k] = i
      /\ ids \subseteq Works
  <2>1. /\ ids \subseteq Works /\ IsFiniteSet(ids)
        /\ \A i \in ids : \E k \in DOMAIN f : f[k] = i
    BY TogetherOrder
  <2>2. /\ f \in [1..n -> ids] /\ DOMAIN f = 1..n
        /\ \A j, k \in 1..n : j # k => f[j] # f[k]
    BY DEF SetToSeqs
  <2>3. n \in Nat
    BY <2>1, FS_CardinalityType
  <2> QED
    BY <2>1, <2>2, <2>3
<1>2. W = {at[k] : k \in 1..n}
  BY <1>1 DEF WorksAt
<1>3. ASSUME NEW k \in 1..n
      PROVE  LET c == Contents[f[k]][r[f[k]]]
             IN  /\ f[k] \in ids
                 /\ at[k].id = f[k] /\ at[k].place = k
                 /\ at[k].status = c.status
                 /\ at[k].stubs = c.stubs /\ at[k].removed = c.removed
                 /\ f[k] \notin c.stubs \union c.removed
                 /\ c.stubs \intersect c.removed = {}
                 /\ c.stubs \union c.removed \subseteq PartsOf(f[k])
  <2> DEFINE c == Contents[f[k]][r[f[k]]]
  <2>1. f[k] \in ids /\ f[k] \in Works /\ r[f[k]] \in DOMAIN Contents[f[k]]
    BY <1>1
  <2>2. c \in ToSet(Contents[f[k]])
    BY <2>1 DEF ToSet
  <2>3. /\ {"id", "place", "status", "stubs", "removed"} \subseteq DOMAIN c
        /\ c.id = f[k]
        /\ f[k] \notin c.stubs \union c.removed
        /\ c.stubs \intersect c.removed = {}
    BY <2>1, <2>2, ContentsAssumption
  <2>4. c.stubs \union c.removed \subseteq PartsOf(f[k])
    BY <2>1 DEF PartsOf
  <2>5. at[k] = [c EXCEPT !.place = k]
    OBVIOUS
  <2> HIDE DEF c, at
  <2>6. /\ at[k].id = c.id /\ at[k].place = k /\ at[k].status = c.status
        /\ at[k].stubs = c.stubs /\ at[k].removed = c.removed
    BY <2>3, <2>5
  <2> QED
    BY <2>1, <2>3, <2>4, <2>6 DEF c
<1> HIDE DEF n, at
<1>4. \A w \in W : \E k \in 1..n : w = at[k] /\ f[k] = w.id /\ w.place = k
  BY <1>2, <1>3
<1>5. \A v, w \in W : v.id = w.id \/ v.place = w.place => v = w
  BY <1>1, <1>4
<1>6. \A w \in W : /\ w.id \in ids
                   /\ w.stubs \union w.removed \subseteq PartsOf(w.id)
                   /\ w.stubs \intersect w.removed = {}
                   /\ w.id \notin w.stubs \union w.removed
  BY <1>3, <1>4
<1>7. IsGroup(W)
  <2>1. IsFiniteSet(1..n)
    BY <1>1, FS_Interval
  <2>2. at \in Surjection(1..n, W)
    BY <1>2 DEF Surjection, at
  <2>3. IsFiniteSet(W)
    BY <2>1, <2>2, FS_Surjection
  <2>4. \A w \in W : w.place \in Nat
    BY <1>1, <1>4
  <2> QED
    BY <1>5, <2>3, <2>4 DEF IsGroup
<1>8. \A v, w \in W : PartsOf(v.id) \intersect PartsOf(w.id) # {} => v = w
  BY <1>5, <1>6, MergerAssumption DEF Together
<1>9. WorksAreNoParts(W)
  <2> SUFFICES ASSUME NEW v \in W, NEW w \in W
               PROVE  v.id \notin w.stubs \union w.removed
    BY DEF WorksAreNoParts
  <2>1. v.id \in PartsOf(v.id)
    BY DEF PartsOf
  <2>2. v.id \in w.stubs \union w.removed => v = w
    BY <1>6, <1>8, <2>1
  <2> QED
    BY <1>6, <2>2
<1>10. ASSUME NEW i \in ids
       PROVE  \E w \in W : w.id = i /\ LostParts(w) = LostParts(Contents[i][r[i]])
  <2>1. PICK k \in 1..n : f[k] = i
    BY <1>1
  <2>2. at[k] \in W
    BY <1>2
  <2> QED
    BY <1>3, <2>1, <2>2 DEF LostParts, Deleted
<1>11. PartsAreApart(W)
  BY <1>6, <1>7, <1>8, <1>9 DEF PartsAreApart
<1> QED
  BY <1>6, <1>10, <1>11

\* What the merger relies on when it merges groups apart: a merge makes documents
\* of its own works and their parts only, one for an id, and deletes what is lost.
LEMMA OutcomeOfGroup ==
    ASSUME NEW W, PartsAreApart(W)
    PROVE  /\ \A d \in Merge(W).works : \E w \in W : d.id \in PartsOf(w.id)
           /\ \A d, e \in Merge(W).works : d.id = e.id => d = e
           /\ \A i \in Merge(W).images : \E w \in W : i.image \in PartsOf(w.id)
           /\ \A i, j \in Merge(W).images : i.image = j.image => i = j
           /\ \A w \in W : \A id \in LostParts(w) : \E d \in Merge(W).works :
                  d.id = id /\ d.status # "visible"
<1>1. PICK o : /\ IsOutcome(o, W)
               /\ Merge(W).works = o.works \union DeletedInternalWorks(W, Ids(o.works))
               /\ Merge(W).images = o.images
  BY MergeIsOutcome DEF PartsAreApart
<1>2. \A w \in W : w.id \in PartsOf(w.id)
  BY DEF PartsOf
<1>3. \A w \in W : LostParts(w) \subseteq PartsOf(w.id)
  BY DEF LostParts, PartsAreApart
<1>4. ASSUME NEW d \in o.works
      PROVE  \E w \in W : /\ d.parent = w.id /\ d.id \in PartsOf(w.id)
                          /\ d.id = w.id \/ (Visible(w) /\ d.id \in w.stubs)
  BY <1>1, <1>2 DEF IsOutcome, PartsAreApart
<1>5. ASSUME NEW d \in Merge(W).works \ o.works
      PROVE  \E w \in W : \E id \in LostParts(w) :
                 id \notin Ids(o.works) /\ d = DeletedChild(id, w) /\ d.id = id
  BY <1>1, DeletedIs, DeletedChildIs
<1>6. ASSUME NEW d \in o.works, NEW e \in o.works, d.id = e.id PROVE d = e
  <2>1. PICK v \in W : d.parent = v.id /\ d.id \in PartsOf(v.id)
    BY <1>4
  <2>2. PICK w \in W : e.parent = w.id /\ e.id \in PartsOf(w.id)
    BY <1>4
  <2>3. v = w
    BY <1>6, <2>1, <2>2 DEF PartsAreApart
  <2> QED
    BY <1>1, <1>6, <2>1, <2>2, <2>3 DEF IsOutcome
<1>7. ASSUME NEW d \in Merge(W).works \ o.works, NEW e \in Merge(W).works \ o.works,
             d.id = e.id
      PROVE  d = e
  <2>1. PICK v \in W : d.id \in LostParts(v) /\ d = DeletedChild(d.id, v)
    BY <1>5
  <2>2. PICK w \in W : e.id \in LostParts(w) /\ e = DeletedChild(e.id, w)
    BY <1>5
  <2>3. v = w
    BY <1>3, <1>7, <2>1, <2>2 DEF PartsAreApart
  <2> QED
    BY <1>7, <2>1, <2>2, <2>3
<1>8. ASSUME NEW d \in o.works, NEW e \in Merge(W).works \ o.works PROVE d.id # e.id
  BY <1>5 DEF Ids
<1>9. \A d, e \in Merge(W).works : d.id = e.id => d = e
  BY <1>6, <1>7, <1>8
<1>10. \A d \in Merge(W).works : \E w \in W : d.id \in PartsOf(w.id)
  BY <1>3, <1>4, <1>5
<1>11. /\ \A i \in Merge(W).images : \E w \in W : i.image \in PartsOf(w.id)
       /\ \A i, j \in Merge(W).images : i.image = j.image => i = j
  BY <1>1, <1>2 DEF IsOutcome, Ids
<1>12. ASSUME NEW w \in W, NEW id \in LostParts(w)
       PROVE  \E d \in Merge(W).works : d.id = id /\ d.status # "visible"
  <2>1. id \notin Ids(o.works)
    <3> SUFFICES ASSUME NEW d \in o.works, d.id = id PROVE FALSE
      BY DEF Ids
    <3>1. PICK v \in W : /\ d.id \in PartsOf(v.id)
                         /\ d.id = v.id \/ (Visible(v) /\ d.id \in v.stubs)
      BY <1>4
    <3>2. v = w
      BY <1>3, <3>1 DEF PartsAreApart
    <3> QED
      BY <3>1, <3>2 DEF LostParts, Deleted, Visible, WorksAreNoParts, PartsAreApart
  <2>2. DeletedChild(id, w) \in Merge(W).works
    BY <1>1, <2>1, DeletedIs
  <2> QED
    BY <2>2, DeletedChildIs
<1> QED
  BY <1>9, <1>10, <1>11, <1>12

\* For every part that these works have lost there is a document that says so.
LostArePut(ids, r, docs) ==
    \A i \in ids : \A part \in LostParts(Contents[i][r[i]]) : \E d \in docs :
        d.kind = "work" /\ d.id = part /\ d.doc.status # "visible"

\* The documents of a merge are of its time, one for an id of the group.
LEMMA DocumentsOfMerge ==
    ASSUME NEW ids, Together(ids), ids # {}, NEW f \in SetToSeqs(ids),
           NEW r, \A w \in ids : r[w] \in DOMAIN Contents[w],
           NEW t, NEW docs, docs = Documents(Merged[WorksAt(f, r)], t)
    PROVE  /\ \A d \in docs : d.version = t /\ d.id \in OwnIds(ids)
           /\ \A d, e \in docs : SameKey(d, e) => d = e
           /\ LostArePut(ids, r, docs)
<1>1. PICK W : W = WorksAt(f, r)
  OBVIOUS
<1>2. PICK o : o = Merge(W)
  OBVIOUS
<1>3. Merged[W] = o
  <2>1. W \in DOMAIN Merged
    BY <1>1, MergedKnows
  <2> QED
    BY <1>2, <2>1 DEF Merged
<1>4. /\ PartsAreApart(W)
      /\ \A w \in W : w.id \in ids
      /\ \A i \in ids : \E w \in W :
             w.id = i /\ LostParts(w) = LostParts(Contents[i][r[i]])
  BY <1>1, WorksOfGroup
<1>5. /\ \A d \in o.works : \E w \in W : d.id \in PartsOf(w.id)
      /\ \A d, e \in o.works : d.id = e.id => d = e
      /\ \A i \in o.images : \E w \in W : i.image \in PartsOf(w.id)
      /\ \A i, j \in o.images : i.image = j.image => i = j
      /\ \A w \in W : \A id \in LostParts(w) : \E d \in o.works :
             d.id = id /\ d.status # "visible"
  BY <1>2, <1>4, OutcomeOfGroup
<1>6. docs = {Document("work", d.id, t, d) : d \in o.works}
                 \union {Document("image", i.image, t, i) : i \in o.images}
  BY <1>1, <1>3 DEF Documents
<1>7. \A kind, id, doc : LET d == Document(kind, id, t, doc)
                         IN  d.kind = kind /\ d.id = id /\ d.version = t /\ d.doc = doc
  BY DEF Document
<1>8. ASSUME NEW d \in docs PROVE d.version = t /\ d.id \in OwnIds(ids)
  BY <1>4, <1>5, <1>6, <1>7 DEF OwnIds
<1>9. ASSUME NEW d \in docs, NEW e \in docs, SameKey(d, e) PROVE d = e
  <2>1. CASE d.kind = "work"
    <3>1. PICK v \in o.works : d = Document("work", v.id, t, v)
      BY <1>6, <1>7, <2>1
    <3>2. PICK w \in o.works : e = Document("work", w.id, t, w)
      <4>1. e.kind = "work"
        BY <1>9, <2>1 DEF SameKey
      <4> QED
        BY <1>6, <1>7, <4>1
    <3> QED
      BY <1>5, <1>7, <1>9, <3>1, <3>2 DEF SameKey
  <2>2. CASE d.kind # "work"
    <3>1. PICK i \in o.images : d = Document("image", i.image, t, i)
      BY <1>6, <1>7, <2>2
    <3>2. PICK j \in o.images : e = Document("image", j.image, t, j)
      BY <1>6, <1>7, <1>9, <2>2 DEF SameKey
    <3> QED
      BY <1>5, <1>7, <1>9, <3>1, <3>2 DEF SameKey
  <2> QED
    BY <2>1, <2>2
<1>10. ASSUME NEW i \in ids, NEW part \in LostParts(Contents[i][r[i]])
      PROVE  \E d \in docs : d.kind = "work" /\ d.id = part /\ d.doc.status # "visible"
  <2>1. PICK w \in W : LostParts(w) = LostParts(Contents[i][r[i]])
    BY <1>4
  <2>2. PICK d \in o.works : d.id = part /\ d.status # "visible"
    BY <1>5, <2>1
  <2> QED
    BY <1>6, <1>7, <2>2
<1> QED
  BY <1>8, <1>9, <1>10 DEF LostArePut

----------------------------------------------------------------------------
(***************************************************************************)
(* The groups of the graph: apart from each other, and, after an update,   *)
(* those of the update or old ones that it has nothing to do with.         *)
(***************************************************************************)

\* Each row that has been seen is in its own component, and the rows of its
\* component are in its subgraph.
ComponentsInSubgraphs(table) ==
    \A n \in WithSource(table) :
        /\ n.id \in n.componentIds
        /\ \A c \in n.componentIds : \E m \in table :
               m.id = c /\ m.subgraphId = n.subgraphId

\* The rows of an update have their ids in their components, which have ids of
\* the update only.
LEMMA ComponentsOfRows ==
    ASSUME NEW table \in SUBSET WorkNode, Keyed(table), LinksClosed(table),
           NEW w \in Works, NEW stub \in WorkStub,
           NEW new, NEW before, NEW sources, NEW ids, NEW after,
           UpdateOf(table, new, w, stub, before, sources, ids, after),
           NEW n \in after
    PROVE  /\ n.id \in n.componentIds
           /\ n.componentIds \subseteq ids
           /\ n.subgraphId = ids
<1>1. before \in SUBSET WorkNode /\ Keyed(before)
  BY WritesOfUpdate
<1>2. /\ n.id \in ids
      /\ n.subgraphId = ids
      /\ n.componentIds = Component(n.id, ids, UnsuppressedLinks(sources))
      /\ \A s \in sources : s.id \in ids /\ s.sourceWork.mergeCandidateIds \subseteq ids
  BY <1>1, RowsOfUpdate DEF UpdateOf
<1>3. \A l \in UnsuppressedLinks(sources) : l[1] \in ids /\ l[2] \in ids
  BY <1>2 DEF UnsuppressedLinks
<1> QED
  BY <1>2, <1>3, ComponentIsConnected

LEMMA ComponentsOfUpdate ==
    ASSUME NEW table \in SUBSET WorkNode, Keyed(table), LinksClosed(table),
           ComponentsInSubgraphs(table),
           NEW w \in Works, NEW stub \in WorkStub,
           NEW new, NEW before, NEW sources, NEW ids, NEW after,
           UpdateOf(table, new, w, stub, before, sources, ids, after)
    PROVE  ComponentsInSubgraphs(new)
<1> SUFFICES ASSUME NEW n \in WithSource(new)
             PROVE  /\ n.id \in n.componentIds
                    /\ \A c \in n.componentIds : \E m \in new :
                           m.id = c /\ m.subgraphId = n.subgraphId
  BY DEF ComponentsInSubgraphs
<1>1. /\ before \in SUBSET WorkNode /\ Keyed(before)
      /\ after \subseteq new
      /\ \A m \in new : m.id \in ids => m \in after
      /\ \A m \in new : m.id \notin ids => m \in table
      /\ \A m \in WithSource(before) : m.id \in ids
  BY WritesOfUpdate
<1>2. CASE n \in after
  <2>1. /\ n.id \in n.componentIds
        /\ n.componentIds \subseteq ids
        /\ n.subgraphId = ids
    BY <1>2, ComponentsOfRows
  <2>2. \A i \in ids : \E m \in after : m.id = i /\ m.subgraphId = ids
    BY <1>1, RowsOfUpdate DEF UpdateOf
  <2> QED
    BY <1>1, <2>1, <2>2
<1>3. CASE n \notin after
  <2>1. n \in WithSource(table) /\ n \in table \ before
    BY <1>1, <1>3 DEF WithSource
  <2>2. /\ n.id \in n.componentIds
        /\ \A c \in n.componentIds : \E m \in table :
               m.id = c /\ m.subgraphId = n.subgraphId
    BY <2>1 DEF ComponentsInSubgraphs
  <2>3. \A m \in table : m.subgraphId = n.subgraphId => m \in new
    BY <2>1, UnreadByUpdate
  <2> QED
    BY <2>2, <2>3
<1> QED
  BY <1>2, <1>3

\* The ids of a group are those of rows with one component.
LEMMA IdsOfGroup ==
    ASSUME NEW table, NEW group \in MatchedIdentifiers(table)
    PROVE  /\ IdsOf(group) # {}
           /\ \E c : /\ group = WorkIdentifiers({n \in table : n.componentIds = c})
                     /\ \A i \in IdsOf(group) : \E n \in WithSource(table) :
                            n.id = i /\ n.componentIds = c
BY DEF MatchedIdentifiers, IdsOf, WorkIdentifiers, WithSource

LEMMA GroupsAreApart ==
    ASSUME NEW table, Keyed(table),
           NEW g \in MatchedIdentifiers(table), NEW h \in MatchedIdentifiers(table),
           IdsOf(g) \intersect IdsOf(h) # {}
    PROVE  g = h
<1>1. PICK c : /\ g = WorkIdentifiers({n \in table : n.componentIds = c})
               /\ \A i \in IdsOf(g) : \E n \in WithSource(table) :
                      n.id = i /\ n.componentIds = c
  BY IdsOfGroup
<1>2. PICK d : /\ h = WorkIdentifiers({n \in table : n.componentIds = d})
               /\ \A i \in IdsOf(h) : \E n \in WithSource(table) :
                      n.id = i /\ n.componentIds = d
  BY IdsOfGroup
<1>3. c = d
  BY <1>1, <1>2 DEF Keyed, WithSource
<1> QED
  BY <1>1, <1>2, <1>3

\* Every work that has been seen is in a group.
LEMMA SeenWorksAreInGroups ==
    ASSUME NEW table, NEW n \in WithSource(table)
    PROVE  \E g \in MatchedIdentifiers(table) : n.id \in IdsOf(g)
<1> DEFINE g == WorkIdentifiers({m \in table : m.componentIds = n.componentIds})
<1>1. <<n.id, n.sourceWork.version>> \in g
  BY DEF WorkIdentifiers, WithSource
<1>2. g \in MatchedIdentifiers(table) /\ n.id \in IdsOf(g)
  <2>1. n \in table
    BY DEF WithSource
  <2>2. g \in {WorkIdentifiers({m \in table : m.componentIds = c}) :
                   c \in {m.componentIds : m \in table}}
    BY <2>1
  <2> HIDE DEF g
  <2>3. <<n.id, n.sourceWork.version>>[1] \in {i[1] : i \in g}
    BY <1>1
  <2>4. n.id \in {i[1] : i \in g} /\ g # {}
    BY <1>1, <2>3
  <2> QED
    BY <2>2, <2>4 DEF MatchedIdentifiers, IdsOf
<1> QED
  BY <1>2

LEMMA GroupsOfUpdate ==
    ASSUME NEW table \in SUBSET WorkNode, Keyed(table), LinksClosed(table),
           ComponentsInSubgraphs(table),
           NEW w \in Works, NEW stub \in WorkStub,
           NEW new, NEW before, NEW sources, NEW ids, NEW after,
           UpdateOf(table, new, w, stub, before, sources, ids, after),
           NEW g \in MatchedIdentifiers(new)
    PROVE  \/ g \in MatchedIdentifiers(after)
           \/ g \in MatchedIdentifiers(table) /\ IdsOf(g) \intersect ids = {}
<1>1. PICK c : /\ g = WorkIdentifiers({n \in new : n.componentIds = c})
               /\ \A i \in IdsOf(g) : \E n \in WithSource(new) :
                      n.id = i /\ n.componentIds = c
  BY IdsOfGroup
<1>2. /\ after \subseteq new
      /\ \A m \in new : m.id \in ids => m \in after
      /\ \A m \in new : m.id \notin ids => m \in table
      /\ \A m \in table : m.id \notin ids => m \in new
      /\ \A m \in WithSource(before) : m.id \in ids
      /\ \A m \in table : m.id \in ids => m \in before
      /\ \A n \in before, m \in table : m.subgraphId = n.subgraphId => m \in before
  BY WritesOfUpdate
<1>3. ComponentsInSubgraphs(new)
  BY ComponentsOfUpdate
<1>4. IdsOf(g) # {} /\ g # {}
  BY IdsOfGroup DEF IdsOf
<1>5. PICK n2 \in WithSource(new) : n2.componentIds = c
  BY <1>1, <1>4
<1>6. CASE \E a \in WithSource(after) : a.componentIds = c
  <2>1. c \subseteq ids
    BY <1>6, ComponentsOfRows DEF WithSource
  <2>2. \A n \in WithSource(new) : n.componentIds = c => n \in after
    BY <1>2, <1>3, <2>1 DEF ComponentsInSubgraphs, WithSource
  <2>3. WithSource({n \in new : n.componentIds = c})
            = WithSource({n \in after : n.componentIds = c})
    BY <1>2, <2>2 DEF WithSource
  <2>4. g = WorkIdentifiers({n \in after : n.componentIds = c})
    BY <1>1, <2>3 DEF WorkIdentifiers
  <2>5. c \in {n.componentIds : n \in after}
    BY <1>6 DEF WithSource
  <2> QED
    BY <1>4, <2>4, <2>5 DEF MatchedIdentifiers
<1>7. CASE \A a \in WithSource(after) : a.componentIds # c
  <2>1. \A n \in WithSource(new) : n.componentIds = c =>
            n.id \notin ids /\ n \in WithSource(table)
    BY <1>2, <1>7 DEF WithSource
  <2>2. n2 \in WithSource(table) /\ n2.id \notin ids
    BY <1>5, <2>1
  <2>3. n2 \in table \ before
    BY <1>2, <2>2 DEF WithSource
  <2>4. ASSUME NEW n \in WithSource(table), n.componentIds = c, n.id \in ids
        PROVE  FALSE
    <3>1. n \in table /\ n.id \in c
      BY <2>4 DEF ComponentsInSubgraphs, WithSource
    <3>2. PICK m \in table : m.id = n.id /\ m.subgraphId = n2.subgraphId
      BY <1>5, <2>2, <3>1 DEF ComponentsInSubgraphs
    <3>3. m = n
      BY <3>1, <3>2 DEF Keyed
    <3> QED
      BY <1>2, <2>3, <2>4, <3>1, <3>2, <3>3
  <2>5. WithSource({n \in new : n.componentIds = c})
            = WithSource({n \in table : n.componentIds = c})
    BY <1>2, <2>1, <2>4 DEF WithSource
  <2>6. g = WorkIdentifiers({n \in table : n.componentIds = c})
    BY <1>1, <2>5 DEF WorkIdentifiers
  <2>7. c \in {n.componentIds : n \in table}
    BY <1>5, <2>3
  <2>8. IdsOf(g) \intersect ids = {}
    BY <1>1, <2>1
  <2> QED
    BY <1>4, <2>6, <2>7, <2>8 DEF MatchedIdentifiers
<1> QED
  BY <1>6, <1>7

----------------------------------------------------------------------------
(***************************************************************************)
(* What the actions do to the lambdas.                                     *)
(***************************************************************************)

\* Every lambda has the fields that it starts with.
With(batch, toFetch, docs, toIndex, refused, unmerged) ==
    [batch |-> batch, toFetch |-> toFetch, docs |-> docs, toIndex |-> toIndex,
     refused |-> refused, unmerged |-> unmerged]

Shape ==
    /\ lambda = [l \in Lambdas |-> lambda[l]]
    /\ \A l \in Lambdas :
           lambda[l] = With(lambda[l].batch, lambda[l].toFetch, lambda[l].docs,
                            lambda[l].toIndex, lambda[l].refused, lambda[l].unmerged)

\* Lambda l comes to have these fields, and the others stay as they are.
Becomes(l, batch, toFetch, docs, toIndex, refused, unmerged) ==
    /\ Shape'
    /\ \A k \in Lambdas \ {l} : lambda'[k] = lambda[k]
    /\ lambda'[l].batch = batch
    /\ lambda'[l].toFetch = toFetch
    /\ lambda'[l].docs = docs
    /\ lambda'[l].toIndex = toIndex
    /\ lambda'[l].refused = refused
    /\ lambda'[l].unmerged = unmerged

\* What no action of a lambda touches.
Published == {w \in Works : index[w] > 0}
MatcherVars == <<scenario, index, graph, unmatched, clock>>

LEMMA LambdaBecomes ==
    ASSUME Shape, NEW l \in Lambdas,
           NEW batch, NEW toFetch, NEW docs, NEW toIndex, NEW refused, NEW unmerged,
           lambda' = [lambda EXCEPT ![l] =
                         With(batch, toFetch, docs, toIndex, refused, unmerged)]
    PROVE  Becomes(l, batch, toFetch, docs, toIndex, refused, unmerged)
<1>1. lambda'[l] = With(batch, toFetch, docs, toIndex, refused, unmerged)
  BY DEF Shape
<1>2. \A k \in Lambdas \ {l} : lambda'[k] = lambda[k]
  BY DEF Shape
<1>3. lambda' = [k \in Lambdas |-> lambda'[k]]
  BY DEF Shape
<1>4. /\ lambda'[l].batch = batch /\ lambda'[l].toFetch = toFetch
      /\ lambda'[l].docs = docs /\ lambda'[l].toIndex = toIndex
      /\ lambda'[l].refused = refused /\ lambda'[l].unmerged = unmerged
  BY <1>1 DEF With
<1>5. ASSUME NEW k \in Lambdas
      PROVE  lambda'[k] = With(lambda'[k].batch, lambda'[k].toFetch, lambda'[k].docs,
                               lambda'[k].toIndex, lambda'[k].refused,
                               lambda'[k].unmerged)
  BY <1>1, <1>2, <1>4 DEF Shape
<1> QED
  BY <1>2, <1>3, <1>4, <1>5 DEF Becomes, Shape

LEMMA ReceiveBecomes ==
    ASSUME Shape, NEW l \in Lambdas, NEW batch, Receive(l, batch)
    PROVE  /\ Becomes(l, batch, UNION {{m.createdTime} \X m.works : m \in batch},
                      {}, {}, {}, {})
           /\ UNCHANGED MatcherVars
<1> DEFINE toFetch == UNION {{m.createdTime} \X m.works : m \in batch}
<1>1. IdleLambda = With({}, {}, {}, {}, {}, {})
  BY DEF IdleLambda, With
<1>2. lambda' = [lambda EXCEPT ![l] =
          [IdleLambda EXCEPT !.batch = batch, !.toFetch = toFetch]]
  BY DEF Receive
<1> HIDE DEF toFetch
<1>3. lambda' = [lambda EXCEPT ![l] = With(batch, toFetch, {}, {}, {}, {})]
  <2> DEFINE r1 == [IdleLambda EXCEPT !.batch = batch]
             r2 == [r1 EXCEPT !.toFetch = toFetch]
  <2>1. lambda' = [lambda EXCEPT ![l] = r2]
    BY <1>2
  <2>2. r1 = With(batch, {}, {}, {}, {}, {})
    BY <1>1 DEF With
  <2> HIDE DEF r1
  <2>3. r2 = With(batch, toFetch, {}, {}, {}, {})
    BY <2>2 DEF With
  <2> HIDE DEF r2
  <2> QED
    BY <2>1, <2>3
<1>4. Becomes(l, batch, toFetch, {}, {}, {}, {})
  BY <1>3, LambdaBecomes
<1> QED
  BY <1>4 DEF Receive, MatcherVars, toFetch

LEMMA EndBatchBecomes ==
    ASSUME Shape, NEW l \in Lambdas, lambda' = [lambda EXCEPT ![l] = IdleLambda]
    PROVE  Becomes(l, {}, {}, {}, {}, {}, {})
BY LambdaBecomes DEF IdleLambda, With

LEMMA FetchAndMergeBecomes ==
    ASSUME Shape, NEW l \in Lambdas, FetchAndMerge(l)
    PROVE  /\ \E f \in lambda[l].toFetch :
                  LET docs == Documents(Merged[WorksAt(f[2], index)], f[1])
                  IN  Becomes(l, lambda[l].batch, lambda[l].toFetch \ {f},
                              lambda[l].docs \union docs,
                              lambda[l].toIndex \union docs,
                              lambda[l].refused, lambda[l].unmerged)
           /\ UNCHANGED MatcherVars
           /\ UNCHANGED <<queue, stored, untold, unheard, faults>>
<1>1. PICK f \in lambda[l].toFetch :
          \E docs \in {Documents(Merged[WorksAt(f[2], index)], f[1])} :
              lambda' = [lambda EXCEPT ![l].toFetch = @ \ {f},
                                       ![l].docs = @ \union docs,
                                       ![l].toIndex = @ \union docs]
  BY DEF FetchAndMerge
<1> DEFINE new == Documents(Merged[WorksAt(f[2], index)], f[1])
           r == lambda[l]
           toFetch == r.toFetch \ {f}
           docs == r.docs \union new
           toIndex == r.toIndex \union new
<1> HIDE DEF new
<1>2. lambda' = [lambda EXCEPT ![l].toFetch = toFetch, ![l].docs = docs,
                               ![l].toIndex = toIndex]
  BY <1>1 DEF Shape, new
<1> HIDE DEF toFetch, docs, toIndex, r
<1> DEFINE r1 == [r EXCEPT !.toFetch = toFetch]
           r2 == [r1 EXCEPT !.docs = docs]
           r3 == [r2 EXCEPT !.toIndex = toIndex]
<1>3. lambda' = [lambda EXCEPT ![l] = r3]
  BY <1>2 DEF Shape, r
<1>4. r = With(r.batch, r.toFetch, r.docs, r.toIndex, r.refused, r.unmerged)
  BY DEF Shape, r
<1>5. r3 = With(r.batch, toFetch, docs, toIndex, r.refused, r.unmerged)
  <2>1. r1 = With(r.batch, toFetch, r.docs, r.toIndex, r.refused, r.unmerged)
    BY <1>4 DEF With
  <2> HIDE DEF r1
  <2>2. r2 = With(r.batch, toFetch, docs, r.toIndex, r.refused, r.unmerged)
    BY <2>1 DEF With
  <2> HIDE DEF r2
  <2> QED
    BY <2>2 DEF With
<1> HIDE DEF r3
<1>6. Becomes(l, r.batch, toFetch, docs, toIndex, r.refused, r.unmerged)
  BY <1>3, <1>5, LambdaBecomes
<1> QED
  BY <1>6 DEF r, toFetch, docs, toIndex, new, FetchAndMerge, MatcherVars

LEMMA IndexDocumentBecomes ==
    ASSUME Shape, NEW l \in Lambdas, IndexDocument(l)
    PROVE  /\ lambda[l].toFetch = {}
           /\ \E d \in lambda[l].toIndex :
                  /\ Becomes(l, lambda[l].batch, lambda[l].toFetch, lambda[l].docs,
                             lambda[l].toIndex \ {d}, lambda[l].refused,
                             lambda[l].unmerged)
                  /\ stored' = PutDocument(stored, d)
                  /\ untold' = IF d.kind = "image" /\ stored' # stored
                               THEN untold \union {d.id} ELSE untold
           /\ UNCHANGED MatcherVars
           /\ UNCHANGED <<queue, unheard, faults>>
<1>1. PICK d \in NextDocuments(l) :
          /\ stored' = PutDocument(stored, d)
          /\ untold' = IF d.kind = "image" /\ stored' # stored
                       THEN untold \union {d.id} ELSE untold
          /\ lambda' = [lambda EXCEPT ![l].toIndex = @ \ {d}]
  BY DEF IndexDocument
<1> DEFINE r == lambda[l]
           toIndex == r.toIndex \ {d}
<1> HIDE DEF r, toIndex
<1>2. lambda' = [lambda EXCEPT ![l] = [r EXCEPT !.toIndex = toIndex]]
  BY <1>1 DEF Shape, r, toIndex
<1>3. r = With(r.batch, r.toFetch, r.docs, r.toIndex, r.refused, r.unmerged)
  BY DEF Shape, r
<1>4. [r EXCEPT !.toIndex = toIndex]
          = With(r.batch, r.toFetch, r.docs, toIndex, r.refused, r.unmerged)
  BY <1>3 DEF With
<1>5. Becomes(l, r.batch, r.toFetch, r.docs, toIndex, r.refused, r.unmerged)
  BY <1>2, <1>4, LambdaBecomes
<1>6. d \in lambda[l].toIndex
  BY DEF NextDocuments
<1> QED
  BY <1>1, <1>5, <1>6 DEF r, toIndex, IndexDocument, MatcherVars

LEMMA FetchFailsBecomes ==
    ASSUME Shape, NEW l \in Lambdas, FetchFails(l)
    PROVE  /\ \E t \in {f[1] : f \in lambda[l].toFetch} :
                  Becomes(l, lambda[l].batch, {f \in lambda[l].toFetch : f[1] # t},
                          {d \in lambda[l].docs : d.version # t},
                          {d \in lambda[l].toIndex : d.version # t},
                          lambda[l].refused, lambda[l].unmerged \union {t})
           /\ UNCHANGED MatcherVars
           /\ UNCHANGED <<queue, stored, untold, unheard>>
<1>1. PICK t \in {f[1] : f \in lambda[l].toFetch} :
          lambda' = [lambda EXCEPT
              ![l].toFetch = {f \in @ : f[1] # t},
              ![l].docs = {d \in @ : d.version # t},
              ![l].toIndex = {d \in @ : d.version # t},
              ![l].unmerged = @ \union {t}]
  BY DEF FetchFails
<1> DEFINE r == lambda[l]
           toFetch == {f \in r.toFetch : f[1] # t}
           docs == {d \in r.docs : d.version # t}
           toIndex == {d \in r.toIndex : d.version # t}
           unmerged == r.unmerged \union {t}
<1>2. lambda' = [lambda EXCEPT ![l].toFetch = toFetch, ![l].docs = docs,
                               ![l].toIndex = toIndex, ![l].unmerged = unmerged]
  BY <1>1 DEF Shape
<1> HIDE DEF toFetch, docs, toIndex, unmerged, r
<1> DEFINE r1 == [r EXCEPT !.toFetch = toFetch]
           r2 == [r1 EXCEPT !.docs = docs]
           r3 == [r2 EXCEPT !.toIndex = toIndex]
           r4 == [r3 EXCEPT !.unmerged = unmerged]
<1>3. lambda' = [lambda EXCEPT ![l] = r4]
  BY <1>2 DEF Shape, r
<1>4. r = With(r.batch, r.toFetch, r.docs, r.toIndex, r.refused, r.unmerged)
  BY DEF Shape, r
<1>5. r4 = With(r.batch, toFetch, docs, toIndex, r.refused, unmerged)
  <2>1. r1 = With(r.batch, toFetch, r.docs, r.toIndex, r.refused, r.unmerged)
    BY <1>4 DEF With
  <2> HIDE DEF r1
  <2>2. r2 = With(r.batch, toFetch, docs, r.toIndex, r.refused, r.unmerged)
    BY <2>1 DEF With
  <2> HIDE DEF r2
  <2>3. r3 = With(r.batch, toFetch, docs, toIndex, r.refused, r.unmerged)
    BY <2>2 DEF With
  <2> HIDE DEF r3
  <2> QED
    BY <2>3 DEF With
<1> HIDE DEF r4
<1>6. Becomes(l, r.batch, toFetch, docs, toIndex, r.refused, unmerged)
  BY <1>3, <1>5, LambdaBecomes
<1> QED
  BY <1>6 DEF r, toFetch, docs, toIndex, unmerged, FetchFails, MatcherVars

LEMMA RefuseDocumentBecomes ==
    ASSUME Shape, NEW l \in Lambdas, RefuseDocument(l)
    PROVE  /\ \E d \in lambda[l].toIndex :
                  Becomes(l, lambda[l].batch, lambda[l].toFetch, lambda[l].docs,
                          lambda[l].toIndex \ {d},
                          lambda[l].refused \union {<<d.kind, d.id>>},
                          lambda[l].unmerged)
           /\ UNCHANGED MatcherVars
           /\ UNCHANGED <<queue, stored, untold, unheard>>
<1>1. PICK d \in NextDocuments(l) :
          lambda' = [lambda EXCEPT ![l].toIndex = @ \ {d},
                                   ![l].refused = @ \union {<<d.kind, d.id>>}]
  BY DEF RefuseDocument
<1> DEFINE r == lambda[l]
           toIndex == r.toIndex \ {d}
           refused == r.refused \union {<<d.kind, d.id>>}
<1>2. lambda' = [lambda EXCEPT ![l].toIndex = toIndex, ![l].refused = refused]
  BY <1>1 DEF Shape
<1> HIDE DEF r, toIndex, refused
<1> DEFINE r1 == [r EXCEPT !.toIndex = toIndex]
           r2 == [r1 EXCEPT !.refused = refused]
<1>3. lambda' = [lambda EXCEPT ![l] = r2]
  BY <1>2 DEF Shape, r
<1>4. r = With(r.batch, r.toFetch, r.docs, r.toIndex, r.refused, r.unmerged)
  BY DEF Shape, r
<1>5. r2 = With(r.batch, r.toFetch, r.docs, toIndex, refused, r.unmerged)
  <2>1. r1 = With(r.batch, r.toFetch, r.docs, toIndex, r.refused, r.unmerged)
    BY <1>4 DEF With
  <2> HIDE DEF r1
  <2> QED
    BY <2>1 DEF With
<1> HIDE DEF r2
<1>6. Becomes(l, r.batch, r.toFetch, r.docs, toIndex, refused, r.unmerged)
  BY <1>3, <1>5, LambdaBecomes
<1>7. d \in lambda[l].toIndex
  BY DEF NextDocuments
<1> QED
  BY <1>6, <1>7 DEF r, toIndex, refused, RefuseDocument, MatcherVars

----------------------------------------------------------------------------
(***************************************************************************)
(* The inductive invariant, first part: what is in the graph, in the       *)
(* messages, in the hands of the lambdas and in the indexes.               *)
(***************************************************************************)

\* The messages that a lambda may still handle.
InHand == queue \union UNION {lambda[l].batch : l \in Lambdas}

\* f orders a group of published works.
Fits(f) == \E ids \in SUBSET Published : ids # {} /\ f \in SetToSeqs(ids)

\* A document of the merge of one of a message's groups.
MadeFor(d, m) ==
    d.version = m.createdTime /\ \E f \in m.works : d.id \in OwnIds(ToSet(f))

WorksInv ==
    /\ scenario \in Scenarios
    /\ index \in [Works -> Nat]
    /\ \A w \in Works : index[w] <= Len(Contents[w])
    /\ Published \subseteq scenario.works
    /\ unmatched \subseteq Published
    /\ clock \in Nat

GraphInv ==
    /\ graph \in SUBSET WorkNode
    /\ Keyed(graph)
    /\ LinksClosed(graph)
    /\ ComponentsInSubgraphs(graph)
    /\ \A n \in WithSource(graph) : n.id \in Published
    /\ \A w \in Published \ unmatched : \E n \in WithSource(graph) : n.id = w

MessagesInv ==
    /\ \A m \in InHand :
           /\ m.createdTime \in 1..clock
           /\ \A f \in m.works : Fits(f)
           /\ \A f, g \in m.works : ToSet(f) \intersect ToSet(g) # {} => f = g
    /\ \A m, n \in InHand : m.createdTime = n.createdTime => m = n

LambdasInv ==
    \A l \in Lambdas :
        /\ \A x \in lambda[l].toFetch : \E m \in lambda[l].batch :
               x[1] = m.createdTime /\ x[2] \in m.works
        /\ lambda[l].toIndex \subseteq lambda[l].docs
        /\ \A d \in lambda[l].docs : \E m \in lambda[l].batch : MadeFor(d, m)

StoredInv ==
    /\ \A d, e \in stored : SameKey(d, e) => d = e
    /\ \A d \in stored : d.version \in 1..clock
    /\ untold \subseteq {d.id : d \in {e \in stored : e.kind = "image"}}

Inv == Shape /\ WorksInv /\ GraphInv /\ MessagesInv /\ LambdasInv /\ StoredInv

\* Published works, in whatever order, can be merged.
LEMMA PublishedTogether ==
    ASSUME WorksInv, NEW ids \in SUBSET Published
    PROVE  /\ Together(ids)
           /\ \A w \in ids : index[w] \in DOMAIN Contents[w]
<1>1. Together(ids)
  BY DEF WorksInv, Together
<1>2. ASSUME NEW w \in ids PROVE index[w] \in DOMAIN Contents[w]
  <2>1. w \in Works /\ index[w] \in 1..Len(Contents[w])
    BY DEF WorksInv, Published
  <2>2. Contents[w] \in Seq(ToSet(Contents[w]))
    BY <2>1, ContentsAssumption
  <2> QED
    BY <2>1, <2>2
<1> QED
  BY <1>1, <1>2

LEMMA FittingOrder ==
    ASSUME WorksInv, NEW f, Fits(f)
    PROVE  /\ ToSet(f) \subseteq Published
           /\ ToSet(f) # {}
           /\ f \in SetToSeqs(ToSet(f))
<1>1. PICK ids \in SUBSET Published : ids # {} /\ f \in SetToSeqs(ids)
  BY DEF Fits
<1>2. ToSet(f) = ids
  BY <1>1, PublishedTogether, TogetherOrder
<1> QED
  BY <1>1, <1>2

\* What a lambda gets when it fetches and merges a group.
LEMMA FreshDocuments ==
    ASSUME WorksInv, NEW f, Fits(f), NEW t,
           NEW docs, docs = Documents(Merged[WorksAt(f, index)], t)
    PROVE  /\ \A d \in docs : d.version = t /\ d.id \in OwnIds(ToSet(f))
           /\ \A d, e \in docs : SameKey(d, e) => d = e
<1> DEFINE ids == ToSet(f)
<1>1. ids \in SUBSET Published /\ ids # {} /\ f \in SetToSeqs(ids)
  BY FittingOrder
<1>2. Together(ids) /\ \A w \in ids : index[w] \in DOMAIN Contents[w]
  BY <1>1, PublishedTogether
<1> HIDE DEF ids
<1>3. /\ \A d \in docs : d.version = t /\ d.id \in OwnIds(ids)
      /\ \A d, e \in docs : SameKey(d, e) => d = e
  BY <1>1, <1>2, DocumentsOfMerge
<1> QED
  BY <1>3 DEF ids

\* Among them is what deletes the parts that its works have lost.
LEMMA FreshLostParts ==
    ASSUME WorksInv, NEW f, Fits(f), NEW t,
           NEW docs, docs = Documents(Merged[WorksAt(f, index)], t)
    PROVE  LostArePut(ToSet(f), index, docs)
<1> DEFINE ids == ToSet(f)
<1>1. ids \in SUBSET Published /\ ids # {} /\ f \in SetToSeqs(ids)
  BY FittingOrder
<1>2. Together(ids) /\ \A w \in ids : index[w] \in DOMAIN Contents[w]
  BY <1>1, PublishedTogether
<1> HIDE DEF ids
<1>3. LostArePut(ids, index, docs)
  BY <1>1, <1>2, DocumentsOfMerge
<1> QED
  BY <1>3 DEF ids

\* Two groups of published works whose documents meet have a work in common.
LEMMA DocumentsMeet ==
    ASSUME WorksInv, NEW A \in SUBSET Published, NEW B \in SUBSET Published,
           NEW id \in OwnIds(A) \intersect OwnIds(B)
    PROVE  A \intersect B # {}
<1>1. Together(A \union B)
  BY PublishedTogether
<1> QED
  BY <1>1, OwnIdsAreOwn

----------------------------------------------------------------------------
\* The stub the matcher fetches is one of the work's revisions.
LEMMA StubToMatch ==
    ASSUME WorksInv, NEW w \in unmatched
    PROVE  w \in Works /\ Revisions[w][index[w]] \in WorkStub
<1>1. w \in Works /\ index[w] \in DOMAIN Contents[w]
  BY PublishedTogether DEF WorksInv, Published
<1>2. DOMAIN Revisions[w] = DOMAIN Contents[w]
  BY <1>1, ContentsAssumption
<1>3. Revisions[w] \in Seq(WorkStub)
  BY <1>1, RevisionsAssumption
<1> QED
  BY <1>1, <1>2, <1>3

\* A match updates the graph and sends the groups of the update.
LEMMA MatchUpdates ==
    ASSUME WorksInv, NEW w, Match(w)
    PROVE  /\ w \in Works /\ w \in Published
           /\ Revisions[w][index[w]] \in WorkStub
           /\ clock' = clock + 1
           /\ unmatched' = unmatched \ {w}
           /\ UNCHANGED <<scenario, index, lambda, stored, untold, unheard, faults>>
           /\ \E before, sources, ids, after, order, m :
                  /\ UpdateOf(graph, graph', w, Revisions[w][index[w]],
                              before, sources, ids, after)
                  /\ order \in scenario.orders
                  /\ m.createdTime = clock'
                  /\ m.works = {order[IdsOf(g)] : g \in MatchedIdentifiers(after)}
                  /\ queue' = queue \union {m}
<1> DEFINE stub == Revisions[w][index[w]]
           before == FindAffectedWorks(graph, StubIds(w, stub))
           sources == WithSource(AllWorks(w, stub, before))
           ids == WorkIds(sources)
           after == AfterNodes(w, stub, before)
<1>1. w \in unmatched /\ w \in Works /\ w \in Published /\ stub \in WorkStub
  BY StubToMatch DEF Match, WorksInv
<1>2. PICK order \in scenario.orders :
          queue' = queue \union {MatcherResult(MatchedIdentifiers(after), order, clock')}
  BY DEF Match
<1>3. graph' = PutAll(graph, after)
  BY DEF Match
<1>4. UpdateOf(graph, graph', w, stub, before, sources, ids, after)
  BY <1>3 DEF UpdateOf
<1> DEFINE m == MatcherResult(MatchedIdentifiers(after), order, clock')
<1>5. /\ m.createdTime = clock'
      /\ m.works = {order[IdsOf(g)] : g \in MatchedIdentifiers(after)}
  BY DEF MatcherResult
<1>6. /\ clock' = clock + 1
      /\ unmatched' = unmatched \ {w}
      /\ UNCHANGED <<scenario, index, lambda, stored, untold, unheard, faults>>
  BY DEF Match
<1> HIDE DEF stub, before, sources, ids, after, m
<1>7. \E b, s, i, a, o, n :
          /\ UpdateOf(graph, graph', w, stub, b, s, i, a)
          /\ o \in scenario.orders
          /\ n.createdTime = clock'
          /\ n.works = {o[IdsOf(g)] : g \in MatchedIdentifiers(a)}
          /\ queue' = queue \union {n}
  BY <1>2, <1>4, <1>5 DEF m
<1> QED
  BY <1>1, <1>6, <1>7 DEF stub

\* The groups of the update are of published works.
LEMMA GroupsOfMatch ==
    ASSUME WorksInv, GraphInv, NEW w \in Published, NEW stub \in WorkStub,
           NEW new, NEW before, NEW sources, NEW ids, NEW after, NEW order \in scenario.orders,
           UpdateOf(graph, new, w, stub, before, sources, ids, after),
           NEW g \in MatchedIdentifiers(after)
    PROVE  /\ IdsOf(g) \subseteq Published \intersect ids
           /\ IdsOf(g) # {}
           /\ order[IdsOf(g)] \in SetToSeqs(IdsOf(g))
           /\ ToSet(order[IdsOf(g)]) = IdsOf(g)
<1>1. w \in Works
  BY DEF Published
<1>2. /\ graph \in SUBSET WorkNode /\ Keyed(graph) /\ LinksClosed(graph)
      /\ \A n \in WithSource(graph) : n.id \in Published
  BY DEF GraphInv
<1>3. before \in SUBSET WorkNode /\ before \subseteq graph /\ Keyed(before)
  BY <1>1, <1>2, WritesOfUpdate
<1>4. after = AfterNodes(w, stub, before)
  BY DEF UpdateOf
<1>5. \A n \in WithSource(after) : n.id # w =>
          \E m \in before : m.id = n.id /\ m.sourceWork = n.sourceWork
  BY <1>1, <1>3, <1>4, SourcesOfRows
<1>6. \A n \in WithSource(after) : n.id \in Published
  BY <1>2, <1>3, <1>5 DEF WithSource
<1>7. \A n \in after : n.id \in ids
  BY <1>1, <1>3, RowsOfUpdate DEF UpdateOf
<1>8. /\ IdsOf(g) # {}
      /\ \A i \in IdsOf(g) : \E n \in WithSource(after) : n.id = i
  BY IdsOfGroup
<1>9. IdsOf(g) \subseteq Published \intersect ids
  BY <1>6, <1>7, <1>8 DEF WithSource
<1>10. order[IdsOf(g)] \in SetToSeqs(IdsOf(g))
  BY <1>9, MergerAssumption DEF WorksInv
<1>11. ToSet(order[IdsOf(g)]) = IdsOf(g)
  BY <1>9, <1>10, PublishedTogether, TogetherOrder
<1> QED
  BY <1>8, <1>9, <1>10, <1>11

----------------------------------------------------------------------------
(***************************************************************************)
(* Every step keeps the first part.                                        *)
(***************************************************************************)
LEMMA InitInv == Init => Inv
<1> SUFFICES ASSUME Init PROVE Inv
  OBVIOUS
<1>1. Shape
  BY DEF Init, Shape, IdleLambda, With
<1>2. WorksInv
  <2>1. ASSUME NEW w \in Works PROVE Len(Contents[w]) \in Nat
    <3>1. Contents[w] \in Seq(ToSet(Contents[w]))
      BY ContentsAssumption
    <3> QED
      BY <3>1
  <2> QED
    BY <2>1 DEF Init, WorksInv, Published
<1>3. GraphInv
  BY DEF Init, GraphInv, Keyed, LinksClosed, ComponentsInSubgraphs, WithSource, Published
<1>4. \A l \in Lambdas : /\ lambda[l].batch = {} /\ lambda[l].toFetch = {}
                         /\ lambda[l].docs = {} /\ lambda[l].toIndex = {}
  BY DEF Init, IdleLambda
<1>5. InHand = {}
  BY <1>4 DEF InHand, Init
<1>6. MessagesInv /\ LambdasInv /\ StoredInv
  BY <1>4, <1>5 DEF MessagesInv, LambdasInv, StoredInv, Init
<1> QED
  BY <1>1, <1>2, <1>3, <1>6 DEF Inv

LEMMA PublishKeeps ==
    ASSUME Inv, NEW w, Publish(w)
    PROVE  /\ Inv'
           /\ Published \subseteq Published'
           /\ unmatched' = unmatched \union {w}
           /\ \A v \in Works \ {w} : index'[v] = index[v]
           /\ UNCHANGED <<graph, clock, queue, lambda, stored, untold, unheard, faults>>
<1> USE DEF Inv
<1>1. /\ scenario' = scenario
      /\ unmatched' = unmatched \union {w}
      /\ UNCHANGED <<graph, clock, queue, lambda, stored, untold, unheard, faults>>
  BY DEF Publish
<1>2. w \in Works /\ w \in scenario.works
  BY MergerAssumption DEF Publish, WorksInv
<1>3. /\ index' \in [Works -> Nat]
      /\ index'[w] = index[w] + 1 /\ index'[w] <= Len(Contents[w])
      /\ \A v \in Works \ {w} : index'[v] = index[v]
  <2>1. Len(Contents[w]) \in Nat
    BY <1>2, ContentsAssumption
  <2> QED
    BY <1>2, <2>1 DEF Publish, WorksInv
<1>4. Published' = Published \union {w}
  BY <1>2, <1>3 DEF Published, WorksInv
<1>5. WorksInv'
  <2>1. \A v \in Works : index'[v] <= Len(Contents[v])
    BY <1>3 DEF WorksInv
  <2> QED
    BY <1>1, <1>2, <1>3, <1>4, <2>1 DEF WorksInv
<1>6. GraphInv'
  BY <1>1, <1>4 DEF GraphInv
<1>7. Shape'
  BY <1>1 DEF Shape
<1>8. InHand' = InHand
  BY <1>1 DEF InHand
<1>9. \A f : Fits(f) => Fits(f)'
  BY <1>4 DEF Fits
<1>10. MessagesInv'
  BY <1>1, <1>8, <1>9 DEF MessagesInv
<1>11. LambdasInv' /\ StoredInv'
  BY <1>1 DEF LambdasInv, StoredInv
<1> QED
  BY <1>1, <1>3, <1>4, <1>5, <1>6, <1>7, <1>10, <1>11

LEMMA MatchKeeps ==
    ASSUME Inv, NEW w, Match(w)
    PROVE  Inv'
<1> USE DEF Inv
<1> DEFINE stub == Revisions[w][index[w]]
<1>1. /\ w \in Works /\ w \in Published /\ stub \in WorkStub
      /\ clock' = clock + 1
      /\ unmatched' = unmatched \ {w}
      /\ UNCHANGED <<scenario, index, lambda, stored, untold, unheard, faults>>
  BY MatchUpdates
<1>2. PICK before, sources, ids, after, order, m :
          /\ UpdateOf(graph, graph', w, stub, before, sources, ids, after)
          /\ order \in scenario.orders
          /\ m.createdTime = clock'
          /\ m.works = {order[IdsOf(g)] : g \in MatchedIdentifiers(after)}
          /\ queue' = queue \union {m}
  BY MatchUpdates
<1>3. /\ graph \in SUBSET WorkNode /\ Keyed(graph) /\ LinksClosed(graph)
      /\ ComponentsInSubgraphs(graph)
      /\ \A n \in WithSource(graph) : n.id \in Published
      /\ \A v \in Published \ unmatched : \E n \in WithSource(graph) : n.id = v
  BY DEF GraphInv
<1>4. Published' = Published
  BY <1>1 DEF Published
<1>5. ASSUME NEW g \in MatchedIdentifiers(after)
      PROVE  /\ IdsOf(g) \subseteq Published \intersect ids
             /\ IdsOf(g) # {}
             /\ order[IdsOf(g)] \in SetToSeqs(IdsOf(g))
             /\ ToSet(order[IdsOf(g)]) = IdsOf(g)
  BY <1>1, <1>2, GroupsOfMatch
<1> HIDE DEF stub
<1>6. /\ before \in SUBSET WorkNode /\ before \subseteq graph /\ Keyed(before)
      /\ after \subseteq graph'
      /\ \A n \in graph' : n.id \in ids => n \in after
      /\ \A n \in graph' : n.id \notin ids => n \in graph
      /\ \A n \in graph : n.id \notin ids => n \in graph'
      /\ \A n \in graph : n.id \in ids => n \in before
  BY <1>1, <1>2, <1>3, WritesOfUpdate
<1>7. after = AfterNodes(w, stub, before) /\ graph' = PutAll(graph, after)
  BY <1>2 DEF UpdateOf
<1>8. /\ after \in SUBSET WorkNode /\ Keyed(after)
  BY <1>1, <1>2, <1>6, RowsOfUpdate DEF UpdateOf
<1>9. /\ \E n \in after : n.id = w
      /\ \A n \in after : n.id = w => n.sourceWork = SourceData(w, stub)
      /\ \A n \in WithSource(after) : n.id # w =>
             \E k \in before : k.id = n.id /\ k.sourceWork = n.sourceWork
      /\ \A k \in WithSource(before), n \in after :
             k.id # w /\ n.id = k.id => n.sourceWork = k.sourceWork
  BY <1>1, <1>6, <1>7, SourcesOfRows
<1>10. WorksInv'
  BY <1>1, <1>4 DEF WorksInv
<1>11. GraphInv'
  <2>1. graph' \in SUBSET WorkNode /\ Keyed(graph')
    BY <1>3, <1>7, <1>8, PutAllType
  <2>2. LinksClosed(graph')
    BY <1>1, <1>2, <1>3, LinksOfUpdate
  <2>3. ComponentsInSubgraphs(graph')
    BY <1>1, <1>2, <1>3, ComponentsOfUpdate
  <2>4. ASSUME NEW n \in WithSource(graph') PROVE n.id \in Published
    <3>1. CASE n \in after
      BY <1>1, <1>3, <1>6, <1>9, <2>4, <3>1 DEF WithSource
    <3>2. CASE n \notin after
      BY <1>3, <1>6, <2>4, <3>2 DEF WithSource
    <3> QED
      BY <3>1, <3>2
  <2>5. ASSUME NEW v \in Published \ unmatched'
        PROVE  \E n \in WithSource(graph') : n.id = v
    <3>1. CASE v = w
      <4>1. SourceData(w, stub) # NoSource
        BY <1>1, StubIdsType, NoSourceAssumption
      <4> QED
        BY <1>6, <1>9, <3>1, <4>1 DEF WithSource
    <3>2. CASE v # w
      <4>1. PICK n \in WithSource(graph) : n.id = v
        BY <1>1, <1>3, <2>5, <3>2
      <4>2. CASE n.id \notin ids
        BY <1>6, <4>1, <4>2 DEF WithSource
      <4>3. CASE n.id \in ids
        <5>1. n \in WithSource(before)
          BY <1>6, <4>1, <4>3 DEF WithSource
        <5>2. PICK a \in after : a.id = v
          BY <1>1, <1>2, <1>6, <4>1, <4>3, RowsOfUpdate DEF UpdateOf
        <5>3. a.sourceWork = n.sourceWork
          BY <1>9, <3>2, <4>1, <5>1, <5>2
        <5> QED
          BY <1>6, <5>1, <5>2, <5>3 DEF WithSource
      <4> QED
        BY <4>2, <4>3
    <3> QED
      BY <3>1, <3>2
  <2> QED
    BY <1>4, <2>1, <2>2, <2>3, <2>4, <2>5 DEF GraphInv
<1>12. InHand' = InHand \union {m}
  BY <1>1, <1>2 DEF InHand
<1>13. clock \in Nat /\ m.createdTime = clock + 1
  BY <1>1, <1>2 DEF WorksInv
<1>14. MessagesInv'
  <2>1. ASSUME NEW f \in m.works
        PROVE  \E g \in MatchedIdentifiers(after) : f = order[IdsOf(g)]
    BY <1>2
  <2>2. ASSUME NEW f \in m.works PROVE Fits(f)'
    BY <1>4, <1>5, <2>1 DEF Fits
  <2>3. ASSUME NEW f \in m.works, NEW h \in m.works,
               ToSet(f) \intersect ToSet(h) # {}
        PROVE  f = h
    <3>1. PICK g1 \in MatchedIdentifiers(after) : f = order[IdsOf(g1)]
      BY <2>1
    <3>2. PICK g2 \in MatchedIdentifiers(after) : h = order[IdsOf(g2)]
      BY <2>1
    <3>3. IdsOf(g1) \intersect IdsOf(g2) # {}
      BY <1>5, <2>3, <3>1, <3>2
    <3>4. g1 = g2
      BY <1>8, <3>3, GroupsAreApart
    <3> QED
      BY <3>1, <3>2, <3>4
  <2>4. \A f : Fits(f) => Fits(f)'
    BY <1>4 DEF Fits
  <2>5. ASSUME NEW n \in InHand'
        PROVE  /\ n.createdTime \in 1..clock'
               /\ \A f \in n.works : Fits(f)'
               /\ \A f, h \in n.works : ToSet(f) \intersect ToSet(h) # {} => f = h
    <3>1. CASE n = m
      BY <1>1, <1>13, <2>2, <2>3, <3>1
    <3>2. CASE n \in InHand
      BY <1>1, <1>13, <2>4, <3>2 DEF MessagesInv
    <3> QED
      BY <1>12, <3>1, <3>2
  <2>6. \A n \in InHand : n.createdTime \in 1..clock
    BY DEF MessagesInv
  <2>7. \A n, p \in InHand' : n.createdTime = p.createdTime => n = p
    BY <1>12, <1>13, <2>6 DEF MessagesInv
  <2> QED
    BY <2>5, <2>7 DEF MessagesInv
<1>15. Shape' /\ LambdasInv'
  BY <1>1 DEF Shape, LambdasInv
<1>16. StoredInv'
  BY <1>1, <1>13 DEF StoredInv
<1> QED
  BY <1>10, <1>11, <1>14, <1>15, <1>16

\* What the lambdas do is of no concern to the matcher, and they make no messages.
LEMMA LambdasKeep ==
    ASSUME Inv, UNCHANGED MatcherVars, InHand' \subseteq InHand
    PROVE  WorksInv' /\ GraphInv' /\ MessagesInv'
<1> USE DEF Inv, MatcherVars
<1>1. Published' = Published
  BY DEF Published
<1>2. WorksInv'
  BY <1>1 DEF WorksInv
<1>3. GraphInv'
  BY <1>1 DEF GraphInv
<1>4. \A f : Fits(f) => Fits(f)'
  BY <1>1 DEF Fits
<1>5. MessagesInv'
  BY <1>4 DEF MessagesInv
<1> QED
  BY <1>2, <1>3, <1>5

LEMMA PutOneDocument ==
    ASSUME NEW docs, \A d, e \in docs : SameKey(d, e) => d = e,
           NEW new, NEW put, put = PutDocument(docs, new)
    PROVE  /\ \A d, e \in put : SameKey(d, e) => d = e
           /\ put \subseteq docs \union {new}
           /\ \A d \in docs : d \in put \/ SameKey(d, new)
           /\ \E e \in put : SameKey(e, new)
           /\ new \in put \/ \E e \in docs : SameKey(e, new) /\ e.version > new.version
           /\ \A d \in docs : d \in put \/ ~(d.version > new.version)
BY DEF PutDocument, SameKey

LEMMA IdleHasNothing ==
    ASSUME NEW l, lambda[l] = IdleLambda
    PROVE  /\ lambda[l].batch = {} /\ lambda[l].toFetch = {} /\ lambda[l].docs = {}
           /\ lambda[l].toIndex = {} /\ lambda[l].unmerged = {}
BY DEF IdleLambda

\* What is left of LambdasInv when one lambda has changed.
LEMMA OneLambdaKeeps ==
    ASSUME LambdasInv, NEW l \in Lambdas, \A k \in Lambdas \ {l} : lambda'[k] = lambda[k],
           \A x \in lambda'[l].toFetch : \E m \in lambda'[l].batch :
               x[1] = m.createdTime /\ x[2] \in m.works,
           lambda'[l].toIndex \subseteq lambda'[l].docs,
           \A d \in lambda'[l].docs : \E m \in lambda'[l].batch : MadeFor(d, m)
    PROVE  LambdasInv'
<1> SUFFICES ASSUME NEW k \in Lambdas
             PROVE  /\ \A x \in lambda'[k].toFetch : \E m \in lambda'[k].batch :
                           x[1] = m.createdTime /\ x[2] \in m.works
                    /\ lambda'[k].toIndex \subseteq lambda'[k].docs
                    /\ \A d \in lambda'[k].docs : \E m \in lambda'[k].batch : MadeFor(d, m)
  BY DEF LambdasInv, MadeFor
<1>1. CASE k = l
  BY <1>1
<1>2. CASE k # l
  BY <1>2 DEF LambdasInv
<1> QED
  BY <1>1, <1>2

\* The messages in hand when one lambda has changed.
LEMMA HandsKeep ==
    ASSUME NEW l \in Lambdas, \A k \in Lambdas \ {l} : lambda'[k] = lambda[k],
           queue' \subseteq InHand, lambda'[l].batch \subseteq InHand
    PROVE  InHand' \subseteq InHand
<1> SUFFICES ASSUME NEW k \in Lambdas PROVE lambda'[k].batch \subseteq InHand
  BY DEF InHand
<1>1. CASE k = l
  BY <1>1
<1>2. CASE k # l
  BY <1>2 DEF InHand
<1> QED
  BY <1>1, <1>2

LEMMA ReceiveKeeps ==
    ASSUME Inv, NEW l \in Lambdas, NEW batch \in SUBSET queue, Receive(l, batch)
    PROVE  Inv' /\ InHand' \subseteq InHand
<1> USE DEF Inv
<1>1. /\ Shape'
      /\ \A k \in Lambdas \ {l} : lambda'[k] = lambda[k]
      /\ lambda'[l].batch = batch
      /\ lambda'[l].toFetch = UNION {{m.createdTime} \X m.works : m \in batch}
      /\ lambda'[l].docs = {} /\ lambda'[l].toIndex = {}
      /\ UNCHANGED MatcherVars
  BY ReceiveBecomes DEF Becomes
<1>2. /\ queue' = queue \ batch
      /\ UNCHANGED <<stored, untold, clock>>
  BY DEF Receive
<1>3. InHand' \subseteq InHand
  BY <1>1, <1>2, HandsKeep DEF InHand
<1>4. LambdasInv'
  BY <1>1, OneLambdaKeeps
<1>5. StoredInv'
  BY <1>2 DEF StoredInv
<1> QED
  BY <1>1, <1>3, <1>4, <1>5, LambdasKeep

LEMMA FetchAndMergeKeeps ==
    ASSUME Inv, NEW l \in Lambdas, FetchAndMerge(l)
    PROVE  Inv' /\ InHand' \subseteq InHand
<1> USE DEF Inv
<1>1. PICK f \in lambda[l].toFetch :
          LET docs == Documents(Merged[WorksAt(f[2], index)], f[1])
          IN  Becomes(l, lambda[l].batch, lambda[l].toFetch \ {f},
                      lambda[l].docs \union docs, lambda[l].toIndex \union docs,
                      lambda[l].refused, lambda[l].unmerged)
  BY FetchAndMergeBecomes
<1> DEFINE docs == Documents(Merged[WorksAt(f[2], index)], f[1])
<1>2. /\ UNCHANGED MatcherVars
      /\ UNCHANGED <<queue, stored, untold>>
  BY FetchAndMergeBecomes
<1>3. PICK m \in lambda[l].batch : f[1] = m.createdTime /\ f[2] \in m.works
  BY DEF LambdasInv
<1>4. Fits(f[2])
  BY <1>3 DEF MessagesInv, InHand
<1>5. \A d \in docs : d.version = f[1] /\ d.id \in OwnIds(ToSet(f[2]))
  <2>1. docs = Documents(Merged[WorksAt(f[2], index)], f[1])
    OBVIOUS
  <2> HIDE DEF docs
  <2> QED
    BY <1>4, <2>1, FreshDocuments
<1>6. /\ Shape'
      /\ \A k \in Lambdas \ {l} : lambda'[k] = lambda[k]
      /\ lambda'[l].batch = lambda[l].batch
      /\ lambda'[l].toFetch = lambda[l].toFetch \ {f}
      /\ lambda'[l].docs = lambda[l].docs \union docs
      /\ lambda'[l].toIndex = lambda[l].toIndex \union docs
  BY <1>1 DEF Becomes
<1> HIDE DEF docs
<1>7. InHand' \subseteq InHand
  BY <1>2, <1>6, HandsKeep DEF InHand
<1>8. LambdasInv'
  <2>1. \A d \in docs : MadeFor(d, m)
    BY <1>3, <1>5 DEF MadeFor
  <2>2. \A d \in lambda'[l].docs : \E n \in lambda'[l].batch : MadeFor(d, n)
    BY <1>3, <1>6, <2>1 DEF LambdasInv
  <2>3. lambda'[l].toIndex \subseteq lambda'[l].docs
    BY <1>6 DEF LambdasInv
  <2>4. \A x \in lambda'[l].toFetch : \E n \in lambda'[l].batch :
            x[1] = n.createdTime /\ x[2] \in n.works
    BY <1>6 DEF LambdasInv
  <2> QED
    BY <1>6, <2>2, <2>3, <2>4, OneLambdaKeeps
<1>9. StoredInv'
  BY <1>2 DEF StoredInv, MatcherVars
<1> QED
  BY <1>2, <1>6, <1>7, <1>8, <1>9, LambdasKeep

LEMMA IndexDocumentKeeps ==
    ASSUME Inv, NEW l \in Lambdas, IndexDocument(l)
    PROVE  Inv' /\ InHand' \subseteq InHand
<1> USE DEF Inv
<1>1. PICK d \in lambda[l].toIndex :
          /\ Becomes(l, lambda[l].batch, lambda[l].toFetch, lambda[l].docs,
                     lambda[l].toIndex \ {d}, lambda[l].refused, lambda[l].unmerged)
          /\ stored' = PutDocument(stored, d)
          /\ untold' = IF d.kind = "image" /\ stored' # stored
                       THEN untold \union {d.id} ELSE untold
  BY IndexDocumentBecomes
<1>2. UNCHANGED MatcherVars /\ queue' = queue
  BY IndexDocumentBecomes
<1>3. /\ Shape'
      /\ \A k \in Lambdas \ {l} : lambda'[k] = lambda[k]
      /\ lambda'[l].batch = lambda[l].batch
      /\ lambda'[l].toFetch = lambda[l].toFetch
      /\ lambda'[l].docs = lambda[l].docs
      /\ lambda'[l].toIndex = lambda[l].toIndex \ {d}
  BY <1>1 DEF Becomes
<1>4. InHand' \subseteq InHand
  BY <1>2, <1>3, HandsKeep DEF InHand
<1>5. LambdasInv'
  BY <1>3, OneLambdaKeeps DEF LambdasInv
<1>6. d.version \in 1..clock
  <2>1. PICK m \in lambda[l].batch : MadeFor(d, m)
    BY DEF LambdasInv
  <2> QED
    BY <2>1 DEF MadeFor, MessagesInv, InHand
<1>7. StoredInv'
  <2>1. /\ \A x, y \in stored' : SameKey(x, y) => x = y
        /\ stored' \subseteq stored \union {d}
        /\ \A x \in stored : x \in stored' \/ SameKey(x, d)
        /\ \E e \in stored' : SameKey(e, d)
    BY <1>1, PutOneDocument DEF StoredInv
  <2>2. \A x \in stored' : x.version \in 1..clock'
    BY <1>2, <1>6, <2>1 DEF StoredInv, MatcherVars
  <2>3. ASSUME NEW i \in untold'
        PROVE  \E x \in stored' : x.kind = "image" /\ x.id = i
    <3>1. CASE i \in untold
      <4>1. PICK x \in stored : x.kind = "image" /\ x.id = i
        BY <3>1 DEF StoredInv
      <4> QED
        BY <2>1, <4>1 DEF SameKey
    <3>2. CASE i \notin untold
      BY <1>1, <2>1, <2>3, <3>2 DEF SameKey
    <3> QED
      BY <3>1, <3>2
  <2> QED
    BY <2>1, <2>2, <2>3 DEF StoredInv
<1> QED
  BY <1>2, <1>3, <1>4, <1>5, <1>7, LambdasKeep

\* A lambda ends its batch: its messages are forgotten, or they are back in the
\* queue.
LEMMA EndBatchKeeps ==
    ASSUME Inv, NEW l \in Lambdas, lambda' = [lambda EXCEPT ![l] = IdleLambda],
           UNCHANGED MatcherVars, stored' = stored, untold' \subseteq untold,
           queue' \subseteq queue \union lambda[l].batch
    PROVE  Inv' /\ InHand' \subseteq InHand
<1> USE DEF Inv
<1>1. /\ Shape'
      /\ \A k \in Lambdas \ {l} : lambda'[k] = lambda[k]
      /\ lambda'[l].batch = {} /\ lambda'[l].toFetch = {}
      /\ lambda'[l].docs = {} /\ lambda'[l].toIndex = {}
  BY EndBatchBecomes DEF Becomes
<1>2. InHand' \subseteq InHand
  BY <1>1, HandsKeep DEF InHand
<1>3. LambdasInv'
  BY <1>1, OneLambdaKeeps
<1>4. StoredInv'
  BY DEF StoredInv, MatcherVars
<1> QED
  BY <1>1, <1>2, <1>3, <1>4, LambdasKeep

LEMMA FetchFailsKeeps ==
    ASSUME Inv, NEW l \in Lambdas, FetchFails(l)
    PROVE  Inv' /\ InHand' \subseteq InHand
<1> USE DEF Inv
<1>1. PICK t :
          Becomes(l, lambda[l].batch, {f \in lambda[l].toFetch : f[1] # t},
                  {d \in lambda[l].docs : d.version # t},
                  {d \in lambda[l].toIndex : d.version # t},
                  lambda[l].refused, lambda[l].unmerged \union {t})
  BY FetchFailsBecomes
<1>2. UNCHANGED MatcherVars /\ UNCHANGED <<queue, stored, untold>>
  BY FetchFailsBecomes
<1>3. /\ Shape'
      /\ \A k \in Lambdas \ {l} : lambda'[k] = lambda[k]
      /\ lambda'[l].batch = lambda[l].batch
      /\ lambda'[l].toFetch \subseteq lambda[l].toFetch
      /\ lambda'[l].docs = {d \in lambda[l].docs : d.version # t}
      /\ lambda'[l].toIndex = {d \in lambda[l].toIndex : d.version # t}
  BY <1>1 DEF Becomes
<1>4. InHand' \subseteq InHand
  BY <1>2, <1>3, HandsKeep DEF InHand
<1>5. LambdasInv'
  BY <1>3, OneLambdaKeeps DEF LambdasInv
<1>6. StoredInv'
  BY <1>2 DEF StoredInv, MatcherVars
<1> QED
  BY <1>2, <1>3, <1>4, <1>5, <1>6, LambdasKeep

LEMMA RefuseDocumentKeeps ==
    ASSUME Inv, NEW l \in Lambdas, RefuseDocument(l)
    PROVE  Inv' /\ InHand' \subseteq InHand
<1> USE DEF Inv
<1>1. PICK d \in lambda[l].toIndex :
          Becomes(l, lambda[l].batch, lambda[l].toFetch, lambda[l].docs,
                  lambda[l].toIndex \ {d},
                  lambda[l].refused \union {<<d.kind, d.id>>}, lambda[l].unmerged)
  BY RefuseDocumentBecomes
<1>2. UNCHANGED MatcherVars /\ UNCHANGED <<queue, stored, untold>>
  BY RefuseDocumentBecomes
<1>3. /\ Shape'
      /\ \A k \in Lambdas \ {l} : lambda'[k] = lambda[k]
      /\ lambda'[l].batch = lambda[l].batch
      /\ lambda'[l].toFetch = lambda[l].toFetch
      /\ lambda'[l].docs = lambda[l].docs
      /\ lambda'[l].toIndex \subseteq lambda[l].toIndex
  BY <1>1 DEF Becomes
<1>4. InHand' \subseteq InHand
  BY <1>2, <1>3, HandsKeep DEF InHand
<1>5. LambdasInv'
  BY <1>3, OneLambdaKeeps DEF LambdasInv
<1>6. StoredInv'
  BY <1>2 DEF StoredInv, MatcherVars
<1> QED
  BY <1>2, <1>3, <1>4, <1>5, <1>6, LambdasKeep

LEMMA RedeliverKeeps ==
    ASSUME Inv, NEW l \in Lambdas, Redeliver(l)
    PROVE  Inv' /\ InHand' \subseteq InHand
<1> USE DEF Inv
<1>1. /\ UNCHANGED MatcherVars /\ UNCHANGED <<lambda, stored, untold>>
      /\ \E m \in lambda[l].batch : queue' = queue \union {m}
  BY DEF Redeliver, MatcherVars
<1>2. InHand' \subseteq InHand
  BY <1>1, HandsKeep DEF InHand
<1>3. Shape' /\ LambdasInv' /\ StoredInv'
  BY <1>1 DEF Shape, LambdasInv, StoredInv, MatcherVars
<1> QED
  BY <1>1, <1>2, <1>3, LambdasKeep

LEMMA FailedAreOfBatch == ASSUME NEW l PROVE Failed(l) \subseteq lambda[l].batch
BY DEF Failed

LEMMA LambdaActionsKeep ==
    ASSUME Inv, NEW l \in Lambdas,
           \/ ReceiveAny(l) \/ LambdaStep(l) \/ FetchFails(l) \/ RefuseDocument(l)
           \/ CallFails(l) \/ Redeliver(l) \/ NotifyFails(l)
    PROVE  Inv' /\ InHand' \subseteq InHand
<1>1. CASE ReceiveAny(l)
  BY <1>1, ReceiveKeeps DEF ReceiveAny
<1>2. CASE FetchAndMerge(l)
  BY <1>2, FetchAndMergeKeeps
<1>3. CASE IndexDocument(l)
  BY <1>3, IndexDocumentKeeps
<1>4. CASE Finish(l)
  <2>1. /\ lambda' = [lambda EXCEPT ![l] = IdleLambda]
        /\ queue' = queue \union Failed(l)
        /\ untold' = untold \ Announced(l)
        /\ UNCHANGED MatcherVars /\ stored' = stored
    BY <1>4 DEF Finish, EndBatch, MatcherVars
  <2>2. untold' \subseteq untold /\ queue' \subseteq queue \union lambda[l].batch
    BY <2>1, FailedAreOfBatch
  <2> QED
    BY <2>1, <2>2, EndBatchKeeps
<1>5. CASE FetchFails(l)
  BY <1>5, FetchFailsKeeps
<1>6. CASE RefuseDocument(l)
  BY <1>6, RefuseDocumentKeeps
<1>7. CASE CallFails(l)
  <2>1. /\ lambda' = [lambda EXCEPT ![l] = IdleLambda]
        /\ queue' = queue \union lambda[l].batch
        /\ UNCHANGED MatcherVars /\ stored' = stored /\ untold' = untold
    BY <1>7 DEF CallFails, MatcherVars
  <2> QED
    BY <2>1, EndBatchKeeps
<1>8. CASE Redeliver(l)
  BY <1>8, RedeliverKeeps
<1>9. CASE NotifyFails(l)
  <2>1. /\ lambda' = [lambda EXCEPT ![l] = IdleLambda]
        /\ queue' = queue \union Failed(l)
        /\ \E image : untold' = untold \ (Announced(l) \ {image})
        /\ UNCHANGED MatcherVars /\ stored' = stored
    BY <1>9 DEF NotifyFails, EndBatch, MatcherVars
  <2>2. untold' \subseteq untold /\ queue' \subseteq queue \union lambda[l].batch
    BY <2>1, FailedAreOfBatch
  <2> QED
    BY <2>1, <2>2, EndBatchKeeps
<1> QED
  BY <1>1, <1>2, <1>3, <1>4, <1>5, <1>6, <1>7, <1>8, <1>9 DEF LambdaStep

LEMMA StutterKeeps == ASSUME Inv, UNCHANGED vars PROVE Inv'
<1> USE DEF Inv, vars
<1>1. Shape' /\ LambdasInv' /\ StoredInv'
  BY DEF Shape, LambdasInv, StoredInv
<1>2. UNCHANGED MatcherVars /\ InHand' = InHand
  BY DEF MatcherVars, InHand
<1> QED
  BY <1>1, <1>2, LambdasKeep

LEMMA StepKeepsInv == Inv /\ [Next]_vars => Inv'
<1> SUFFICES ASSUME Inv, [Next]_vars PROVE Inv'
  OBVIOUS
<1>1. CASE \E w \in Works : Publish(w) \/ Match(w)
  BY <1>1, PublishKeeps, MatchKeeps
<1>2. CASE \E l \in Lambdas : \/ ReceiveAny(l) \/ LambdaStep(l) \/ FetchFails(l)
                              \/ RefuseDocument(l) \/ CallFails(l) \/ Redeliver(l)
                              \/ NotifyFails(l)
  BY <1>2, LambdaActionsKeep
<1>3. CASE UNCHANGED vars
  BY <1>3, StutterKeeps
<1> QED
  BY <1>1, <1>2, <1>3 DEF Next

\* Faults are counted.
FaultsInv == unheard \in BOOLEAN /\ faults \in 0..MaxFaults

LEMMA StepKeepsFaults == FaultsInv /\ [Next]_vars => FaultsInv'
<1> SUFFICES ASSUME FaultsInv, [Next]_vars PROVE FaultsInv'
  OBVIOUS
<1>1. MaxFaults \in Nat
  BY MergerAssumption
<1>2. ASSUME NEW w, Publish(w) \/ Match(w) PROVE FaultsInv'
  BY <1>2 DEF FaultsInv, Publish, Match
<1>3. ASSUME NEW l, ReceiveAny(l) PROVE FaultsInv'
  BY <1>3 DEF FaultsInv, ReceiveAny, Receive
<1>4. ASSUME NEW l, LambdaStep(l) PROVE FaultsInv'
  <2>1. unheard' = unheard /\ faults' = faults
    BY <1>4 DEF LambdaStep, FetchAndMerge, IndexDocument, Finish
  <2> QED
    BY <2>1 DEF FaultsInv
<1>5. ASSUME NEW l, FetchFails(l) \/ RefuseDocument(l) \/ CallFails(l) \/ Redeliver(l)
      PROVE  FaultsInv'
  <2>1. unheard' = unheard /\ faults < MaxFaults /\ faults' = faults + 1
    BY <1>5 DEF FetchFails, RefuseDocument, CallFails, Redeliver, Fault
  <2>2. faults' \in 0..MaxFaults
    BY <1>1, <2>1 DEF FaultsInv
  <2> QED
    BY <2>1, <2>2 DEF FaultsInv
<1>6. ASSUME NEW l, NotifyFails(l) PROVE FaultsInv'
  <2>1. faults' \in 0..MaxFaults
    BY <1>1, <1>6 DEF FaultsInv, NotifyFails, Fault
  <2>2. unheard' = TRUE
    BY <1>6 DEF NotifyFails
  <2>3. unheard' \in BOOLEAN
    BY ONLY <2>2, Zenon
  <2> QED
    BY <2>1, <2>3 DEF FaultsInv
<1>7. CASE UNCHANGED vars
  BY <1>7 DEF FaultsInv, vars
<1> QED
  BY <1>2, <1>3, <1>4, <1>5, <1>6, <1>7 DEF Next

LEMMA AlwaysInv == Spec => [](Inv /\ FaultsInv)
<1>1. Init => FaultsInv
  <2> SUFFICES ASSUME Init PROVE FaultsInv
    OBVIOUS
  <2>1. unheard = FALSE /\ faults = 0 /\ MaxFaults \in Nat
    BY MergerAssumption DEF Init
  <2>2. faults \in 0..MaxFaults
    BY <2>1
  <2>3. unheard \in BOOLEAN
    BY <2>1, Zenon
  <2> QED
    BY <2>2, <2>3 DEF FaultsInv
<1> QED
  BY <1>1, InitInv, StepKeepsInv, StepKeepsFaults, PTL DEF Spec

\* TypeOK, for any works and faults: works-identified and the graph hold what they
\* are to hold, every document is stored once, nothing is indexed that was not
\* merged, and nothing is announced that is not stored.
THEOREM TypeCorrect == Spec => []TypeOK
<1>1. Inv /\ FaultsInv => TypeOK
  <2> SUFFICES ASSUME Inv, FaultsInv PROVE TypeOK
    OBVIOUS
  <2>1. \A w \in Works : index[w] \in 0..Len(Contents[w])
    <3> SUFFICES ASSUME NEW w \in Works PROVE index[w] \in 0..Len(Contents[w])
      OBVIOUS
    <3>1. Contents[w] \in Seq(ToSet(Contents[w]))
      BY ContentsAssumption
    <3>2. Len(Contents[w]) \in Nat
      BY <3>1
    <3> QED
      BY <3>2 DEF Inv, WorksInv
  <2>2. graph \subseteq WorkNode /\ unmatched \subseteq {w \in Works : index[w] > 0}
    BY DEF Inv, GraphInv, WorksInv, Published
  <2>3. /\ clock \in Nat
        /\ \A m \in queue : m.createdTime \in 1..clock
        /\ \A l \in Lambdas : \A m \in lambda[l].batch : m.createdTime \in 1..clock
    BY DEF Inv, WorksInv, MessagesInv, InHand
  <2>4. \A l \in Lambdas : lambda[l].toIndex \subseteq lambda[l].docs
    BY DEF Inv, LambdasInv
  <2>5. /\ \A d, e \in stored : SameKey(d, e) => d = e
        /\ untold \subseteq {d.id : d \in {e \in stored : e.kind = "image"}}
    BY DEF Inv, StoredInv
  <2> QED
    BY <2>1, <2>2, <2>3, <2>4, <2>5 DEF TypeOK, FaultsInv
<1> QED
  BY <1>1, AlwaysInv, PTL

----------------------------------------------------------------------------
(***************************************************************************)
(* The inductive invariant, second part: for every group whose works have  *)
(* all been matched there is one result that is later than all others      *)
(* about its works, and what its works merge to now either is stored or    *)
(* will be, whatever else is still under way.                              *)
(***************************************************************************)

\* What the works of f merge to now, under the time t.
Fresh(t, f) == Documents(Merged[WorksAt(f, index)], t)

\* A document of these works is older than t, or is one of them.
Older(d, ids, t, f) ==
    d.id \in OwnIds(ids) => d.version < t \/ (d.version = t /\ d \in Fresh(t, f))

\* The result of time t with the group f is the last about these works.
Latest(ids, t, f) ==
    /\ \A m \in InHand : \A g \in m.works :
           ToSet(g) \intersect ids # {} => m.createdTime < t \/ (m.createdTime = t /\ g = f)
    /\ \A d \in stored : Older(d, ids, t, f)
    /\ \A l \in Lambdas : \A d \in lambda[l].docs : Older(d, ids, t, f)

\* Its message is in the queue.
Waits(t, f) == \E m \in queue : m.createdTime = t /\ f \in m.works

\* Lambda l has it and will index d, or it will go back to the queue.
WillIndex(l, t, f, d) ==
    \E m \in lambda[l].batch :
        /\ m.createdTime = t /\ f \in m.works
        /\ <<t, f>> \in lambda[l].toFetch \/ d \in lambda[l].toIndex \/ m \in Failed(l)

Coming(t, f, d) ==
    d \in stored \/ Waits(t, f) \/ \E l \in Lambdas : WillIndex(l, t, f, d)

\* The same of the announcement of an image.
WillTell(l, t, f, d) ==
    \E m \in lambda[l].batch :
        /\ m.createdTime = t /\ f \in m.works
        /\ <<t, f>> \in lambda[l].toFetch \/ d \in lambda[l].docs \/ m \in Failed(l)

ToBeTold(t, f, d) == Waits(t, f) \/ \E l \in Lambdas : WillTell(l, t, f, d)

Known(t, f, d) == d.kind = "image" /\ d.id \in untold => ToBeTold(t, f, d)

KeepsUp(ids, t, f) ==
    /\ Latest(ids, t, f)
    /\ \A d \in Fresh(t, f) : Coming(t, f, d)
    /\ unheard = FALSE => \A d \in Fresh(t, f) : Known(t, f, d)

CurrentInv ==
    \A g \in MatchedIdentifiers(graph) :
        IdsOf(g) \intersect unmatched = {} =>
            \E t \in 1..clock : \E f \in SetToSeqs(IdsOf(g)) : KeepsUp(IdsOf(g), t, f)

\* A group of the graph is of published works.
LEMMA GroupsArePublished ==
    ASSUME Inv, NEW g \in MatchedIdentifiers(graph)
    PROVE  IdsOf(g) \subseteq Published /\ IdsOf(g) # {}
<1>1. /\ IdsOf(g) # {}
      /\ \A i \in IdsOf(g) : \E n \in WithSource(graph) : n.id = i
  BY IdsOfGroup
<1> QED
  BY <1>1 DEF Inv, GraphInv

LEMMA FreshFits ==
    ASSUME WorksInv, NEW f, Fits(f), NEW t
    PROVE  /\ \A d \in Fresh(t, f) : d.version = t /\ d.id \in OwnIds(ToSet(f))
           /\ \A d, e \in Fresh(t, f) : SameKey(d, e) => d = e
<1> DEFINE docs == Fresh(t, f)
<1>1. docs = Documents(Merged[WorksAt(f, index)], t)
  BY DEF Fresh
<1> HIDE DEF docs
<1>2. /\ \A d \in docs : d.version = t /\ d.id \in OwnIds(ToSet(f))
      /\ \A d, e \in docs : SameKey(d, e) => d = e
  BY <1>1, FreshDocuments
<1> QED
  BY <1>2 DEF docs

\* A group's documents are of its time and have ids of their own.
LEMMA FreshAreOwn ==
    ASSUME Inv, NEW ids \in SUBSET Published, ids # {}, NEW t, NEW f \in SetToSeqs(ids)
    PROVE  /\ Fits(f) /\ ToSet(f) = ids
           /\ \A d \in Fresh(t, f) : d.version = t /\ d.id \in OwnIds(ids)
           /\ \A d, e \in Fresh(t, f) : SameKey(d, e) => d = e
<1>1. WorksInv
  BY DEF Inv
<1>2. Fits(f)
  BY DEF Fits
<1>3. ToSet(f) = ids
  BY <1>1, PublishedTogether, TogetherOrder
<1> QED
  BY <1>1, <1>2, <1>3, FreshFits

\* A step of lambda l keeps up with a group when it drops nothing of it.
LEMMA LambdaKeepsUp ==
    ASSUME NEW ids, NEW t, NEW f, KeepsUp(ids, t, f),
           NEW l \in Lambdas, \A k \in Lambdas \ {l} : lambda'[k] = lambda[k],
           UNCHANGED MatcherVars, InHand' \subseteq InHand,
           \A d \in stored' : d \in stored \/ \E k \in Lambdas : d \in lambda[k].docs,
           \A d \in lambda'[l].docs : d \in lambda[l].docs \/ Older(d, ids, t, f),
           \A m \in queue : m.createdTime = t /\ f \in m.works =>
               \/ m \in queue'
               \/ m \in lambda'[l].batch /\ <<t, f>> \in lambda'[l].toFetch,
           \A d \in Fresh(t, f) : d \in stored => d \in stored',
           \A d \in Fresh(t, f) : WillIndex(l, t, f, d) => Coming(t, f, d)',
           unheard' = FALSE => unheard = FALSE,
           unheard' = FALSE => \A d \in Fresh(t, f) :
               /\ d.kind = "image" /\ d.id \in untold' =>
                      d.id \in untold \/ ToBeTold(t, f, d)'
               /\ d.kind = "image" /\ d.id \in untold' /\ WillTell(l, t, f, d) =>
                      ToBeTold(t, f, d)'
    PROVE  KeepsUp(ids, t, f)'
<1>1. index' = index
  BY DEF MatcherVars
<1>2. Fresh(t, f)' = Fresh(t, f)
  BY <1>1 DEF Fresh
<1>3. \A d : Older(d, ids, t, f) => Older(d, ids, t, f)'
  BY <1>2 DEF Older
<1>4. Latest(ids, t, f)'
  <2>1. ASSUME NEW d \in stored' PROVE Older(d, ids, t, f)
    BY DEF KeepsUp, Latest
  <2>2. ASSUME NEW k \in Lambdas, NEW d \in lambda'[k].docs PROVE Older(d, ids, t, f)
    BY <2>2 DEF KeepsUp, Latest
  <2>3. \A m \in InHand' : \A g \in m.works :
            ToSet(g) \intersect ids # {} => m.createdTime < t \/ (m.createdTime = t /\ g = f)
    BY DEF KeepsUp, Latest
  <2> QED
    BY <1>3, <2>1, <2>2, <2>3 DEF Latest
<1>5. ASSUME NEW k \in Lambdas \ {l}, NEW d
      PROVE  /\ WillIndex(k, t, f, d) => WillIndex(k, t, f, d)'
             /\ WillTell(k, t, f, d) => WillTell(k, t, f, d)'
  <2>1. lambda'[k] = lambda[k]
    OBVIOUS
  <2>2. Failed(k)' = Failed(k)
    BY <2>1 DEF Failed
  <2> QED
    BY <2>1, <2>2 DEF WillIndex, WillTell
<1>6. ASSUME NEW d, Waits(t, f)
      PROVE  Waits(t, f)' \/ (WillIndex(l, t, f, d)' /\ WillTell(l, t, f, d)')
  BY <1>6 DEF Waits, WillIndex, WillTell
<1>7. ASSUME NEW d \in Fresh(t, f) PROVE Coming(t, f, d)'
  <2>1. d \in stored \/ Waits(t, f) \/ \E k \in Lambdas : WillIndex(k, t, f, d)
    BY DEF KeepsUp, Coming
  <2>2. CASE d \in stored
    BY <2>2 DEF Coming
  <2>3. CASE Waits(t, f)
    BY <1>6, <2>3 DEF Coming
  <2>4. CASE \E k \in Lambdas : WillIndex(k, t, f, d)
    BY <1>5, <2>4 DEF Coming
  <2> QED
    BY <2>1, <2>2, <2>3, <2>4
<1>8. ASSUME unheard' = FALSE, NEW d \in Fresh(t, f), d.kind = "image", d.id \in untold'
      PROVE  ToBeTold(t, f, d)'
  <2>1. unheard = FALSE
    BY <1>8
  <2>2. CASE d.id \notin untold
    BY <1>8, <2>2
  <2>3. CASE d.id \in untold
    <3>1. Waits(t, f) \/ \E k \in Lambdas : WillTell(k, t, f, d)
      BY <1>8, <2>1, <2>3 DEF KeepsUp, Known, ToBeTold
    <3>2. CASE Waits(t, f)
      BY <1>6, <3>2 DEF ToBeTold
    <3>3. CASE \E k \in Lambdas : WillTell(k, t, f, d)
      BY <1>5, <1>8, <3>3 DEF ToBeTold
    <3> QED
      BY <3>1, <3>2, <3>3
  <2> QED
    BY <2>2, <2>3
<1>9. unheard' = FALSE => \A d \in Fresh(t, f)' : Known(t, f, d)'
  BY <1>2, <1>8 DEF Known
<1> QED
  BY <1>2, <1>4, <1>7, <1>9 DEF KeepsUp

LEMMA ReceiveKeepsUp ==
    ASSUME Inv, NEW ids, NEW t, NEW f, KeepsUp(ids, t, f),
           NEW l \in Lambdas, NEW batch \in SUBSET queue, Receive(l, batch)
    PROVE  KeepsUp(ids, t, f)'
<1>1. /\ \A k \in Lambdas \ {l} : lambda'[k] = lambda[k]
      /\ lambda'[l].batch = batch
      /\ lambda'[l].toFetch = UNION {{m.createdTime} \X m.works : m \in batch}
      /\ lambda'[l].docs = {}
      /\ UNCHANGED MatcherVars
  BY ReceiveBecomes DEF Becomes, Inv
<1>2. /\ queue' = queue \ batch
      /\ UNCHANGED <<stored, untold, unheard>>
      /\ lambda[l] = IdleLambda
  BY DEF Receive
<1>3. InHand' \subseteq InHand
  BY ReceiveKeeps
<1>4. \A d : ~WillIndex(l, t, f, d) /\ ~WillTell(l, t, f, d)
  BY <1>2, IdleHasNothing DEF WillIndex, WillTell
<1>5. ASSUME NEW m \in queue, m.createdTime = t, f \in m.works
      PROVE  m \in queue' \/ (m \in lambda'[l].batch /\ <<t, f>> \in lambda'[l].toFetch)
  BY <1>1, <1>2, <1>5
<1> QED
  BY <1>1, <1>2, <1>3, <1>4, <1>5, LambdaKeepsUp

LEMMA FetchAndMergeKeepsUp ==
    ASSUME Inv, NEW ids \in SUBSET Published, ids # {}, NEW t, NEW f \in SetToSeqs(ids),
           KeepsUp(ids, t, f), NEW l \in Lambdas, FetchAndMerge(l)
    PROVE  KeepsUp(ids, t, f)'
<1>1. PICK x \in lambda[l].toFetch :
          LET docs == Documents(Merged[WorksAt(x[2], index)], x[1])
          IN  Becomes(l, lambda[l].batch, lambda[l].toFetch \ {x},
                      lambda[l].docs \union docs, lambda[l].toIndex \union docs,
                      lambda[l].refused, lambda[l].unmerged)
  BY FetchAndMergeBecomes DEF Inv
<1> DEFINE docs == Fresh(x[1], x[2])
<1>2. /\ UNCHANGED MatcherVars
      /\ UNCHANGED <<queue, stored, untold, unheard>>
  BY FetchAndMergeBecomes DEF Inv
<1>3. /\ \A k \in Lambdas \ {l} : lambda'[k] = lambda[k]
      /\ lambda'[l].batch = lambda[l].batch
      /\ lambda'[l].toFetch = lambda[l].toFetch \ {x}
      /\ lambda'[l].docs = lambda[l].docs \union docs
      /\ lambda'[l].toIndex = lambda[l].toIndex \union docs
      /\ lambda'[l].refused = lambda[l].refused
      /\ lambda'[l].unmerged = lambda[l].unmerged
  BY <1>1 DEF Becomes, Fresh
<1>4. PICK m \in lambda[l].batch : x[1] = m.createdTime /\ x[2] \in m.works
  BY DEF Inv, LambdasInv
<1>5. m \in InHand
  BY DEF InHand
<1>6. WorksInv /\ Fits(x[2])
  BY <1>4, <1>5 DEF Inv, MessagesInv
<1>7. \A d \in docs : d.version = x[1] /\ d.id \in OwnIds(ToSet(x[2]))
  BY <1>6, FreshFits
<1>8. ASSUME NEW d \in docs PROVE Older(d, ids, t, f)
  <2> SUFFICES ASSUME d.id \in OwnIds(ids)
               PROVE  d.version < t \/ (d.version = t /\ d \in Fresh(t, f))
    BY DEF Older
  <2>1. ToSet(x[2]) \subseteq Published
    BY <1>6, FittingOrder
  <2>2. ToSet(x[2]) \intersect ids # {}
    BY <1>6, <1>7, <2>1, DocumentsMeet
  <2>3. m.createdTime < t \/ (m.createdTime = t /\ x[2] = f)
    BY <1>4, <1>5, <2>2 DEF KeepsUp, Latest
  <2> QED
    BY <1>4, <1>7, <2>3
<1>9. InHand' \subseteq InHand
  BY FetchAndMergeKeeps
<1>10. Failed(l) \subseteq Failed(l)'
  BY <1>3 DEF Failed
<1>11. <<t, f>> = x => docs = Fresh(t, f)
  OBVIOUS
<1> HIDE DEF docs
<1>12. ASSUME NEW d \in Fresh(t, f), WillIndex(l, t, f, d)
       PROVE  WillIndex(l, t, f, d)'
  BY <1>3, <1>10, <1>11, <1>12 DEF WillIndex
<1>13. ASSUME NEW d \in Fresh(t, f), WillTell(l, t, f, d)
       PROVE  WillTell(l, t, f, d)'
  BY <1>3, <1>10, <1>11, <1>13 DEF WillTell
<1>14. \A d \in lambda'[l].docs : d \in lambda[l].docs \/ Older(d, ids, t, f)
  BY <1>3, <1>8
<1> QED
  BY <1>2, <1>3, <1>9, <1>12, <1>13, <1>14, LambdaKeepsUp DEF Coming, ToBeTold

LEMMA IndexDocumentKeepsUp ==
    ASSUME Inv, NEW ids \in SUBSET Published, ids # {}, NEW t \in 1..clock,
           NEW f \in SetToSeqs(ids), KeepsUp(ids, t, f), NEW l \in Lambdas, IndexDocument(l)
    PROVE  KeepsUp(ids, t, f)'
<1>1. PICK new \in lambda[l].toIndex :
          /\ Becomes(l, lambda[l].batch, lambda[l].toFetch, lambda[l].docs,
                     lambda[l].toIndex \ {new}, lambda[l].refused, lambda[l].unmerged)
          /\ stored' = PutDocument(stored, new)
          /\ untold' = IF new.kind = "image" /\ stored' # stored
                       THEN untold \union {new.id} ELSE untold
  BY IndexDocumentBecomes DEF Inv
<1>2. /\ UNCHANGED MatcherVars /\ queue' = queue /\ unheard' = unheard
  BY IndexDocumentBecomes DEF Inv
<1>3. /\ \A k \in Lambdas \ {l} : lambda'[k] = lambda[k]
      /\ lambda'[l].batch = lambda[l].batch
      /\ lambda'[l].toFetch = lambda[l].toFetch
      /\ lambda'[l].docs = lambda[l].docs
      /\ lambda'[l].toIndex = lambda[l].toIndex \ {new}
      /\ lambda'[l].refused = lambda[l].refused
      /\ lambda'[l].unmerged = lambda[l].unmerged
  BY <1>1 DEF Becomes
<1>4. InHand' \subseteq InHand
  BY IndexDocumentKeeps
<1>5. Failed(l)' = Failed(l)
  BY <1>3 DEF Failed
<1>6. PICK m \in lambda[l].batch : MadeFor(new, m)
  BY DEF Inv, LambdasInv
<1>7. new \in lambda[l].docs
  BY DEF Inv, LambdasInv
<1>8. /\ \A d, e \in stored : SameKey(d, e) => d = e
      /\ \A d \in stored : d.version \in 1..clock
      /\ clock \in Nat /\ t \in Nat
  BY DEF Inv, StoredInv, WorksInv
<1>9. /\ stored' \subseteq stored \union {new}
      /\ \A d \in stored : d \in stored' \/ SameKey(d, new)
      /\ new \in stored' \/ \E e \in stored : SameKey(e, new) /\ e.version > new.version
      /\ \A d \in stored : d \in stored' \/ ~(d.version > new.version)
  BY <1>1, <1>8, PutOneDocument
<1>10. /\ Older(new, ids, t, f)
       /\ \A d \in stored : Older(d, ids, t, f)
  BY <1>7 DEF KeepsUp, Latest
<1>11. /\ \A d \in Fresh(t, f) : d.version = t /\ d.id \in OwnIds(ids)
       /\ \A d, e \in Fresh(t, f) : SameKey(d, e) => d = e
  BY FreshAreOwn
\* A current document with the key of the new one is the new one, or later.
<1>12. ASSUME NEW d \in Fresh(t, f), SameKey(d, new)
       PROVE  (new.version = t /\ new = d) \/ new.version < t
  BY <1>10, <1>11, <1>12 DEF Older, SameKey
<1>13. ASSUME NEW d \in Fresh(t, f), d \in stored
       PROVE  d \in stored'
  <2>1. CASE ~SameKey(d, new)
    BY <1>9, <1>13, <2>1
  <2>2. CASE SameKey(d, new) /\ new.version < t
    BY <1>8, <1>9, <1>11, <1>13, <2>2
  <2>3. CASE SameKey(d, new) /\ new = d
    BY <1>1, <1>8, <1>13, <2>3 DEF PutDocument, SameKey
  <2> QED
    BY <1>12, <2>1, <2>2, <2>3
<1>14. new \in Fresh(t, f) => new \in stored'
  <2> SUFFICES ASSUME new \in Fresh(t, f), NEW e \in stored, SameKey(e, new),
                      e.version > new.version
               PROVE  FALSE
    BY <1>9
  <2>1. e.id \in OwnIds(ids) /\ new.version = t
    BY <1>11 DEF SameKey
  <2>2. e.version < t \/ e.version = t
    BY <1>10, <2>1 DEF Older
  <2>3. e.version \in Nat
    BY <1>8
  <2> QED
    BY <1>8, <2>1, <2>2, <2>3
<1>15. ASSUME NEW d \in Fresh(t, f), WillIndex(l, t, f, d)
       PROVE  Coming(t, f, d)'
  <2>1. CASE d = new
    BY <1>14, <2>1 DEF Coming
  <2>2. CASE d # new
    <3>1. WillIndex(l, t, f, d)'
      BY <1>3, <1>5, <1>15, <2>2 DEF WillIndex
    <3> QED
      BY <3>1 DEF Coming
  <2> QED
    BY <2>1, <2>2
<1>16. ASSUME NEW d, WillTell(l, t, f, d)
       PROVE  WillTell(l, t, f, d)'
  BY <1>3, <1>5, <1>16 DEF WillTell
\* An image that is stored anew is still to be announced by the last result.
<1>17. ASSUME NEW d \in Fresh(t, f), d.kind = "image", d.id \in untold', d.id \notin untold
       PROVE  ToBeTold(t, f, d)'
  <2>1. new.kind = "image" /\ new.id = d.id /\ stored' # stored
    BY <1>1, <1>17
  <2>2. SameKey(d, new)
    BY <1>17, <2>1 DEF SameKey
  <2>3. CASE new = d
    <3>1. PICK h \in m.works : d.id \in OwnIds(ToSet(h))
      BY <1>6, <2>3 DEF MadeFor
    <3>2. m \in InHand /\ m.createdTime = t
      BY <1>6, <1>11, <2>3 DEF InHand, MadeFor
    <3>3. Fits(h) /\ WorksInv
      BY <3>1, <3>2 DEF Inv, MessagesInv
    <3>4. ToSet(h) \subseteq Published
      BY <3>3, FittingOrder
    <3>5. ToSet(h) \intersect ids # {}
      BY <1>11, <3>1, <3>3, <3>4, DocumentsMeet
    <3>6. h = f
      BY <1>8, <3>1, <3>2, <3>5 DEF KeepsUp, Latest
    <3>7. WillTell(l, t, f, d)
      BY <1>7, <2>3, <3>1, <3>2, <3>6 DEF WillTell
    <3> QED
      BY <1>16, <3>7 DEF ToBeTold
  <2>4. CASE new.version < t
    <3>1. d \notin stored
      BY <1>1, <1>8, <1>11, <2>1, <2>2, <2>4 DEF PutDocument, SameKey
    <3>2. Waits(t, f) \/ \E k \in Lambdas : WillIndex(k, t, f, d)
      BY <3>1 DEF KeepsUp, Coming
    <3>3. ASSUME NEW k \in Lambdas, WillIndex(k, t, f, d) PROVE WillTell(k, t, f, d)
      BY <3>3 DEF WillIndex, WillTell, Inv, LambdasInv
    <3>4. ASSUME NEW k \in Lambdas \ {l}, WillTell(k, t, f, d) PROVE WillTell(k, t, f, d)'
      <4>1. lambda'[k] = lambda[k]
        BY <1>3
      <4>2. Failed(k)' = Failed(k)
        BY <4>1 DEF Failed
      <4> QED
        BY <3>4, <4>1, <4>2 DEF WillTell
    <3>5. Waits(t, f) => Waits(t, f)'
      BY <1>2 DEF Waits
    <3> QED
      BY <1>16, <3>2, <3>3, <3>4, <3>5 DEF ToBeTold
  <2> QED
    BY <1>12, <2>2, <2>3, <2>4
<1>18. \A d \in Fresh(t, f) :
           /\ d.kind = "image" /\ d.id \in untold' => d.id \in untold \/ ToBeTold(t, f, d)'
           /\ d.kind = "image" /\ d.id \in untold' /\ WillTell(l, t, f, d) =>
                  ToBeTold(t, f, d)'
  BY <1>16, <1>17 DEF ToBeTold
<1>19. \A d \in stored' : d \in stored \/ \E k \in Lambdas : d \in lambda[k].docs
  BY <1>7, <1>9
<1> QED
  BY <1>2, <1>3, <1>4, <1>13, <1>15, <1>18, <1>19, LambdaKeepsUp

\* A batch ends: what has failed is in the queue again.
LEMMA EndBatchKeepsUp ==
    ASSUME Inv, NEW ids \in SUBSET Published, ids # {}, NEW t,
           NEW f \in SetToSeqs(ids), KeepsUp(ids, t, f), NEW l \in Lambdas,
           lambda' = [lambda EXCEPT ![l] = IdleLambda],
           UNCHANGED MatcherVars, stored' = stored, InHand' \subseteq InHand,
           queue \subseteq queue', Failed(l) \subseteq queue',
           unheard' = FALSE => unheard = FALSE,
           \/ lambda[l].batch \subseteq queue' /\ untold' = untold
           \/ /\ lambda[l].toFetch = {} /\ lambda[l].toIndex = {}
              /\ unheard' = FALSE => untold' = untold \ Announced(l)
    PROVE  KeepsUp(ids, t, f)'
<1>1. /\ \A k \in Lambdas \ {l} : lambda'[k] = lambda[k]
      /\ lambda'[l].docs = {}
  BY EndBatchBecomes DEF Becomes, Inv
<1>2. /\ \A d \in Fresh(t, f) : d.version = t /\ d.id \in OwnIds(ids)
  BY FreshAreOwn
<1>3. ASSUME NEW d \in Fresh(t, f), WillIndex(l, t, f, d)
      PROVE  Coming(t, f, d)'
  BY <1>3 DEF WillIndex, Coming, Waits
<1>4. ASSUME unheard' = FALSE, NEW d \in Fresh(t, f), d.kind = "image", d.id \in untold',
             WillTell(l, t, f, d)
      PROVE  ToBeTold(t, f, d)'
  <2>1. PICK m \in lambda[l].batch :
            /\ m.createdTime = t /\ f \in m.works
            /\ <<t, f>> \in lambda[l].toFetch \/ d \in lambda[l].docs \/ m \in Failed(l)
    BY <1>4 DEF WillTell
  <2>2. CASE m \in queue'
    BY <2>1, <2>2 DEF ToBeTold, Waits
  <2>3. CASE m \notin queue'
    <3>1. d \in lambda[l].docs /\ m \notin Failed(l) /\ untold' = untold \ Announced(l)
      BY <1>4, <2>1, <2>3
    <3>2. \A n \in Failed(l) : n \in InHand /\ n.createdTime = t => n = m
      BY <2>1, FailedAreOfBatch DEF Inv, MessagesInv, InHand
    <3>3. \A n \in Failed(l) : d.version # n.createdTime
      BY <1>2, <3>1, <3>2, FailedAreOfBatch DEF InHand
    <3>4. d.id \in Announced(l)
      BY <1>4, <3>1, <3>3 DEF Announced
    <3> QED
      BY <1>4, <3>1, <3>4
  <2> QED
    BY <2>2, <2>3
<1>5. unheard' = FALSE => untold' \subseteq untold
  OBVIOUS
<1> QED
  BY <1>1, <1>3, <1>4, <1>5, LambdaKeepsUp

LEMMA FetchFailsKeepsUp ==
    ASSUME Inv, NEW ids \in SUBSET Published, ids # {}, NEW t,
           NEW f \in SetToSeqs(ids), KeepsUp(ids, t, f), NEW l \in Lambdas, FetchFails(l)
    PROVE  KeepsUp(ids, t, f)'
<1>1. PICK u :
          Becomes(l, lambda[l].batch, {x \in lambda[l].toFetch : x[1] # u},
                  {d \in lambda[l].docs : d.version # u},
                  {d \in lambda[l].toIndex : d.version # u},
                  lambda[l].refused, lambda[l].unmerged \union {u})
  BY FetchFailsBecomes DEF Inv
<1>2. UNCHANGED MatcherVars /\ UNCHANGED <<queue, stored, untold, unheard>>
  BY FetchFailsBecomes DEF Inv
<1>3. /\ \A k \in Lambdas \ {l} : lambda'[k] = lambda[k]
      /\ lambda'[l].batch = lambda[l].batch
      /\ lambda'[l].toFetch = {x \in lambda[l].toFetch : x[1] # u}
      /\ lambda'[l].docs = {d \in lambda[l].docs : d.version # u}
      /\ lambda'[l].toIndex = {d \in lambda[l].toIndex : d.version # u}
      /\ lambda'[l].refused = lambda[l].refused
      /\ lambda'[l].unmerged = lambda[l].unmerged \union {u}
  BY <1>1 DEF Becomes
<1>4. InHand' \subseteq InHand
  BY FetchFailsKeeps
<1>5. \A m \in lambda[l].batch : m \in Failed(l) \/ m.createdTime = u => m \in Failed(l)'
  BY <1>3 DEF Failed
<1>6. \A d \in Fresh(t, f) : d.version = t
  BY FreshAreOwn
<1>7. ASSUME NEW d \in Fresh(t, f), WillIndex(l, t, f, d)
      PROVE  WillIndex(l, t, f, d)'
  BY <1>3, <1>5, <1>6, <1>7 DEF WillIndex
<1>8. ASSUME NEW d \in Fresh(t, f), WillTell(l, t, f, d)
      PROVE  WillTell(l, t, f, d)'
  BY <1>3, <1>5, <1>6, <1>8 DEF WillTell
<1>9. lambda'[l].docs \subseteq lambda[l].docs
  BY <1>3
<1> QED
  BY <1>2, <1>3, <1>4, <1>7, <1>8, <1>9, LambdaKeepsUp DEF Coming, ToBeTold

LEMMA RefuseDocumentKeepsUp ==
    ASSUME Inv, NEW ids \in SUBSET Published, ids # {}, NEW t,
           NEW f \in SetToSeqs(ids), KeepsUp(ids, t, f), NEW l \in Lambdas,
           RefuseDocument(l)
    PROVE  KeepsUp(ids, t, f)'
<1>1. PICK new \in lambda[l].toIndex :
          Becomes(l, lambda[l].batch, lambda[l].toFetch, lambda[l].docs,
                  lambda[l].toIndex \ {new},
                  lambda[l].refused \union {<<new.kind, new.id>>}, lambda[l].unmerged)
  BY RefuseDocumentBecomes DEF Inv
<1>2. UNCHANGED MatcherVars /\ UNCHANGED <<queue, stored, untold, unheard>>
  BY RefuseDocumentBecomes DEF Inv
<1>3. /\ \A k \in Lambdas \ {l} : lambda'[k] = lambda[k]
      /\ lambda'[l].batch = lambda[l].batch
      /\ lambda'[l].toFetch = lambda[l].toFetch
      /\ lambda'[l].docs = lambda[l].docs
      /\ lambda'[l].toIndex = lambda[l].toIndex \ {new}
      /\ lambda'[l].refused = lambda[l].refused \union {<<new.kind, new.id>>}
      /\ lambda'[l].unmerged = lambda[l].unmerged
  BY <1>1 DEF Becomes
<1>4. InHand' \subseteq InHand
  BY RefuseDocumentKeeps
<1>5. Failed(l) \subseteq Failed(l)'
  BY <1>3 DEF Failed
<1>6. \A m \in lambda[l].batch : m.createdTime = new.version => m \in Failed(l)'
  <2>1. new \in lambda[l].docs
    BY DEF Inv, LambdasInv
  <2> QED
    BY <1>3, <2>1 DEF Failed
<1>7. \A d \in Fresh(t, f) : d.version = t
  BY FreshAreOwn
<1>8. ASSUME NEW d \in Fresh(t, f), WillIndex(l, t, f, d)
      PROVE  WillIndex(l, t, f, d)'
  BY <1>3, <1>5, <1>6, <1>7, <1>8 DEF WillIndex
<1>9. ASSUME NEW d \in Fresh(t, f), WillTell(l, t, f, d)
      PROVE  WillTell(l, t, f, d)'
  BY <1>3, <1>5, <1>9 DEF WillTell
<1> QED
  BY <1>2, <1>3, <1>4, <1>8, <1>9, LambdaKeepsUp DEF Coming, ToBeTold

LEMMA RedeliverKeepsUp ==
    ASSUME Inv, NEW ids, NEW t, NEW f, KeepsUp(ids, t, f), NEW l \in Lambdas, Redeliver(l)
    PROVE  KeepsUp(ids, t, f)'
<1>1. /\ UNCHANGED MatcherVars /\ UNCHANGED <<lambda, stored, untold, unheard>>
      /\ \E m \in lambda[l].batch : queue' = queue \union {m}
  BY DEF Redeliver, MatcherVars
<1>2. InHand' \subseteq InHand
  BY RedeliverKeeps
<1>3. Failed(l)' = Failed(l)
  BY <1>1 DEF Failed
<1>4. ASSUME NEW d
      PROVE  /\ WillIndex(l, t, f, d) => Coming(t, f, d)'
             /\ WillTell(l, t, f, d) => ToBeTold(t, f, d)'
  BY <1>1, <1>3 DEF WillIndex, WillTell, Coming, ToBeTold
<1> QED
  BY <1>1, <1>2, <1>4, LambdaKeepsUp

LEMMA LambdaActionsKeepUp ==
    ASSUME Inv, NEW ids \in SUBSET Published, ids # {}, NEW t \in 1..clock,
           NEW f \in SetToSeqs(ids), KeepsUp(ids, t, f), NEW l \in Lambdas,
           \/ ReceiveAny(l) \/ LambdaStep(l) \/ FetchFails(l) \/ RefuseDocument(l)
           \/ CallFails(l) \/ Redeliver(l) \/ NotifyFails(l)
    PROVE  KeepsUp(ids, t, f)'
<1>1. CASE ReceiveAny(l)
  BY <1>1, ReceiveKeepsUp DEF ReceiveAny
<1>2. CASE FetchAndMerge(l)
  BY <1>2, FetchAndMergeKeepsUp
<1>3. CASE IndexDocument(l)
  BY <1>3, IndexDocumentKeepsUp
<1>4. CASE Finish(l)
  <2>1. /\ lambda' = [lambda EXCEPT ![l] = IdleLambda]
        /\ queue' = queue \union Failed(l)
        /\ lambda[l].toFetch = {} /\ lambda[l].toIndex = {}
        /\ untold' = untold \ Announced(l)
        /\ UNCHANGED MatcherVars /\ UNCHANGED <<stored, unheard>>
    BY <1>4 DEF Finish, EndBatch, Indexed, MatcherVars
  <2>2. InHand' \subseteq InHand
    BY LambdaActionsKeep
  <2> QED
    BY <2>1, <2>2, EndBatchKeepsUp
<1>5. CASE FetchFails(l)
  BY <1>5, FetchFailsKeepsUp
<1>6. CASE RefuseDocument(l)
  BY <1>6, RefuseDocumentKeepsUp
<1>7. CASE CallFails(l)
  <2>1. /\ lambda' = [lambda EXCEPT ![l] = IdleLambda]
        /\ queue' = queue \union lambda[l].batch
        /\ UNCHANGED MatcherVars /\ UNCHANGED <<stored, untold, unheard>>
    BY <1>7 DEF CallFails, MatcherVars
  <2>2. InHand' \subseteq InHand
    BY LambdaActionsKeep
  <2> QED
    BY <2>1, <2>2, EndBatchKeepsUp, FailedAreOfBatch
<1>8. CASE Redeliver(l)
  BY <1>8, RedeliverKeepsUp
<1>9. CASE NotifyFails(l)
  <2>1. /\ lambda' = [lambda EXCEPT ![l] = IdleLambda]
        /\ queue' = queue \union Failed(l)
        /\ lambda[l].toFetch = {} /\ lambda[l].toIndex = {}
        /\ UNCHANGED MatcherVars /\ stored' = stored
        /\ unheard' = TRUE
    BY <1>9 DEF NotifyFails, EndBatch, Indexed, MatcherVars
  <2>2. InHand' \subseteq InHand
    BY LambdaActionsKeep
  <2>3. unheard' # FALSE
    BY <2>1
  <2> QED
    BY <2>1, <2>2, <2>3, EndBatchKeepsUp
<1> QED
  BY <1>1, <1>2, <1>3, <1>4, <1>5, <1>6, <1>7, <1>8, <1>9 DEF LambdaStep

\* The matcher's part: a new result is the last about the groups that it has, and
\* says nothing of the works of other groups.
LEMMA PublishKeepsCurrent ==
    ASSUME Inv, CurrentInv, NEW w, Publish(w)
    PROVE  CurrentInv'
<1>1. /\ Published \subseteq Published'
      /\ unmatched' = unmatched \union {w}
      /\ \A v \in Works \ {w} : index'[v] = index[v]
      /\ UNCHANGED <<graph, clock, queue, lambda, stored, untold, unheard, faults>>
  BY PublishKeeps
<1> SUFFICES ASSUME NEW g \in MatchedIdentifiers(graph), IdsOf(g) \intersect unmatched' = {}
             PROVE  \E t \in 1..clock : \E f \in SetToSeqs(IdsOf(g)) : KeepsUp(IdsOf(g), t, f)'
  BY <1>1 DEF CurrentInv
<1> DEFINE ids == IdsOf(g)
<1>2. ids \in SUBSET Published /\ ids # {}
  BY GroupsArePublished
<1>3. w \notin ids /\ ids \intersect unmatched = {}
  BY <1>1
<1>4. PICK t \in 1..clock, f \in SetToSeqs(ids) : KeepsUp(ids, t, f)
  BY <1>3 DEF CurrentInv
<1>5. Together(ids)
  BY <1>2, PublishedTogether DEF Inv
<1> HIDE DEF ids
<1>6. \A k \in DOMAIN f : f[k] \in Works \ {w}
  BY <1>3, <1>5, TogetherOrder
<1>7. WorksAt(f, index') = WorksAt(f, index)
  BY <1>1, <1>6 DEF WorksAt
<1>8. Fresh(t, f)' = Fresh(t, f)
  BY <1>7 DEF Fresh
<1>9. \A l : Failed(l)' = Failed(l)
  BY <1>1 DEF Failed
<1>10. \A d : Older(d, ids, t, f) => Older(d, ids, t, f)'
  BY <1>8 DEF Older
<1>11. Latest(ids, t, f)'
  BY <1>1, <1>4, <1>10 DEF KeepsUp, Latest, InHand
<1>12. \A d : /\ Coming(t, f, d) => Coming(t, f, d)'
              /\ Known(t, f, d) => Known(t, f, d)'
  BY <1>1, <1>9 DEF Coming, Known, ToBeTold, Waits, WillIndex, WillTell
<1>13. KeepsUp(ids, t, f)'
  BY <1>1, <1>4, <1>8, <1>11, <1>12 DEF KeepsUp
<1> QED
  BY <1>4, <1>13 DEF ids

LEMMA MatchKeepsCurrent ==
    ASSUME Inv, CurrentInv, NEW w, Match(w)
    PROVE  CurrentInv'
<1> DEFINE stub == Revisions[w][index[w]]
<1>1. WorksInv /\ GraphInv /\ MessagesInv /\ LambdasInv /\ StoredInv
  BY DEF Inv
<1>2. /\ w \in Works /\ w \in Published /\ stub \in WorkStub
      /\ clock' = clock + 1
      /\ unmatched' = unmatched \ {w}
      /\ UNCHANGED <<scenario, index, lambda, stored, untold, unheard, faults>>
  BY <1>1, MatchUpdates
<1>3. PICK before, sources, updated, after, order, m :
          /\ UpdateOf(graph, graph', w, stub, before, sources, updated, after)
          /\ order \in scenario.orders
          /\ m.createdTime = clock'
          /\ m.works = {order[IdsOf(g)] : g \in MatchedIdentifiers(after)}
          /\ queue' = queue \union {m}
  BY <1>1, MatchUpdates
<1> HIDE DEF stub
<1>4. /\ graph \in SUBSET WorkNode /\ Keyed(graph) /\ LinksClosed(graph)
      /\ ComponentsInSubgraphs(graph)
  BY <1>1 DEF GraphInv
<1>5. ASSUME NEW g \in MatchedIdentifiers(after)
      PROVE  /\ IdsOf(g) \subseteq Published \intersect updated
             /\ IdsOf(g) # {}
             /\ order[IdsOf(g)] \in SetToSeqs(IdsOf(g))
             /\ ToSet(order[IdsOf(g)]) = IdsOf(g)
  BY <1>1, <1>2, <1>3, GroupsOfMatch
<1>6. w \in updated /\ Keyed(after)
  <2>1. before \in SUBSET WorkNode /\ Keyed(before)
    BY <1>2, <1>3, <1>4, WritesOfUpdate
  <2>2. \E n \in after : n.id = w
    BY <1>2, <1>3, <2>1, SourcesOfRows DEF UpdateOf
  <2>3. Keyed(after) /\ \A n \in after : n.id \in updated
    BY <1>2, <1>3, <2>1, RowsOfUpdate DEF UpdateOf
  <2> QED
    BY <2>2, <2>3
<1>7. InHand' = InHand \union {m}
  BY <1>2, <1>3 DEF InHand
<1>8. clock \in Nat /\ m.createdTime = clock + 1
  BY <1>1, <1>2, <1>3 DEF WorksInv
<1>9. /\ \A n \in InHand : n.createdTime \in 1..clock
      /\ \A d \in stored : d.version \in 1..clock
      /\ \A l \in Lambdas : \A d \in lambda[l].docs : d.version \in 1..clock
  <2>1. \A n \in InHand : n.createdTime \in 1..clock
    BY <1>1 DEF MessagesInv
  <2>2. \A d \in stored : d.version \in 1..clock
    BY <1>1 DEF StoredInv
  <2>3. ASSUME NEW l \in Lambdas, NEW d \in lambda[l].docs PROVE d.version \in 1..clock
    BY <1>1, <2>1 DEF LambdasInv, MadeFor, InHand
  <2> QED
    BY <2>1, <2>2, <2>3
<1> SUFFICES ASSUME NEW g \in MatchedIdentifiers(graph'), IdsOf(g) \intersect unmatched' = {}
             PROVE  \E t \in 1..clock' : \E f \in SetToSeqs(IdsOf(g)) :
                        KeepsUp(IdsOf(g), t, f)'
  BY DEF CurrentInv
<1>10. CASE g \in MatchedIdentifiers(after)
  <2>4. PICK t : t = clock + 1
    OBVIOUS
  <2> DEFINE ids == IdsOf(g)
             f == order[ids]
  <2>1. t \in 1..clock' /\ f \in SetToSeqs(ids) /\ ToSet(f) = ids
    BY <1>2, <1>5, <1>8, <1>10, <2>4
  <2>2. m \in queue' /\ m.createdTime = t /\ f \in m.works
    BY <1>3, <1>8, <1>10, <2>4
  <2>3. ASSUME NEW h \in m.works, ToSet(h) \intersect ids # {} PROVE h = f
    <3>1. PICK g2 \in MatchedIdentifiers(after) : h = order[IdsOf(g2)]
      BY <1>3
    <3>2. IdsOf(g2) \intersect IdsOf(g) # {}
      BY <1>5, <2>3, <3>1
    <3> QED
      BY <1>6, <1>10, <3>1, <3>2, GroupsAreApart
  <2> HIDE DEF ids, f
  <2>5. Latest(ids, t, f)'
    <3>1. ASSUME NEW n \in InHand', NEW h \in n.works, ToSet(h) \intersect ids # {}
          PROVE  n.createdTime < t \/ (n.createdTime = t /\ h = f)
      <4>1. CASE n = m
        BY <2>2, <2>3, <3>1, <4>1
      <4>2. CASE n \in InHand
        BY <1>8, <1>9, <2>4, <4>2
      <4> QED
        BY <1>7, <4>1, <4>2
    <3>2. \A d : d.version \in 1..clock => Older(d, ids, t, f)'
      BY <1>8, <2>4 DEF Older
    <3> QED
      BY <1>2, <1>9, <3>1, <3>2 DEF Latest
  <2>6. \A d : Coming(t, f, d)' /\ Known(t, f, d)'
    BY <2>2 DEF Coming, Known, ToBeTold, Waits
  <2>7. KeepsUp(ids, t, f)'
    BY <2>5, <2>6 DEF KeepsUp
  <2> QED
    BY <2>1, <2>7 DEF ids
<1>11. CASE g \in MatchedIdentifiers(graph) /\ IdsOf(g) \intersect updated = {}
  <2> DEFINE ids == IdsOf(g)
  <2>1. ids \intersect unmatched = {}
    BY <1>2, <1>6, <1>11
  <2>2. PICK t \in 1..clock, f \in SetToSeqs(ids) : KeepsUp(ids, t, f)
    BY <1>11, <2>1 DEF CurrentInv
  <2>3. t \in 1..clock'
    BY <1>2, <1>8
  <2>4. \A h \in m.works : ToSet(h) \intersect ids = {}
    BY <1>3, <1>5, <1>11
  <2>5. Fresh(t, f)' = Fresh(t, f)
    BY <1>2 DEF Fresh
  <2>6. \A d : Older(d, ids, t, f) => Older(d, ids, t, f)'
    BY <2>5 DEF Older
  <2>7. \A l : Failed(l)' = Failed(l)
    BY <1>2 DEF Failed
  <2> HIDE DEF ids
  <2>8. Latest(ids, t, f)'
    BY <1>2, <1>7, <2>2, <2>4, <2>6 DEF KeepsUp, Latest
  <2>9. \A d : /\ Coming(t, f, d) => Coming(t, f, d)'
               /\ Known(t, f, d) => Known(t, f, d)'
    BY <1>2, <1>3, <2>7 DEF Coming, Known, ToBeTold, Waits, WillIndex, WillTell
  <2>10. KeepsUp(ids, t, f)'
    BY <1>2, <2>2, <2>5, <2>8, <2>9 DEF KeepsUp
  <2> QED
    BY <2>2, <2>3, <2>10 DEF ids
<1> QED
  BY <1>2, <1>3, <1>4, <1>10, <1>11, GroupsOfUpdate

LEMMA StepKeepsCurrent == Inv /\ CurrentInv /\ [Next]_vars => CurrentInv'
<1> SUFFICES ASSUME Inv, CurrentInv, [Next]_vars PROVE CurrentInv'
  OBVIOUS
<1>1. ASSUME NEW w, Publish(w) \/ Match(w) PROVE CurrentInv'
  BY <1>1, PublishKeepsCurrent, MatchKeepsCurrent
<1>2. ASSUME NEW l \in Lambdas,
             \/ ReceiveAny(l) \/ LambdaStep(l) \/ FetchFails(l) \/ RefuseDocument(l)
             \/ CallFails(l) \/ Redeliver(l) \/ NotifyFails(l)
      PROVE  CurrentInv'
  <2>1. UNCHANGED MatcherVars
    <3>1. CASE ReceiveAny(l)
      BY <3>1 DEF ReceiveAny, Receive, MatcherVars
    <3>2. CASE LambdaStep(l)
      BY <3>2 DEF LambdaStep, FetchAndMerge, IndexDocument, Finish, MatcherVars
    <3>3. CASE \/ FetchFails(l) \/ RefuseDocument(l) \/ CallFails(l) \/ Redeliver(l)
               \/ NotifyFails(l)
      BY <3>3 DEF FetchFails, RefuseDocument, CallFails, Redeliver, NotifyFails, MatcherVars
    <3> QED
      BY <1>2, <3>1, <3>2, <3>3
  <2> SUFFICES ASSUME NEW g \in MatchedIdentifiers(graph), IdsOf(g) \intersect unmatched = {}
               PROVE  \E t \in 1..clock : \E f \in SetToSeqs(IdsOf(g)) :
                          KeepsUp(IdsOf(g), t, f)'
    BY <2>1 DEF CurrentInv, MatcherVars
  <2>2. PICK t \in 1..clock, f \in SetToSeqs(IdsOf(g)) : KeepsUp(IdsOf(g), t, f)
    BY DEF CurrentInv
  <2>3. IdsOf(g) \in SUBSET Published /\ IdsOf(g) # {}
    BY GroupsArePublished
  <2>4. KeepsUp(IdsOf(g), t, f)'
    BY <1>2, <2>2, <2>3, LambdaActionsKeepUp
  <2> QED
    BY <2>2, <2>4
<1>3. CASE UNCHANGED vars
  <2>2. \A l : Failed(l)' = Failed(l)
    BY <1>3 DEF vars, Failed
  <2>3. ASSUME NEW ids, NEW t, NEW f, KeepsUp(ids, t, f) PROVE KeepsUp(ids, t, f)'
    <3>1. Fresh(t, f)' = Fresh(t, f)
      BY <1>3 DEF vars, Fresh
    <3>2. Latest(ids, t, f)'
      BY <1>3, <2>3, <3>1 DEF vars, KeepsUp, Latest, Older, InHand
    <3>3. \A d : /\ Coming(t, f, d) => Coming(t, f, d)'
                 /\ Known(t, f, d) => Known(t, f, d)'
      BY <1>3, <2>2 DEF vars, Coming, Known, ToBeTold, Waits, WillIndex, WillTell
    <3> QED
      BY <1>3, <2>3, <3>1, <3>2, <3>3 DEF vars, KeepsUp
  <2> QED
    BY <1>3, <2>3 DEF vars, CurrentInv
<1> QED
  BY <1>1, <1>2, <1>3 DEF Next

LEMMA AlwaysCurrent == Spec => [](Inv /\ FaultsInv /\ CurrentInv)
<1>1. Init => CurrentInv
  BY DEF Init, CurrentInv, MatchedIdentifiers
<1> QED
  BY <1>1, AlwaysInv, StepKeepsCurrent, PTL DEF Spec

----------------------------------------------------------------------------
\* When nothing is left to do, every group has been merged as it is now, in some
\* order; its documents are stored and its images announced.
LEMMA SettledGroups ==
    ASSUME Inv, CurrentInv, Settled, NEW g \in MatchedIdentifiers(graph)
    PROVE  \E f \in SetToSeqs(IdsOf(g)) :
               /\ IsStored(Current(f))
               /\ unheard = FALSE => \A i \in Current(f).images : i.image \notin untold
<1>1. unmatched = {} /\ queue = {} /\ \A l \in Lambdas : lambda[l].batch = {}
  BY IdleHasNothing DEF Settled
<1>2. PICK t \in 1..clock, f \in SetToSeqs(IdsOf(g)) : KeepsUp(IdsOf(g), t, f)
  BY <1>1 DEF CurrentInv
<1> DEFINE outcome == Current(f)
<1>3. Fresh(t, f) = Documents(outcome, t)
  BY DEF Fresh, Current
<1> HIDE DEF outcome
<1>4. /\ ~Waits(t, f)
      /\ \A d : \A l \in Lambdas : ~WillIndex(l, t, f, d) /\ ~WillTell(l, t, f, d)
  BY <1>1 DEF Waits, WillIndex, WillTell
<1>5. \A d \in Documents(outcome, t) : d \in stored
  BY <1>2, <1>3, <1>4 DEF KeepsUp, Coming
<1>6. IsStored(outcome)
  <2> SUFFICES ASSUME NEW d \in Documents(outcome, 0)
               PROVE  \E e \in stored : SameKey(d, e) /\ e.doc = d.doc
    BY DEF IsStored
  <2> DEFINE e == [kind |-> d.kind, id |-> d.id, version |-> t, doc |-> d.doc]
  <2>1. e \in Documents(outcome, t)
    BY DocumentsAtTimes
  <2> QED
    BY <1>5, <2>1 DEF SameKey
<1>7. ASSUME unheard = FALSE, NEW i \in outcome.images PROVE i.image \notin untold
  <2> DEFINE d == Document("image", i.image, t, i)
  <2>1. d \in Fresh(t, f)
    BY <1>3 DEF Documents
  <2>2. d.kind = "image" /\ d.id = i.image
    BY DEF Document
  <2> HIDE DEF d
  <2> QED
    BY <1>2, <1>4, <1>7, <2>1, <2>2 DEF KeepsUp, Known, ToBeTold
<1> QED
  BY <1>6, <1>7 DEF outcome

\* SettledDocumentsAreCurrent, for any works, batches, interleaving of lambdas and
\* faults: once nothing is left to do, works-denormalised and images-initial hold
\* the merge of the current works in their current groups, because the documents
\* of the last result about a group are never replaced by those of earlier ones.
THEOREM SettledIsCurrent == Spec => []SettledDocumentsAreCurrent
<1>1. Inv /\ CurrentInv => SettledDocumentsAreCurrent
  BY SettledGroups DEF SettledDocumentsAreCurrent, DocumentsAreCurrent
<1> QED
  BY <1>1, AlwaysCurrent, PTL

\* ImagesAreAnnounced, likewise: unless SNS refuses one, every image of the current
\* works has been announced after it was last stored, because a message that has
\* yet to announce an image is kept until it does.
THEOREM ImagesAreHeard == Spec => []ImagesAreAnnounced
<1>1. Inv /\ FaultsInv /\ CurrentInv => ImagesAreAnnounced
  <2> SUFFICES ASSUME Inv, FaultsInv, CurrentInv, Settled, ~unheard,
                      NEW g \in MatchedIdentifiers(graph)
               PROVE  \E order \in SetToSeqs(IdsOf(g)) :
                          /\ IsStored(Current(order))
                          /\ \A i \in Current(order).images : i.image \notin untold
    BY DEF ImagesAreAnnounced
  <2>1. unheard = FALSE
    BY Zenon DEF FaultsInv
  <2> QED
    BY <2>1, SettledGroups
<1> QED
  BY <1>1, AlwaysCurrent, PTL

\* LostPartsAreDeleted, likewise: once nothing is left to do, no part that a work
\* has lost, or was deleted with, is visible.
THEOREM LostPartsAreGone == Spec => []LostPartsAreDeleted
<1>1. Inv /\ CurrentInv => LostPartsAreDeleted
  <2> SUFFICES ASSUME Inv, CurrentInv, Settled, NEW w \in Works, index[w] > 0,
                      NEW d \in stored, d.kind = "work", d.doc.status = "visible",
                      d.id \in LostParts(Contents[w][index[w]])
               PROVE  FALSE
    BY DEF LostPartsAreDeleted
  <2>1. w \in Published \ unmatched
    BY DEF Published, Settled
  <2>2. PICK n \in WithSource(graph) : n.id = w
    BY <2>1 DEF Inv, GraphInv
  <2>3. PICK g \in MatchedIdentifiers(graph) : w \in IdsOf(g)
    BY <2>2, SeenWorksAreInGroups
  <2>4. PICK f \in SetToSeqs(IdsOf(g)) : IsStored(Current(f))
    BY SettledGroups
  <2>5. /\ IdsOf(g) \in SUBSET Published /\ IdsOf(g) # {}
        /\ Together(IdsOf(g))
    BY GroupsArePublished, PublishedTogether DEF Inv
  <2>6. PICK docs : docs = Documents(Merged[WorksAt(f, index)], 0)
    OBVIOUS
  <2>7. LostArePut(IdsOf(g), index, docs)
    <3>1. Fits(f) /\ ToSet(f) = IdsOf(g)
      BY <2>5, TogetherOrder DEF Fits
    <3> QED
      BY <2>6, <3>1, FreshLostParts DEF Inv
  <2>8. PICK lost \in docs :
            lost.kind = "work" /\ lost.id = d.id /\ lost.doc.status # "visible"
    BY <2>3, <2>7 DEF LostArePut
  <2>9. PICK e \in stored : SameKey(lost, e) /\ e.doc = lost.doc
    BY <2>4, <2>6, <2>8 DEF IsStored, Current
  <2>10. e = d
    BY <2>8, <2>9 DEF SameKey, Inv, StoredInv
  <2> QED
    BY <2>8, <2>9, <2>10
<1> QED
  BY <1>1, AlwaysCurrent, PTL
=============================================================================
