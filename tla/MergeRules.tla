----------------------------- MODULE MergeRules -----------------------------
(***************************************************************************)
(* What the merger makes of one group of matched works                     *)
(* (merger/services/Merger.scala and merger/rules): how the group is       *)
(* split, which work of it is the target, whose items the target gets,     *)
(* which works are redirected to it, and which images are published.       *)
(* Everything here is a pure function of the group.                        *)
(*                                                                         *)
(* A group is a set of works, each with its place in the list that was     *)
(* fetched: the merger takes the first of several equals.  The order of    *)
(* items, locations, stubs and documents decides nothing.  An "option" is  *)
(* a set of at most one element.  A work's only image has the work's id.   *)
(* "lms" is Sierra or FOLIO, "archive" is Calm or Axiell, which every rule *)
(* treats alike.                                                           *)
(***************************************************************************)
EXTENDS Naturals, SequencesExt

\* A work of the identified index: what the rules look at.
Sources == {"ebsco", "tei", "archive", "lms", "mets", "miro"}
Statuses == {"visible", "invisible", "deleted"}

Visible(w) == w.status = "visible"
Deleted(w) == w.status = "deleted"
Lms(w) == w.source = "lms"
Miro(w) == w.source = "miro"

AllLocations(w, Kinds) ==
    \A i \in w.items : \A l \in i.locations : l.kind \in Kinds
DigitalKinds == {"iiif", "online"}

SingleItem(w) == Cardinality(w.items) = 1
TeiTarget(w) == w.source = "tei" /\ w.items = {} /\ Visible(w)
ArchiveStub(w) ==
    /\ w.source = "archive"
    /\ SingleItem(w)
    /\ AllLocations(w, {"physical"})
    /\ \A i \in w.items : Cardinality(i.locations) = 1
BornDigitalStub(w) == ArchiveStub(w) /\ w.format = "archivesDigital"
MetsItem(w) == w.source = "mets" /\ SingleItem(w) /\ AllLocations(w, DigitalKinds)
MiroItem(w) == Miro(w) /\ SingleItem(w) /\ AllLocations(w, DigitalKinds)
PhysicalLms(w) ==
    Lms(w) /\ \E i \in w.items : \E l \in i.locations : l.kind = "physical"
Audiovisual(w) == w.format = "audiovisual"
DigitisedAv(w) == Lms(w) /\ Audiovisual(w) /\ \A i \in w.items : ~i.identified
DigitisedMiro(w) == Lms(w) /\ w.digmiro
SmallLms(w) == Lms(w) /\ Cardinality(w.items) <= 1
PictureOrEphemera(w) == Lms(w) /\ w.format \in {"pictures", "ephemera"}
PictureOrObject(w) ==
    Lms(w) /\ w.format \in {"pictures", "digitalImages", "3DObjects"}

\* a names b as a merge candidate.
Linked(a, b) == \E k \in DOMAIN a.candidates : a.candidates[k].id = b.id

----------------------------------------------------------------------------
(***************************************************************************)
(* rules/TargetPrecedence.scala                                            *)
(***************************************************************************)

\* The first kind of target in the order of precedence that a work is of; 7 is
\* of none.
Precedence(w) ==
    Min({k \in 1..7 : \/ k = 1 /\ w.source = "ebsco"
                      \/ k = 2 /\ TeiTarget(w)
                      \/ k = 3 /\ ArchiveStub(w)
                      \/ k = 4 /\ DigitisedAv(w)
                      \/ k = 5 /\ PhysicalLms(w)
                      \/ k = 6 /\ Lms(w)
                      \/ k = 7})

\* a is found before b, or is b.
ComesFirst(a, b) ==
    \/ Precedence(a) < Precedence(b)
    \/ Precedence(a) = Precedence(b) /\ a.place <= b.place

\* The work that is found first, if it is visible: when it is not, there is no
\* target at all.
FindTarget(works) ==
    {t \in works : /\ Precedence(t) < 7
                   /\ \A w \in works : ComesFirst(t, w)
                   /\ Visible(t)}

----------------------------------------------------------------------------
(***************************************************************************)
(* The rules of rules/*.scala.  A rule takes the sources of one sort, for  *)
(* targets of one sort.                                                    *)
(***************************************************************************)
Taken(definedForTarget, sources) == IF definedForTarget THEN sources ELSE {}

MetsItems(sources) == {s \in sources : MetsItem(s)}
MiroItems(sources) == {s \in sources : MiroItem(s)}
LmsWorks(sources) == {s \in sources : Lms(s)}
DigitalOrLms(sources) ==
    MetsItems(sources) \union MiroItems(sources) \union LmsWorks(sources)

\* Only when there is exactly one Miro image is it known to be of that item.
TakenSingleMiro(target, sources) ==
    Taken(/\ SmallLms(target) /\ PictureOrObject(target)
          /\ Cardinality(MiroItems(sources)) = 1,
          MiroItems(sources))

\* The places of the candidates that are the other half of a pair.
Pairs(w) == {k \in DOMAIN w.candidates : w.candidates[k].pair}

\* Sources.findFirstLinkedDigitisedLmsWorkFor: the e-bib of a physical bib.
\* The physical bib's own links come first; the e-bib's links only count when
\* the physical bib has none.
LinkedDigitised(target, sources) ==
    LET IsNamed(s, k) == s.id = target.candidates[k].id
        named  == {k \in Pairs(target) : \E s \in sources : IsNamed(s, k)}
        naming == {s \in sources :
                      /\ Lms(s) /\ AllLocations(s, DigitalKinds)
                      /\ \E k \in Pairs(s) : s.candidates[k].id = target.id}
    IN  IF Audiovisual(target) \/ ~PhysicalLms(target) THEN {}
        ELSE IF Pairs(target) # {}
        THEN {s \in sources : \E k \in named : IsNamed(s, k) /\ \A j \in named : k <= j}
        ELSE {s \in naming : \A r \in naming : s.place <= r.place}

ItemsOf(works) == UNION {w.items : w \in works}

\* appendLocationsFrom, when the target has one item; the sources' items beside
\* the target's otherwise.
WithItemsOf(target, sources) ==
    IF SingleItem(target)
    THEN {[i EXCEPT !.locations =
               @ \union UNION {j.locations : j \in ItemsOf(sources)}] :
             i \in target.items}
    ELSE target.items \union ItemsOf(sources)

OnlineItems(w) == {i \in w.items : \E l \in i.locations : l.kind = "online"}

\* ItemsRule, in the order of its orElse: the first rule that takes anything
\* makes the items.
ItemRules(target, sources) ==
    LET tei     == Taken(TeiTarget(target), DigitalOrLms(sources))
        archive == Taken(ArchiveStub(target), DigitalOrLms(sources))
        mets    == Taken(Lms(target), MetsItems(sources))
        miro    == TakenSingleMiro(target, sources)
        pair    == Taken(/\ PhysicalLms(target) /\ ~Audiovisual(target)
                         /\ Pairs(target) # {}, LmsWorks(sources))
    IN  <<[takes |-> tei,     makes |-> ItemsOf(tei)],
          [takes |-> archive, makes |-> ItemsOf(archive)],
          [takes |-> mets,    makes |-> WithItemsOf(target, mets)],
          [takes |-> miro,    makes |-> WithItemsOf(target, miro)],
          [takes |-> pair,    makes |-> target.items \union
              UNION {OnlineItems(d) : d \in LinkedDigitised(target, sources)}]>>

UnmergedItems(target) == IF BornDigitalStub(target) THEN {} ELSE target.items

\* The rules that take anything.
Taking(rules) == {k \in DOMAIN rules : rules[k].takes # {}}

\* Mutant: the last rule that takes anything makes the items.
LastItems(target, sources) ==
    LET rules == ItemRules(target, sources)
    IN  IF Taking(rules) = {} THEN UnmergedItems(target)
        ELSE rules[Max(Taking(rules))].makes

MergedItems(target, sources) ==
    LET rules == ItemRules(target, sources)
    IN  IF Taking(rules) = {} THEN UnmergedItems(target)
        ELSE rules[Min(Taking(rules))].makes

\* A redigitised Miro image is the same as the METS one.
KnownDuplicates(target, sources) ==
    Taken(DigitisedMiro(target) /\ MetsItems(sources) # {}, MiroItems(sources))

\* Every rule's sources count, also those of the rules that made nothing.
ItemSources(target, sources) ==
    (UNION {ItemRules(target, sources)[k].takes : k \in 1..4})
        \union LinkedDigitised(target, sources)
        \union KnownDuplicates(target, sources)

ThumbnailSources(target, sources) ==
    LET wrapper == ArchiveStub(target) \/ TeiTarget(target)
    IN  Taken(Lms(target) \/ wrapper, MetsItems(sources))
            \union Taken(SmallLms(target) \/ wrapper, MiroItems(sources))

IdentifierSources(target, sources) ==
    Taken(target.source = "ebsco", LmsWorks(sources))
        \union Taken(TeiTarget(target),
                     LmsWorks(sources) \union MiroItems(sources)
                         \union {s \in sources : ArchiveStub(s)})
        \union Taken(ArchiveStub(target), DigitalOrLms(sources))
        \union TakenSingleMiro(target, sources)
        \union Taken(DigitisedMiro(target), MiroItems(sources))
        \union LinkedDigitised(target, sources)

\* The lms work that decides about the images, be it the target or a source.
\* (The target is listed first of all, but no source is found before it.)
ImageHolder(target, sources) ==
    LET participants == {target} \union {s \in sources : Visible(s)}
        digmiro      == FindTarget({w \in participants : DigitisedMiro(w)})
    IN  IF digmiro # {} THEN digmiro ELSE FindTarget(LmsWorks(participants))

\* The works whose images are published beside the merged work.
ImageSources(target, sources) ==
    UNION {Taken(PictureOrEphemera(h), MetsItems(sources))
               \union Taken(~DigitisedMiro(h), MiroItems(sources)) :
           h \in ImageHolder(target, sources)}

\* Mutant: what only gives the work its images is not redirected to it.
RedirectWithoutImages(target, sources) ==
    ItemSources(target, sources) \union ThumbnailSources(target, sources)
        \union IdentifierSources(target, sources)

RedirectSources(target, sources) ==
    ItemSources(target, sources) \union ThumbnailSources(target, sources)
        \union IdentifierSources(target, sources)
        \union ImageSources(target, sources)

----------------------------------------------------------------------------
(***************************************************************************)
(* Merger.merge: an outcome has the works to index and the images.         *)
(***************************************************************************)
Ids(S) == {w.id : w \in S}

\* A document of the denormalised index; parent is the work whose stub an inner
\* work is made from, or its own id.
Doc(id, status, items, target, redirects, parent) ==
    [id |-> id, status |-> status, items |-> items, target |-> target,
     redirects |-> redirects, parent |-> parent]
AsItIs(w) == Doc(w.id, w.status, w.items, w.id, {}, w.id)
Redirected(w, target) == Doc(w.id, "redirected", {}, target.id, {}, w.id)
InnerWorks(target, items) ==
    {Doc(id, "visible", items, id, {}, target.id) : id \in target.stubs}
DeletedChild(id, parent) == Doc(id, "deleted", {}, id, {}, parent.id)

\* The target as it is merged, its inner works, and the images under it.
MergeInto(target, sources, deleted) ==
    LET redirected == RedirectSources(target, sources)
        items      == MergedItems(target, sources)
    IN  [works |->
            {Redirected(w, target) : w \in redirected}
                \union {AsItIs(w) : w \in (sources \ redirected) \union deleted}
                \union InnerWorks(target, items)
                \union {Doc(target.id, "visible", items, target.id,
                            Ids(redirected), target.id)},
         images |-> {[image |-> s.id, parent |-> target.id] :
                        s \in ImageSources(target, sources)}]

\* TargetOnlyMergeResult: nobody to merge with.
MergeAlone(target) ==
    LET items == UnmergedItems(target)
    IN  [works |-> InnerWorks(target, items)
             \union {Doc(target.id, "visible", items, target.id, {}, target.id)},
         images |-> {[image |-> w.id, parent |-> w.id] : w \in MiroItems({target})}]

PassThrough(works) == [works |-> {AsItIs(w) : w \in works}, images |-> {}]

MergeWorks(works) ==
    LET target == FindTarget(works)
        First(S) == CHOOSE w \in S : TRUE
    IN  IF Cardinality(works) = 1 /\ Visible(First(works))
        THEN MergeAlone(First(works))
        ELSE IF target = {} THEN PassThrough(works)
        ELSE MergeInto(First(target), {w \in works \ target : ~Deleted(w)},
                       {w \in works : Deleted(w)})

----------------------------------------------------------------------------
\* No link joins a work of C with one of the others, whichever way it points.
Apart(C, works) ==
    \A v \in C, w \in works \ C : ~Linked(v, w) /\ ~Linked(w, v)

\* The works that are connected by their links: no part of them is apart.
Components(works) ==
    {C \in SUBSET works : /\ C # {} /\ Apart(C, works)
                          /\ \A D \in SUBSET C : Apart(D, works) => D \in {{}, C}}

\* Mutant: a group is merged as one, however its works came together.
WholeGroup(works) == {works}

\* Works linked only through a shared Miro image are merged apart; the image
\* goes with the component whose work would be the target of all those that
\* link to it.
PartitionSharedMiro(works) ==
    LET miros      == {w \in works : Miro(w)}
        LinksTo(c, m) == \E w \in c : Linked(w, m)
        bridged    == {c \in Components(works \ miros) : \E m \in miros : LinksTo(c, m)}
        target     == FindTarget(works)
        carved     == {c \in bridged : target \intersect c = {}}
        Linking(m) == {c \in bridged : LinksTo(c, m)}
        Owners(m)  == {c \in Linking(m) : FindTarget(UNION Linking(m)) \intersect c # {}}
        groups     == {c \union {m \in miros : c \in Owners(m)} : c \in carved}
    IN  IF target = {} \/ Cardinality(bridged) <= 1 THEN {works}
        ELSE groups \union {works \ UNION groups}

\* Every audiovisual e-bib is merged with the works linked to it and to no
\* other e-bib, and everything else together.  (The e-bib is listed first, but
\* its place is only compared with those of other lms works.)
PartitionAudiovisual(works) ==
    LET ebibs  == {w \in works : DigitisedAv(w)}
        others == works \ LmsWorks(works)
        LinkedEbibs(o) == {e \in ebibs : Linked(o, e) \/ Linked(e, o)}
        Attached(e) == {o \in others : LinkedEbibs(o) = {e}}
        groups == {{e} \union Attached(e) : e \in {d \in ebibs : Attached(d) # {}}}
    IN  IF Cardinality(works) < 2 \/ \A t \in FindTarget(works) : ~Lms(t) THEN {works}
        ELSE (groups \union {works \ UNION groups}) \ {{}}

\* The parts that a merge of w is to delete.
LostParts(w) == w.removed \union IF Deleted(w) THEN w.stubs ELSE {}

\* Mutant: an inner work that this merge has just made is deleted as well.
DeleteEmittedToo(works, emitted) ==
    UNION {{DeletedChild(id, w) : id \in LostParts(w)} : w \in works}

\* The inner works of a deleted work, and those whose stub has gone from its
\* parent, unless this merge made them again.
DeletedInternalWorks(works, emitted) ==
    UNION {{DeletedChild(id, w) : id \in LostParts(w) \ emitted} : w \in works}

Merge(works) ==
    LET groups   == UNION {PartitionAudiovisual(g) : g \in PartitionSharedMiro(works)}
        outcomes == {MergeWorks(g) : g \in groups}
        emitted  == UNION {o.works : o \in outcomes}
    IN  [works  |-> emitted \union DeletedInternalWorks(works, Ids(emitted)),
         images |-> UNION {o.images : o \in outcomes}]
=============================================================================
