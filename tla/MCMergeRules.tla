---------------------------- MODULE MCMergeRules ----------------------------
(***************************************************************************)
(* Every group of so many works of the shapes of a family, grown one work  *)
(* at a time along the links the transformers make, and what the merger    *)
(* makes of each of them.                                                  *)
(***************************************************************************)
EXTENDS MergeRules, Integers

CONSTANT Families

\* The sorts of works.
Shapes == {"bib", "copies", "picture", "digmiro", "ebib", "av", "avebib", "archive",
           "mets", "miro", "ebsco", "deleted", "tei", "lostit"}

ASSUME FamiliesAssumption == \A f \in Families : f.shapes \subseteq Shapes

VARIABLES
    family,
    works,  \* the group, in the order in which it is fetched
    merged  \* what the merger makes of it

Family(shapes, most) == [shapes |-> shapes, most |-> most]

AnyFamilies ==
    {Family({"bib", "copies", "picture", "digmiro", "archive", "mets", "miro",
             "tei", "lostit"}, 4),
     Family({"av", "avebib", "mets"}, 5)}
OnlineFamilies == {Family({"bib", "ebib", "mets"}, 3)}
DeletedFamilies == {Family({"ebib", "mets", "deleted"}, 3)}

\* The id of the one inner work of a work.
Inner(id) == -id

Located(id, n, kind, identified) ==
    [identified |-> identified,
     locations |-> {[kind |-> kind, from |-> id, nth |-> n]}]
Physical(id, n) == Located(id, n, "physical", TRUE)
Digital(id, kind) == Located(id, 1, kind, FALSE)

Work(id, source, status, items, format) ==
    [id |-> id, place |-> id, source |-> source, status |-> status, items |-> items,
     format |-> format, digmiro |-> FALSE, candidates |-> <<>>,
     stubs |-> {}, removed |-> {}]

\* The works of the shapes that the transformers send.
Shaped(shape, id) ==
    CASE shape = "bib"     -> Work(id, "lms", "visible", {Physical(id, 1)}, "books")
      [] shape = "copies"  -> Work(id, "lms", "visible",
                                   {Physical(id, 1), Physical(id, 2)}, "books")
      [] shape = "picture" -> Work(id, "lms", "visible", {Physical(id, 1)}, "pictures")
      [] shape = "digmiro" -> [Work(id, "lms", "visible", {Physical(id, 1)}, "pictures")
                                   EXCEPT !.digmiro = TRUE]
      [] shape = "ebib"    -> Work(id, "lms", "visible", {Digital(id, "online")}, "books")
      [] shape = "av"      -> Work(id, "lms", "visible", {Physical(id, 1)}, "audiovisual")
      [] shape = "avebib"  -> Work(id, "lms", "visible", {}, "audiovisual")
      [] shape = "archive" -> Work(id, "archive", "visible",
                                   {Located(id, 1, "physical", FALSE)}, "archives")
      [] shape = "mets"    -> Work(id, "mets", "invisible", {Digital(id, "iiif")}, "none")
      [] shape = "miro"    -> Work(id, "miro", "visible", {Digital(id, "iiif")}, "none")
      [] shape = "ebsco"   -> Work(id, "ebsco", "visible", {Digital(id, "online")}, "none")
      [] shape = "deleted" -> Work(id, "lms", "deleted", {}, "none")
      [] shape = "tei"     -> [Work(id, "tei", "visible", {}, "archives")
                                   EXCEPT !.stubs = {Inner(id)}]
      [] shape = "lostit"  -> [Work(id, "tei", "visible", {}, "archives")
                                   EXCEPT !.removed = {Inner(id - 1), Inner(id + 1)}]

\* A physical bib and its e-bib, in either direction (MARC 776).
Ebib(w) == Lms(w) /\ ~Deleted(w) /\ ~PhysicalLms(w)
MayPair(a, b) ==
    /\ Lms(a) /\ Lms(b)
    /\ Ebib(a) # Ebib(b)
    /\ a.format = b.format \/ Deleted(a) \/ Deleted(b)

\* The links the transformers make, from the linking work's source.  A METS work
\* names one record.
MayLink(a, b) ==
    \/ a.source = "lms" /\ b.source \in {"miro", "ebsco", "archive"}
    \/ a.source = "archive" /\ b.source \in {"lms", "miro", "mets"}
    \/ a.source = "mets" /\ a.candidates = <<>> /\ b.source \in {"lms", "archive"}
    \/ a.source = "tei" /\ b.source = "lms"
    \/ MayPair(a, b)

Link(a, b) == [id |-> b.id, pair |-> MayPair(a, b)]
WithLink(a, b) == [a EXCEPT !.candidates = Append(@, Link(a, b))]

RulesInit == family \in Families /\ works = <<>> /\ merged = Merge({})

\* One more work, that links to some of the group and that some of it link to.
AddWork(shape) ==
    /\ Len(works) < family.most
    /\ UNCHANGED family
    /\ LET new == Shaped(shape, Len(works) + 1)
       IN  \E to \in SUBSET {k \in DOMAIN works : MayLink(new, works[k])},
              by \in SUBSET {k \in DOMAIN works : MayLink(works[k], new)} :
              /\ to \union by # {} \/ works = <<>>
              /\ new.source = "mets" => Cardinality(to) <= 1
              /\ works' = Append(
                     [k \in DOMAIN works |-> IF k \in by THEN WithLink(works[k], new)
                                                         ELSE works[k]],
                     [new EXCEPT !.candidates =
                         [k \in 1..Cardinality(to) |-> Link(new, works[SetToSeq(to)[k]])]])

RulesNext ==
    /\ \E shape \in family.shapes : AddWork(shape)
    /\ merged' = Merge(ToSet(works'))

RulesSpec == RulesInit /\ [][RulesNext]_<<family, works, merged>>

----------------------------------------------------------------------------
DocsOf(outcome, id) == {d \in outcome.works : d.id = id}
RedirectsOf(outcome) == {d \in outcome.works : d.status = "redirected"}

\* Every work that goes in comes out, and no id comes out twice (MergerManager
\* asserts only that there are enough works): the indexer gives all documents of
\* a message the same version, so that the later of two would win.  Two works
\* may both say that they have lost the same inner work.
EveryWorkComesOutOnce ==
    /\ DOMAIN works \subseteq Ids(merged.works)
    /\ \A d, e \in merged.works : d.id = e.id =>
           d = e \/ {d.status, e.status} = {"deleted"}

LocationsOf(d) == UNION {i.locations : i \in d.items}

\* A digitised work that is redirected leaves its location on the target, and
\* on nothing else.
DigitisationIsKept ==
    \A d \in RedirectsOf(merged) : works[d.id].source = "mets" =>
        \A t \in merged.works : t.parent = t.id =>
            (LocationsOf(works[d.id]) \subseteq LocationsOf(t) <=> t.id = d.target)

Connected(S, a, b) ==
    \E c \in Components(S) : {a, b} \subseteq c

\* Bibs that only share a Miro image keep their METS and archive works apart
\* (partitionSharedMiro: "must not pool their METS or Axiell works on one
\* target").
NoPoolingThroughMiro ==
    \A d \in RedirectsOf(merged) : ~Miro(works[d.id]) =>
        Connected({w \in ToSet(works) : ~Miro(w)}, works[d.id], works[d.target])

\* An image is published under one work, which is the work its Miro or METS
\* work is redirected to, or that work itself.
ImagesHaveOneParent ==
    \A i \in merged.images :
        /\ \A j \in merged.images : i.image = j.image => i = j
        /\ \E d \in DocsOf(merged, i.image) : d.target = i.parent

\* A METS work linked to one audiovisual e-bib is merged into it and into no
\* other bib (partitionAudiovisual: "Carve each AV e-bib out with the works
\* linked directly to it").
EbibsKeepTheirMets ==
    LET Ebibs(w) == {e \in ToSet(works) : DigitisedAv(e) /\ (Linked(w, e) \/ Linked(e, w))}
    IN  \A d \in RedirectsOf(merged) :
            /\ Lms(works[d.target])
            /\ works[d.id].source = "mets"
            /\ Cardinality(Ebibs(works[d.id])) = 1
            => works[d.target] \in Ebibs(works[d.id])

\* The online items of an e-bib that is merged into its physical bib are kept
\* (ItemsRule.scala: "make sure we copy any items from the digitised bib that
\* are stored in the 856 web link field").
OnlineItemsAreKept ==
    \A d \in RedirectsOf(merged) :
        Lms(works[d.id]) /\ PhysicalLms(works[d.target]) =>
            \A t \in DocsOf(merged, d.target) :
                OnlineItems(works[d.id]) \subseteq t.items

\* A deleted work changes nothing about how the others, linked to each other
\* without it, are merged
\* (PlatformMergerTest.scala: "ignores a deleted Work when deciding how to
\* merge the other Works").
DeletedWorksAreIgnored ==
    LET living == {w \in ToSet(works) : ~Deleted(w)}
    IN  Cardinality(Components(living)) = 1 =>
        Merge(living).works \subseteq merged.works
=============================================================================
