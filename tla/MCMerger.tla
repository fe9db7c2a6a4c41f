------------------------------ MODULE MCMerger ------------------------------
EXTENDS Merger

CONSTANTS l1, l2

MCLambdas == {l1, l2}
LambdaSymmetry == Permutations(MCLambdas)

\* The works have their ids for names; 0 is the inner work of the TEI works.
MCWorks == 1..6
Inner == 0

Item(id, kind) ==
    [identified |-> kind = "physical",
     locations |-> {[kind |-> kind, from |-> id, nth |-> 1]}]

Work(id, source, status, items, format, links, version) ==
    [id |-> id, place |-> 0, source |-> source, status |-> status, items |-> items,
     format |-> format, digmiro |-> FALSE,
     candidates |-> [k \in DOMAIN links |-> [id |-> links[k], pair |-> FALSE]],
     stubs |-> {}, removed |-> {}, version |-> version]

Picture(id, links, version) ==
    Work(id, "lms", "visible", {Item(id, "physical")}, "pictures", links, version)
Mets(id, links, version) ==
    Work(id, "mets", "invisible", {Item(id, "iiif")}, "none", links, version)
Tei(id, status, stubs, removed, version) ==
    [Work(id, "tei", status, {}, "archives", <<1>>, version)
        EXCEPT !.stubs = stubs, !.removed = removed]

\* A picture; its digitisation, which turns out to be of something else; a
\* manuscript that loses its only part; one that is deleted with it; a
\* picture that is as good a target as the first, whichever comes first; and a
\* digitisation that is withdrawn, with its image.
MCContents ==
    1 :> <<Picture(1, <<>>, 1)>>
    @@ 2 :> <<Mets(2, <<1>>, 1), Mets(2, <<>>, 2)>>
    @@ 3 :> <<Tei(3, "visible", {Inner}, {}, 1), Tei(3, "visible", {}, {Inner}, 2)>>
    @@ 4 :> <<Tei(4, "visible", {Inner}, {}, 1), Tei(4, "deleted", {Inner}, {}, 2)>>
    @@ 5 :> <<Picture(5, <<1>>, 1), Picture(5, <<1>>, 2)>>
    @@ 6 :> <<Mets(6, <<1>>, 1), [Mets(6, <<1>>, 2) EXCEPT !.status = "deleted"]>>

MCRevisions ==
    [w \in MCWorks |-> [i \in DOMAIN MCContents[w] |-> StubOf(MCContents[w][i])]]

Ascending == [ids \in SUBSET MCWorks |-> SetToSortSeq(ids, <)]
Descending == [ids \in SUBSET MCWorks |-> SetToSortSeq(ids, >)]

Scenario(works, maxBatch, orders) ==
    [works |-> works, maxBatch |-> maxBatch, orders |-> orders]
MCScenarios ==
    {Scenario({1, 2}, 2, {Ascending}), Scenario({1, 3}, 1, {Ascending}),
     Scenario({1, 4}, 1, {Ascending}), Scenario({1, 5}, 1, {Ascending, Descending}),
     Scenario({1, 6}, 1, {Ascending})}
Digitised == {Scenario({1, 2}, 1, {Ascending})}
=============================================================================
