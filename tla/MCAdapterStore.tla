--------------------------- MODULE MCAdapterStore ---------------------------
EXTENDS AdapterStore, TLC

CONSTANTS r1, r2, c1, c2, c3

MCIds == {r1, r2}
MCContents == {c1, c2, c3}

NoSnapshots == <<>>
NoRevisions == [id \in MCIds |-> <<>>]

\* r1 is edited, deleted and restored with new content, r2 restored.
MCRevisions ==
    r1 :> <<c1, c2, NoContent, c3>> @@ r2 :> <<c1, NoContent, c2>>

\* r1 goes back to what it was.
RecurringRevisions == r1 :> <<c1, c2, c1>> @@ r2 :> <<>>

\* r1 comes at any time, stays and changes; r2 comes, goes and comes back, with
\* content that it did not have when it went.
FreshSnapshots ==
    LET At(c) == {s \in UNION {[S -> MCContents] : S \in SUBSET MCIds} :
                     r2 \in DOMAIN s => s[r2] = c}
        Lasting(c) == {s \in At(c) : r1 \in DOMAIN s}
    IN  <<At(c1), Lasting(c2), Lasting(c3), [{r1} -> MCContents]>>

\* r2 goes and comes back as it was.
RestoredSnapshots ==
    LET any == {<<>>} \union [{r2} -> {c1}] \union [MCIds -> {c1}]
    IN  <<any, any, any>>
=============================================================================
