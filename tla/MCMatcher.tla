----------------------------- MODULE MCMatcher -----------------------------
EXTENDS Matcher, TLC

CONSTANTS A, B, C, D, t1, t2

MCThreads == {t1, t2}
ThreadSymmetry == Permutations(MCThreads)

MCWorks == {A, B, C}
MCFourWorks == {A, B, C, D}

Content(version, candidates, suppressed) ==
    [version |-> version, suppressed |-> suppressed,
     mergeCandidates |-> candidates, other |-> 0]

\* C -> B -> A, each published once.
OnceRevisions ==
    A :> <<Content(1, {}, FALSE)>>
    @@ B :> <<Content(1, {A}, FALSE)>>
    @@ C :> <<Content(1, {B}, FALSE)>>

\* B -> A -> C, where C is never published, and then B drops its link.
PlaceholderRevisions ==
    A :> <<Content(1, {C}, FALSE)>>
    @@ B :> <<Content(1, {A}, FALSE), Content(1, {}, FALSE)>>
    @@ C :> <<>>

\* The chain C -> B -> A again; B drops its link without a new version, and C
\* is suppressed.
CutRevisions ==
    A :> <<Content(1, {}, FALSE)>>
    @@ B :> <<Content(1, {A}, FALSE), Content(1, {}, FALSE)>>
    @@ C :> <<Content(1, {B}, FALSE), Content(2, {B}, TRUE)>>

----------------------------------------------------------------------------
\* A match during which a row of its subgraph is moved twice by others:
\* D -> C -> A -> B, each published once.
ChainRevisions ==
    A :> <<Content(1, {B}, FALSE)>>
    @@ B :> <<Content(1, {}, FALSE)>>
    @@ C :> <<Content(1, {A}, FALSE)>>
    @@ D :> <<Content(1, {C}, FALSE)>>

IsMatched(w) == \E n \in WithSource(graph) : n.id = w

\* The first thread matches B, and the second the other three in their order.
InTurn ==
    /\ thread[t1].work \in {NoWork, B}
    /\ thread[t1].work = B => IsMatched(A)
    /\ thread[t2].work # B
    /\ thread[t2].work = C => IsMatched(A)
    /\ thread[t2].work = D => IsMatched(C)
    /\ \A t \in Threads : thread[t].state # "failed"
=============================================================================
