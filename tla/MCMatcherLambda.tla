-------------------------- MODULE MCMatcherLambda --------------------------
EXTENDS MatcherLambda, TLC

CONSTANTS A, B, l1, l2

MCWorks == {A, B}
MCLambdas == {l1, l2}
MCThreads == MCLambdas \X MCWorks
LambdaSymmetry == Permutations(MCLambdas)

Content(version, candidates) ==
    [version |-> version, suppressed |-> FALSE,
     mergeCandidates |-> candidates, other |-> 0]

\* B links to A, and then drops the link without a new version.
CutRevisions ==
    A :> <<Content(1, {})>> @@ B :> <<Content(1, {A}), Content(1, {})>>
=============================================================================
