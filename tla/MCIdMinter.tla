----------------------------- MODULE MCIdMinter -----------------------------
(***************************************************************************)
(* Source ids a, its variant in another case, b and c; b succeeds a.       *)
(***************************************************************************)
EXTENDS IdMinter, TLC

CONSTANTS a, variant, b, c, rowA, rowB, rowC, m1, m2, id1, id2, id3

MCMinters == {m1, m2}
MCSourceIds == {a, variant, b, c}
MCRows == {rowA, rowB, rowC}
MCRowOf == a :> rowA @@ variant :> rowA @@ b :> rowB @@ c :> rowC
MCIds == {id1, id2, id3}
MCSymmetry == Permutations(MCMinters) \union Permutations(MCIds)

New(s) == [sid |-> s, pred |-> None]
Successor(s, p) == [sid |-> s, pred |-> p]

\* New source ids, alone and together; a successor, with its predecessor's own
\* request, with another new id, and before its predecessor is known; the same
\* source id without the predecessor; both spellings at once; a conflict.
MCBatches == {
    {New(a), New(c)},
    {New(a), New(variant)},
    {New(variant), Successor(b, a)},
    {New(b)},
    {Successor(b, variant), New(c)},
    {New(b), Successor(b, a)}}
=============================================================================
