-------------------------- MODULE MCSerialMatcher --------------------------
(***************************************************************************)
(* Three works and every content they can have: any merge candidates, the  *)
(* work itself among them, suppressed or not, at either of two versions.   *)
(***************************************************************************)
EXTENDS SerialMatcher, FiniteSetsExt, TLC

CONSTANTS A, B, C

MCWorks == {A, B, C}

\* The works differ only in name, and Revisions lists the same contents for
\* each of them up to that name.
MCSymmetry == Permutations(MCWorks)

MCStubs(w, version) ==
    [version : {version}, suppressed : BOOLEAN,
     mergeCandidates : SUBSET (MCWorks \ {w}) \union {{w}}, other : {0}]

\* Appends the members of S to seq.
AppendAll(S, seq) == FoldSet(LAMBDA x, s : Append(s, x), seq, S)

MCRevisions ==
    [w \in MCWorks |-> AppendAll(MCStubs(w, 2), AppendAll(MCStubs(w, 1), <<>>))]
=============================================================================
