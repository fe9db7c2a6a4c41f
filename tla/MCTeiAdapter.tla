---------------------------- MODULE MCTeiAdapter ----------------------------
EXTENDS TeiAdapter, TLC, FiniteSets, Sequences

CONSTANTS p1, p2, p3, A, B, x, y

MCPaths == {p1, p2, p3}
MCIds == {A, B}
MCTexts == {x, y}

\* No id is in two files.
TreesWith(texts) ==
    {files \in [MCPaths -> [id : MCIds, text : texts] \union {NoFile}] :
        \A p, q \in MCPaths :
            files[p] # NoFile /\ files[q] # NoFile /\ files[p].id = files[q].id
                => p = q}

MCTrees == {files \in TreesWith(MCTexts) :
               \A p \in MCPaths : files[p] # NoFile /\ files[p].text = y => files[p].id = A}

TeiSymmetry == Permutations(MCPaths)

----------------------------------------------------------------------------
\* For MCTeiDuplicate.cfg, a change that is delivered again after three more polls.

TreeWith(a, b, c) ==
    [p \in MCPaths |-> CASE p = p1 -> a [] p = p2 -> b [] p = p3 -> c]

\* A is edited at p1 and moves to p3; B comes to p1 and goes back; then B takes
\* the path of A, which moves again.
Course ==
    LET Old == [id |-> A, text |-> x]
        New == [id |-> A, text |-> y]
        Other == [id |-> B, text |-> x]
    IN  <<TreeWith(Old, Other, NoFile),
          TreeWith(New, Other, NoFile),
          TreeWith(Other, NoFile, New),
          TreeWith(NoFile, Other, New),
          TreeWith(NoFile, New, Other)>>

\* The repository takes this course, and is polled after each push.
InCourse == tree = Course[pushes + 1] /\ now <= pushes
=============================================================================
