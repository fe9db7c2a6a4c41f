----------------------------- MODULE IdRegistry -----------------------------
(***************************************************************************)
(* What the id minter promises: a source identifier is given a canonical   *)
(* id once and keeps it, and that id is new, or the id of a predecessor    *)
(* that had one already.                                                   *)
(***************************************************************************)
CONSTANTS
    Rows,       \* the keys of the identifiers table
    Ids,        \* the canonical ids
    None,       \* no id
    Succeeds    \* <<r, o>>: the row r may inherit the id of o

VARIABLE registry   \* registry[r]: the canonical id of row r

Init == registry = [r \in Rows |-> None]

\* The rows of new are registered, all at once: each inherits the id of a
\* predecessor that is there already, or has an id that no other row has.
Register(new, id) ==
    /\ \A r \in new :
           /\ registry[r] = None
           /\ \/ \E o \in Rows : <<r, o>> \in Succeeds /\ registry[o] = id[r]
              \/ /\ \A o \in Rows : registry[o] # id[r]
                 /\ \A o \in new \ {r} : id[o] # id[r]
    /\ registry' = [r \in Rows |-> IF r \in new THEN id[r] ELSE registry[r]]

Next == \E new \in SUBSET Rows : \E id \in [new -> Ids] : Register(new, id)

Spec == Init /\ [][Next]_registry
=============================================================================
