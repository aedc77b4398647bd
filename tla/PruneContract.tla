--------------------------- MODULE PruneContract ---------------------------
(***************************************************************************)
(* What the prune command promises (docs/prune.md): while it owns the      *)
(* database it only ever takes garbage out, it may stop at any point, and  *)
(* it reports "clean" only when no garbage is left.                        *)
(***************************************************************************)
VARIABLES
    addressed,  \* the content-addressed keys
    needed,     \* the records of the head's state and the genesis root node
    db,         \* the keys present
    owner,      \* "free", "prune" or "node"
    outcome     \* of the last invocation: "none", "failed", "checked", "clean"

vars == <<addressed, needed, db, owner, outcome>>

Garbage == (db \cap addressed) \ needed

Init == owner = "free" /\ outcome = "none"

Start ==
    /\ owner = "free" /\ owner' = "prune" /\ outcome' = "none"
    /\ UNCHANGED <<addressed, needed, db>>

Refuse ==
    /\ owner \in {"free", "node"} /\ outcome' = "failed"
    /\ UNCHANGED <<addressed, needed, db, owner>>

Delete ==
    /\ owner = "prune"
    /\ \E S \in SUBSET Garbage : db' = db \ S
    /\ UNCHANGED <<addressed, needed, owner, outcome>>

Stop ==
    /\ owner = "prune" /\ owner' = "free" /\ outcome' = "failed"
    /\ \E S \in SUBSET Garbage : db' = db \ S
    /\ UNCHANGED <<addressed, needed>>

(* A dry run reports without writing; a full one reports that it is done. *)
Report ==
    /\ owner = "prune" /\ owner' = "free"
    /\ \/ outcome' = "checked"
       \/ outcome' = "clean" /\ Garbage = {}
    /\ needed \subseteq db \cap addressed
    /\ UNCHANGED <<addressed, needed, db>>

NodeStart ==
    /\ owner = "free" /\ owner' = "node"
    /\ UNCHANGED <<addressed, needed, db, outcome>>

NodeBlock ==
    /\ owner = "node"
    /\ db \subseteq db'
    /\ UNCHANGED <<addressed, owner, outcome>>

NodeStop ==
    /\ owner = "node" /\ owner' = "free"
    /\ UNCHANGED <<addressed, needed, db, outcome>>

Next == Start \/ Refuse \/ Delete \/ Stop \/ Report \/ NodeStart \/ NodeBlock \/ NodeStop

Spec == Init /\ [][Next]_vars
=============================================================================
