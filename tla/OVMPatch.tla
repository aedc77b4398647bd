------------------------------ MODULE OVMPatch ------------------------------
(***************************************************************************)
(* rebuildPatchedTriePrefix (ovm_transform.go): the leaves of a trie and   *)
(* the patches of the index, two iterators in key order, are merged into a *)
(* stack trie.  A patch replaces the leaf of its key, adds one, or, when   *)
(* it is empty, removes it.  It rebuilds the token's storage, the account  *)
(* trie after the balance conversion, and both again for a genesis         *)
(* allocation.                                                             *)
(***************************************************************************)
EXTENDS Integers

CONSTANTS
    Keys,      \* hashes, in the order of bytes.Compare
    Values,    \* values that are not empty
    None,      \* no leaf, or no patch
    Deleted    \* the empty patch

ASSUME PatchAssumption ==
    /\ Keys \subseteq Nat
    /\ None \notin Values /\ Deleted \notin Values /\ None # Deleted

VARIABLES
    original,  \* the trie's leaves
    patch,     \* the patches below the prefix
    rest,      \* keys the original iterator has yet to return, its current one included
    left,      \* the same of the patch iterator
    out,       \* what the stack trie was given
    last,      \* the last key it was given, -1 before the first
    iterErr,   \* original.Err or patches.Error
    pc

vars == <<original, patch, rest, left, out, last, iterErr, pc>>

Leaves == [Keys -> Values \cup {None}]
Patches == [Keys -> Values \cup {None, Deleted}]

Init ==
    /\ original \in Leaves /\ patch \in Patches
    /\ rest = {k \in Keys : original[k] # None}
    /\ left = {k \in Keys : patch[k] # None}
    /\ out = [k \in Keys |-> None]
    /\ last = -1
    /\ iterErr = FALSE
    /\ pc = "merge"

\* k is the key an iterator stands at.
At(k, keys) == k \in keys /\ \A j \in keys : k <= j

\* stack.Update accepts ascending keys only; an empty value is not passed on.
Update(k, v) ==
    IF v \in {None, Deleted} THEN UNCHANGED <<out, last, pc>>
    ELSE IF k <= last THEN pc' = "failed" /\ UNCHANGED <<out, last>>
    ELSE out' = [out EXCEPT ![k] = v] /\ last' = k /\ UNCHANGED pc

\* usePatch: the patch's key is not after the leaf's.  The leaf of the same key
\* is skipped.
UsePatch(k) ==
    /\ pc = "merge" /\ At(k, left) /\ \A j \in rest : k <= j
    /\ Update(k, patch[k])
    /\ rest' = rest \ {k}
    /\ left' = left \ {k}
    /\ UNCHANGED <<original, patch, iterErr>>

KeepLeaf(k) ==
    /\ pc = "merge" /\ At(k, rest) /\ \A j \in left : k < j
    /\ Update(k, original[k])
    /\ rest' = rest \ {k}
    /\ UNCHANGED <<original, patch, left, iterErr>>

\* An iterator stops early with an error; the loop goes on with the other one.
IteratorFails ==
    /\ pc = "merge" /\ ~iterErr
    /\ \/ rest # {} /\ rest' = {} /\ UNCHANGED left
       \/ left # {} /\ left' = {} /\ UNCHANGED rest
    /\ iterErr' = TRUE
    /\ UNCHANGED <<original, patch, out, last, pc>>

\* Both iterators are exhausted.  Their errors are looked at before the root is.
M2_Finish ==
    /\ pc = "merge" /\ rest = {} /\ left = {}
    /\ pc' = "done"
    /\ UNCHANGED <<original, patch, rest, left, out, last, iterErr>>
Finish ==
    /\ pc = "merge" /\ rest = {} /\ left = {}
    /\ pc' = IF iterErr THEN "failed" ELSE "done"
    /\ UNCHANGED <<original, patch, rest, left, out, last, iterErr>>

\* The context is cancelled, or writing a node or the batch fails.
Fail ==
    /\ pc = "merge"
    /\ pc' = "failed"
    /\ UNCHANGED <<original, patch, rest, left, out, last, iterErr>>

Next ==
    \/ \E k \in Keys : UsePatch(k) \/ KeepLeaf(k)
    \/ IteratorFails \/ Finish \/ Fail

Spec == Init /\ [][Next]_vars

-----------------------------------------------------------------------------
(* Properties.                                                             *)

\* The variables keep the types of the values they stand for.
TypeOK ==
    /\ original \in Leaves /\ patch \in Patches /\ out \in Leaves
    /\ rest \subseteq {k \in Keys : original[k] # None}
    /\ left \subseteq {k \in Keys : patch[k] # None}
    /\ last \in Keys \cup {-1}
    /\ iterErr \in BOOLEAN
    /\ pc \in {"merge", "done", "failed"}

\* What the rebuilt trie has at k.
Patched(k) == IF patch[k] = None THEN original[k]
              ELSE IF patch[k] = Deleted THEN None ELSE patch[k]

\* A root is returned only for the trie in which every patch is applied and
\* every other leaf is kept, also when an iterator failed on the way.
RebuiltExactly == pc = "done" => \A k \in Keys : out[k] = Patched(k)

\* The keys still to come are after the last one given to the stack trie, which
\* rejects any other order.
Ascending == \A k \in rest \cup left : last < k

\* The loop invariant: keys behind both iterators have their final value, the
\* others none, and no iterator is behind the other's patches or leaves.
MergeInv ==
    /\ TypeOK
    /\ Ascending
    /\ pc = "done" => rest = {} /\ left = {} /\ ~iterErr
    /\ ~iterErr => \A k \in rest \ left : patch[k] = None
    /\ ~iterErr => \A k \in Keys : out[k] = IF k \in rest \cup left THEN None ELSE Patched(k)

=============================================================================
