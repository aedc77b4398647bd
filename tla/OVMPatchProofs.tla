--------------------------- MODULE OVMPatchProofs ---------------------------
(***************************************************************************)
(* The merge of a trie's leaves with its patches is exact for every set of *)
(* keys, leaves and patches.  MergeInv is inductive.                       *)
(***************************************************************************)
EXTENDS OVMPatch, TLAPS

\* What one Update does to the output, when its key comes after the last one.
LEMMA UpdateEffect ==
    ASSUME MergeInv, NEW k \in rest \cup left, NEW v \in Values \cup {None, Deleted},
           pc = "merge", Update(k, v)
    PROVE  /\ pc' = "merge"
           /\ out' = [out EXCEPT ![k] = IF v = Deleted \/ v = None THEN out[k] ELSE v]
           /\ last' \in {last, k}
           /\ out' \in Leaves
           /\ last' \in Keys \cup {-1}
<1>1. k \in Keys /\ last < k /\ last \in Keys \cup {-1} /\ k \in Nat
  BY PatchAssumption DEF MergeInv, TypeOK, Ascending
<1>2. ~(k <= last)
  BY <1>1, PatchAssumption
<1>3. out \in Leaves
  BY DEF MergeInv, TypeOK
<1>4. CASE v \in {None, Deleted}
  BY <1>1, <1>3, <1>4 DEF Update, Leaves
<1>5. CASE v \notin {None, Deleted}
  BY <1>1, <1>2, <1>3, <1>5 DEF Update, Leaves
<1>. QED BY <1>4, <1>5

\* Every step of the merge preserves the loop invariant.
LEMMA MergeStep ==
    ASSUME MergeInv, [Next]_vars
    PROVE  MergeInv'
<1>0. Keys \subseteq Nat
  BY PatchAssumption
<1>1. ASSUME NEW k \in Keys, UsePatch(k) PROVE MergeInv'
  <2>1. k \in left /\ pc = "merge" /\ patch[k] \in Values \cup {None, Deleted} /\ patch[k] # None
    BY <1>1 DEF UsePatch, At, MergeInv, TypeOK, Patches
  <2>2. /\ pc' = "merge"
        /\ out' = [out EXCEPT ![k] = IF patch[k] = Deleted \/ patch[k] = None THEN out[k] ELSE patch[k]]
        /\ last' \in {last, k}
        /\ out' \in Leaves
        /\ last' \in Keys \cup {-1}
    <3>1. Update(k, patch[k])
      BY <1>1 DEF UsePatch
    <3>. QED BY <2>1, <3>1, UpdateEffect
  <2>3. \A j \in rest' \cup left' : k < j /\ last < j
    BY <1>0, <1>1 DEF UsePatch, At, MergeInv, TypeOK, Ascending
  <2>4. TypeOK'
    BY <1>1, <2>2 DEF UsePatch, MergeInv, TypeOK
  <2>5. Ascending'
    BY <2>2, <2>3 DEF Ascending
  <2>6. ASSUME ~iterErr', NEW j \in Keys
        PROVE  out'[j] = IF j \in rest' \cup left' THEN None ELSE Patched(j)'
    <3>1. out[j] = IF j \in rest \cup left THEN None ELSE Patched(j)
      BY <1>1, <2>6 DEF UsePatch, MergeInv
    <3>2. Patched(j)' = Patched(j)
      BY <1>1 DEF UsePatch, Patched
    <3>3. CASE j = k
      BY <1>1, <2>1, <2>2, <3>1, <3>2, <3>3 DEF UsePatch, Patched, MergeInv, TypeOK, Leaves
    <3>4. CASE j # k
      BY <1>1, <2>2, <3>1, <3>2, <3>4 DEF UsePatch, MergeInv, TypeOK, Leaves
    <3>. QED BY <3>3, <3>4
  <2>7. ~iterErr' => \A j \in rest' \ left' : patch'[j] = None
    BY <1>1 DEF UsePatch, MergeInv
  <2>. QED BY <2>2, <2>4, <2>5, <2>6, <2>7 DEF MergeInv
<1>2. ASSUME NEW k \in Keys, KeepLeaf(k) PROVE MergeInv'
  <2>1. k \in rest /\ k \notin left /\ pc = "merge" /\ original[k] \in Values
    BY <1>0, <1>2 DEF KeepLeaf, At, MergeInv, TypeOK, Leaves
  <2>2. /\ pc' = "merge"
        /\ out' = [out EXCEPT ![k] = IF original[k] = Deleted \/ original[k] = None THEN out[k] ELSE original[k]]
        /\ last' \in {last, k}
        /\ out' \in Leaves
        /\ last' \in Keys \cup {-1}
    <3>1. Update(k, original[k])
      BY <1>2 DEF KeepLeaf
    <3>. QED BY <2>1, <3>1, UpdateEffect
  <2>3. \A j \in rest' \cup left' : k < j /\ last < j
    BY <1>0, <1>2 DEF KeepLeaf, At, MergeInv, TypeOK, Ascending
  <2>4. TypeOK'
    BY <1>2, <2>2 DEF KeepLeaf, MergeInv, TypeOK
  <2>5. Ascending'
    BY <2>2, <2>3 DEF Ascending
  <2>6. ASSUME ~iterErr', NEW j \in Keys
        PROVE  out'[j] = IF j \in rest' \cup left' THEN None ELSE Patched(j)'
    <3>1. out[j] = IF j \in rest \cup left THEN None ELSE Patched(j)
      BY <1>2, <2>6 DEF KeepLeaf, MergeInv
    <3>2. Patched(j)' = Patched(j)
      BY <1>2 DEF KeepLeaf, Patched
    <3>3. CASE j = k
      <4>1. patch[k] = None
        BY <1>2, <2>1, <2>6 DEF KeepLeaf, MergeInv
      <4>2. out'[k] = original[k]
        BY <2>1, <2>2, PatchAssumption DEF MergeInv, TypeOK, Leaves
      <4>. QED BY <1>2, <2>1, <3>2, <3>3, <4>1, <4>2 DEF KeepLeaf, Patched
    <3>4. CASE j # k
      BY <1>2, <2>2, <3>1, <3>2, <3>4 DEF KeepLeaf, MergeInv, TypeOK, Leaves
    <3>. QED BY <3>3, <3>4
  <2>7. ~iterErr' => \A j \in rest' \ left' : patch'[j] = None
    BY <1>2 DEF KeepLeaf, MergeInv
  <2>. QED BY <2>2, <2>4, <2>5, <2>6, <2>7 DEF MergeInv
<1>3. CASE IteratorFails
  BY <1>3 DEF IteratorFails, MergeInv, TypeOK, Ascending
<1>4. CASE Finish
  BY <1>4 DEF Finish, MergeInv, TypeOK, Ascending, Patched
<1>5. CASE Fail
  BY <1>5 DEF Fail, MergeInv, TypeOK, Ascending, Patched
<1>6. CASE UNCHANGED vars
  BY <1>6 DEF vars, MergeInv, TypeOK, Ascending, Patched
<1>. QED BY <1>1, <1>2, <1>3, <1>4, <1>5, <1>6 DEF Next

\* For every set of keys, leaves and patches: keys reach the stack trie in
\* ascending order and have their final value once both iterators passed them.
THEOREM MergeCorrect == Spec => []MergeInv
<1>1. Init => MergeInv
  <2>. SUFFICES ASSUME Init PROVE MergeInv
    OBVIOUS
  <2>1. TypeOK
    BY DEF Init, TypeOK, Leaves
  <2>2. Ascending
    <3>1. \A k \in rest \cup left : k \in Nat
      BY PatchAssumption DEF Init
    <3>2. \A k \in Nat : -1 < k
      OBVIOUS
    <3>. QED BY <3>1, <3>2 DEF Init, Ascending
  <2>3. \A k \in rest \ left : patch[k] = None
    BY DEF Init
  <2>4. \A k \in Keys : out[k] = IF k \in rest \cup left THEN None ELSE Patched(k)
    BY DEF Init, Patched
  <2>. QED BY <2>1, <2>2, <2>3, <2>4 DEF Init, MergeInv
<1>2. MergeInv /\ [Next]_vars => MergeInv'
  BY MergeStep
<1>. QED BY <1>1, <1>2, PTL DEF Spec

\* For every set of keys, leaves and patches: a root is returned only for the
\* trie with every patch applied and every other leaf kept, never after an
\* iterator stopped early.
THEOREM RebuiltCorrect == Spec => []RebuiltExactly
<1>1. MergeInv => RebuiltExactly
  BY DEF MergeInv, RebuiltExactly
<1>. QED BY <1>1, MergeCorrect, PTL

=============================================================================
