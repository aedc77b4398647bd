----------------------------- MODULE OVMClassify -----------------------------
(***************************************************************************)
(* classifyStorage and its evidence cursors (ovm_transform.go and          *)
(* ovm_storage_cursor.go): every slot of the token's storage, in hash      *)
(* order, must be owned by exactly one namespace of the evidence index:    *)
(* balances ('b'), allowances ('a') or known metadata ('k').  Balance      *)
(* slots are queued for conversion.                                        *)
(*                                                                         *)
(* A lookup walks an iterator that stays open from slot to slot.  After    *)
(* ovmEvidenceCursorSteps steps it gives up and seeks, so that sparse      *)
(* storage does not scan all the evidence.                                 *)
(***************************************************************************)
EXTENDS Naturals, Sequences, FiniteSets, FiniteSetsExt

CONSTANTS
    N,     \* hashed slots are 1..N, in byte order
    Steps  \* ovmEvidenceCursorSteps

ASSUME ClassifyAssumption == N \in Nat /\ Steps \in Nat

Slots == 1..N
Prefixes == <<"b", "a", "k">>
Closed == 0        \* a cursor without an iterator
End == N + 1       \* an iterator that is exhausted

VARIABLES
    storage,   \* the slots of the token's storage
    evidence,  \* the slots of each namespace
    visited,   \* the last slot the trie iterator returned
    ns,        \* the namespace being looked up
    cursor,    \* where each namespace's iterator stands
    steps,     \* steps of the current lookup
    found,     \* namespaces that own the slot
    queued,    \* the slots queued as balances
    pc

inputs == <<storage, evidence>>
vars == <<inputs, visited, ns, cursor, steps, found, queued, pc>>

Init ==
    /\ storage \in SUBSET Slots
    /\ evidence \in [DOMAIN Prefixes -> SUBSET Slots]
    /\ visited = 0
    /\ ns = 1
    /\ cursor = [n \in DOMAIN Prefixes |-> Closed]
    /\ steps = 0
    /\ found = {}
    /\ queued = {}
    /\ pc = "next"

\* The first evidence key of n that is at least k.
seek(n, k) == Min({e \in evidence[n] : e >= k} \cup {End})

Later == {s \in storage : s > visited}

\* it.Next on the storage trie.
NextSlot ==
    /\ pc = "next"
    /\ IF Later = {} THEN pc' = "done" /\ UNCHANGED visited
                     ELSE pc' = "open" /\ visited' = Min(Later)
    /\ ns' = 1 /\ found' = {} /\ steps' = 0
    /\ UNCHANGED <<inputs, cursor, queued>>

\* get opens an iterator at the key the first time.
Open ==
    /\ pc = "open"
    /\ cursor' = IF cursor[ns] = Closed THEN [cursor EXCEPT ![ns] = seek(ns, visited)]
                                        ELSE cursor
    /\ pc' = "walk"
    /\ UNCHANGED <<inputs, visited, ns, steps, found, queued>>

Behind == cursor[ns] < visited

M3_Advance ==
    /\ pc = "walk" /\ Behind /\ steps < Steps
    /\ cursor' = [cursor EXCEPT ![ns] = seek(ns, seek(ns, @ + 1) + 1)]
    /\ steps' = steps + 1
    /\ UNCHANGED <<inputs, visited, ns, found, queued, pc>>
Advance ==
    /\ pc = "walk" /\ Behind /\ steps < Steps
    /\ cursor' = [cursor EXCEPT ![ns] = seek(ns, @ + 1)]
    /\ steps' = steps + 1
    /\ UNCHANGED <<inputs, visited, ns, found, queued, pc>>

M1_Reseek ==
    /\ pc = "walk" /\ Behind /\ steps = Steps
    /\ cursor' = [cursor EXCEPT ![ns] = seek(ns, visited + 1)]
    /\ pc' = "look"
    /\ UNCHANGED <<inputs, visited, ns, steps, found, queued>>
Reseek ==
    /\ pc = "walk" /\ Behind /\ steps = Steps
    /\ cursor' = [cursor EXCEPT ![ns] = seek(ns, visited)]
    /\ pc' = "look"
    /\ UNCHANGED <<inputs, visited, ns, steps, found, queued>>

\* The cursor is at the key or past it: the namespace owns the slot or not, and
\* after the last namespace classifySlot decides.
Decide(owners) ==
    IF Cardinality(owners) # 1
      THEN pc' = "rejected" /\ UNCHANGED queued
      ELSE /\ pc' = "next"
           /\ queued' = IF 1 \in owners THEN queued \cup {visited} ELSE queued

Look ==
    /\ pc = "look" \/ (pc = "walk" /\ ~Behind)
    /\ found' = IF cursor[ns] = visited THEN found \cup {ns} ELSE found
    /\ IF ns = Len(Prefixes)
         THEN Decide(found') /\ UNCHANGED ns
         ELSE ns' = ns + 1 /\ pc' = "open" /\ UNCHANGED queued
    /\ steps' = 0
    /\ UNCHANGED <<inputs, visited, cursor>>

\* An iterator fails, a value does not decode, or the context is cancelled.
Fail ==
    /\ pc \notin {"done", "rejected", "failed"}
    /\ pc' = "failed"
    /\ UNCHANGED <<inputs, visited, ns, cursor, steps, found, queued>>

Next == NextSlot \/ Open \/ Advance \/ Reseek \/ Look \/ Fail

Spec == Init /\ [][Next]_vars

-----------------------------------------------------------------------------
(* Properties.                                                             *)

Namespaces == DOMAIN Prefixes
Owners(s) == {n \in Namespaces : s \in evidence[n]}

\* The variables keep the types of the values they stand for.
TypeOK ==
    /\ storage \subseteq Slots /\ queued \subseteq Slots
    /\ evidence \in [Namespaces -> SUBSET Slots]
    /\ visited \in storage \cup {0} /\ ns \in Namespaces
    /\ \A n \in Namespaces : cursor[n] \in evidence[n] \cup {Closed, End}
    /\ steps \in 0..Steps /\ found \subseteq Namespaces
    /\ pc \in {"next", "open", "walk", "look", "done", "rejected", "failed"}

\* However far an iterator walks or seeks, it never passes evidence for a slot
\* that is still to be looked up (ovmStorageCursor.get).
NothingSkipped ==
    /\ TypeOK
    /\ \A n \in Namespaces : cursor[n] # Closed =>
        \A s \in Later : s \in evidence[n] => cursor[n] <= s

\* The classification succeeds only if every slot has exactly one owner, and then
\* the queue holds exactly the balance slots; a slot is refused as unknown or
\* ambiguous only if it is.
ClassifiedExactly ==
    /\ pc = "done" =>
          /\ \A s \in storage : Cardinality(Owners(s)) = 1
          /\ queued = storage \cap evidence[1]
    /\ pc = "rejected" => Cardinality(Owners(visited)) # 1

=============================================================================
