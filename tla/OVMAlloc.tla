------------------------------ MODULE OVMAlloc ------------------------------
(***************************************************************************)
(* The operator's lists.  The retain list and then the genesis allocation  *)
(* are streamed into the evidence index (ovm_retention.go,                 *)
(* ovm_alloc_input.go).  The listed contracts are checked, and             *)
(* applyOVMGenesisAlloc lays the allocation over the converted state       *)
(* (ovm_alloc.go), rebuilding the storage of every account with slots and  *)
(* then the account trie by the merge of OVMPatch.                         *)
(*                                                                         *)
(* The retain list is a sequence of addresses.  The allocation is the      *)
(* sequence of tokens that the JSON decoder hands out, as                  *)
(* [kind, key, value] records: "account" and "end" around the fields       *)
(* "balance", "nonce", "code", "storage" and the "slot"s that follow       *)
(* "storage".  An account's root stands for its storage.  Addresses and    *)
(* slots are their hashes.                                                 *)
(***************************************************************************)
EXTENDS OVMPatch, Sequences, FiniteSetsExt, SequencesExt

CONSTANTS
    OVMETH,      \* the key of ovmETHAddress
    Zero,        \* the zero word, balance or nonce, and the empty code
    Files,       \* the files to load: <<retain list, allocation>>
    Converted,   \* the converted states they are applied to
    BatchLimits  \* ethdb.IdealBatchSize, in records: the values to try

ASSUME OVMAllocConstants ==
    /\ OVMETH \in Keys /\ Zero \notin Values \cup {None, Deleted}
    /\ BatchLimits \subseteq Nat \ {0}

VARIABLES
    batchLimit,
    list, lines,      \* the retain list, and the lines to come
    input, tokens,    \* the allocation, and what the decoder has yet to hand out
    owner, fields, seen,  \* the account being loaded: its patch, and its field names
    batch, pending,   \* the index's batch, and the keys unique() holds for it
    index,            \* the index database: prefixes 'R', 'b', 'G', 'H' and 'I'
    accounts,         \* the converted state
    cursor,           \* the 'R', then the 'G' iterator
    stage, result

arguments == <<batchLimit, list, input, accounts>>
loader == <<arguments, lines, tokens, owner, fields, seen, pending>>
alloc == <<loader, batch, index, cursor, stage, result>>
allocVars == <<alloc, vars>>

Nothing == [k \in Keys |-> None]
NoFields == [balance |-> None, nonce |-> None, code |-> None, storage |-> FALSE]
EmptyAccount == [balance |-> Zero, nonce |-> Zero, code |-> Zero, root |-> Nothing]

-----------------------------------------------------------------------------
(* The index and its batch: a write is <<prefix, owner, slot, value>>. *)

(* ovmIndex.flush: the database after the writes of batch b. *)
flush(b) ==
    LET written(prefix, k, s, old) ==
            LET at == {i \in DOMAIN b : SubSeq(b[i], 1, 3) = <<prefix, k, s>>}
            IN  IF at = {} THEN old ELSE b[Max(at)][4]
    IN  [R |-> [k \in Keys |-> written("R", k, 0, index.R[k])],
         b |-> [k \in Keys |-> written("b", k, 0, index.b[k])],
         G |-> [k \in Keys |-> written("G", k, 0, index.G[k])],
         H |-> [k \in Keys |-> [s \in Keys |-> written("H", k, s, index.H[k][s])]],
         I |-> [k \in Keys |-> written("I", k, 0, index.I[k])]]

(* ovmIndex.put: a full batch is flushed. *)
Full(b) == Len(b) >= batchLimit
put(write) ==
    LET b == Append(batch, write)
    IN  /\ batch' = IF Full(b) THEN <<>> ELSE b
        /\ index' = IF Full(b) THEN flush(b) ELSE index

(* index.db.Has: a deleted slot is a record with an empty value.  M1 takes it
   for absent. *)
M1_Has(prefix, k, s) ==
    IF prefix = "H" THEN index.H[k][s] \notin {None, Deleted} ELSE index[prefix][k] # None
Has(prefix, k, s) ==
    IF prefix = "H" THEN index.H[k][s] # None ELSE index[prefix][k] # None

(* ovmAllocLoader.unique: a key is refused when the batch or the database has
   it, and the keys held for the batch are dropped with its flush. *)
unique(prefix, k, s, value) ==
    IF <<prefix, k, s>> \in pending \/ Has(prefix, k, s)
    THEN stage' = "refused" /\ UNCHANGED <<batch, index, pending>>
    ELSE /\ put(<<prefix, k, s, value>>)
         /\ pending' = IF batch' = <<>> THEN {} ELSE pending \cup {<<prefix, k, s>>}
         /\ UNCHANGED stage

-----------------------------------------------------------------------------
(* Loading. *)

AllocInit ==
    /\ batchLimit \in BatchLimits
    /\ \E f \in Files : list = f[1] /\ input = f[2]
    /\ lines = list /\ tokens = input
    /\ accounts \in Converted
    /\ owner = OVMETH /\ fields = NoFields /\ seen = {}
    /\ batch = <<>> /\ pending = {}
    /\ index = [R |-> Nothing, b |-> Nothing, G |-> Nothing,
                H |-> [k \in Keys |-> Nothing], I |-> Nothing]
    /\ cursor = -1 /\ stage = "retain" /\ result = Nothing
    /\ original = Nothing /\ patch = Nothing /\ out = Nothing
    /\ rest = {} /\ left = {} /\ last = -1 /\ iterErr = FALSE /\ pc = "done"

Refuse == stage' = "refused"

(* addOVMRetainAddress: the address and its balance slot, and only then a look at
   the size of the batch. *)
RetainLine ==
    LET k == Head(lines)
        b == batch \o << <<"R", k, 0, k>>, <<"b", k, 0, k>> >>
    IN  /\ stage = "retain" /\ lines # <<>>
        /\ lines' = Tail(lines)
        /\ IF k = OVMETH \/ <<"R", k, 0>> \in pending \/ Has("R", k, 0)
           THEN Refuse /\ UNCHANGED <<batch, index, pending>>
           ELSE /\ batch' = IF Full(b) THEN <<>> ELSE b
                /\ index' = IF Full(b) THEN flush(b) ELSE index
                /\ pending' = IF Full(b) THEN {} ELSE pending \cup {<<"R", k, 0>>}
                /\ UNCHANGED stage
        /\ UNCHANGED <<arguments, tokens, owner, fields, seen, cursor, result, vars>>

(* readOVMERC20RetainList: the end of the list and the last flush. *)
RetainEnd ==
    /\ stage = "retain" /\ lines = <<>>
    /\ index' = flush(batch) /\ batch' = <<>> /\ pending' = {}
    /\ stage' = "load"
    /\ UNCHANGED <<arguments, lines, tokens, owner, fields, seen, cursor, result, vars>>

Token(kinds) == stage = "load" /\ tokens # <<>> /\ Head(tokens).kind \in kinds

(* account: the address; OVM_ETH is refused. *)
LoadAddress ==
    /\ Token({"account"})
    /\ tokens' = Tail(tokens)
    /\ owner' = Head(tokens).key /\ fields' = NoFields /\ seen' = {}
    /\ IF owner' = OVMETH THEN Refuse ELSE UNCHANGED stage
    /\ UNCHANGED <<arguments, lines, batch, pending, index, cursor, result, vars>>

(* field: a name that comes twice is refused. *)
LoadField ==
    /\ Token({"balance", "nonce", "code", "storage"})
    /\ tokens' = Tail(tokens)
    /\ LET name == Head(tokens).kind
       IN  IF name \in seen THEN Refuse /\ UNCHANGED <<fields, seen>>
           ELSE /\ seen' = seen \cup {name}
                /\ fields' = IF name = "storage" THEN fields
                             ELSE [fields EXCEPT ![name] = Head(tokens).value]
                /\ UNCHANGED stage
    /\ UNCHANGED <<arguments, lines, owner, batch, pending, index, cursor, result, vars>>

(* storage: a slot is put under its owner, a zero value as a deletion. *)
LoadSlot ==
    /\ Token({"slot"})
    /\ tokens' = Tail(tokens)
    /\ fields' = [fields EXCEPT !.storage = TRUE]
    /\ LET value == Head(tokens).value
       IN  unique("H", owner, Head(tokens).key, IF value = Zero THEN Deleted ELSE value)
    /\ UNCHANGED <<arguments, lines, owner, seen, cursor, result, vars>>

(* account: at its end the account's own record. *)
LoadAccount ==
    /\ Token({"end"})
    /\ tokens' = Tail(tokens)
    /\ unique("G", owner, 0, fields)
    /\ UNCHANGED <<arguments, lines, owner, fields, seen, cursor, result, vars>>

(* loadOVMGenesisAlloc: the end of the file and the last flush. *)
LoadEnd ==
    /\ stage = "load" /\ tokens = <<>>
    /\ index' = flush(batch) /\ batch' = <<>>
    /\ stage' = "validate"
    /\ UNCHANGED <<loader, cursor, result, vars>>

-----------------------------------------------------------------------------
(* Application. *)

(* ovmAccountReader.read. *)
read(k) == IF accounts[k] = None THEN EmptyAccount ELSE accounts[k]

(* k is what an iterator over the records of a prefix returns next. *)
IsNext(k, records) ==
    /\ k > cursor /\ records[k] # None
    /\ \A j \in Keys : cursor < j /\ j < k => records[j] = None
Exhausted(records) == \A k \in Keys : k > cursor => records[k] = None

(* validateOVMERC20RetainList: a listed address is a contract.  Conversion does
   not change the code of any of them. *)
Validate(k) ==
    /\ stage = "validate" /\ IsNext(k, index.R)
    /\ IF k = OVMETH \/ read(k).code = Zero THEN Refuse ELSE UNCHANGED stage
    /\ cursor' = k
    /\ UNCHANGED <<loader, batch, index, result, vars>>

ValidateEnd ==
    /\ stage = "validate" /\ Exhausted(index.R)
    /\ stage' = "apply" /\ cursor' = -1
    /\ UNCHANGED <<loader, batch, index, result, vars>>

(* rebuildPatchedTriePrefix begins: the iterators of OVMPatch are opened. *)
StartMerge(leaves, patches) ==
    /\ original' = leaves /\ patch' = patches
    /\ rest' = {k \in Keys : leaves[k] # None}
    /\ left' = {k \in Keys : patches[k] # None}
    /\ out' = Nothing /\ last' = -1 /\ iterErr' = FALSE /\ pc' = "merge"

(* applyAllocAccount: the fields that the patch gives, the others as they are. *)
overridden(account, p) ==
    [account EXCEPT !.balance = IF p.balance = None THEN @ ELSE p.balance,
                    !.nonce = IF p.nonce = None THEN @ ELSE p.nonce,
                    !.code = IF p.code = None THEN @ ELSE p.code]

(* applyOVMGenesisAlloc: the next account of the iterator, which was opened
   before the first put.  Without fields it is skipped, with slots its storage
   is rebuilt first. *)
ApplyAccount(k) ==
    /\ stage = "apply" /\ IsNext(k, index.G)
    /\ IF index.G[k].storage
       THEN /\ StartMerge(read(k).root, index.H[k])
            /\ stage' = "storage"
            /\ UNCHANGED <<batch, index>>
       ELSE /\ IF index.G[k] = NoFields THEN UNCHANGED <<batch, index>>
               ELSE put(<<"I", k, 0, overridden(read(k), index.G[k])>>)
            /\ UNCHANGED <<stage, vars>>
    /\ cursor' = k
    /\ UNCHANGED <<loader, result>>

(* applyAllocAccount: the storage is rebuilt, and its root is the account's. *)
StorageRebuilt ==
    /\ stage = "storage" /\ pc # "merge"
    /\ IF pc = "failed" THEN stage' = "failed" /\ UNCHANGED <<batch, index>>
       ELSE /\ stage' = "apply"
            /\ put(<<"I", cursor, 0, [overridden(read(cursor), index.G[cursor]) EXCEPT
                                        !.root = out]>>)
    /\ UNCHANGED <<loader, cursor, result, vars>>

(* The codes are closed, the batch is flushed and the account trie rebuilt.  M2
   forgets the flush. *)
M2_ApplyEnd ==
    /\ stage = "apply" /\ Exhausted(index.G)
    /\ StartMerge(accounts, index.I)
    /\ stage' = "rebuild"
    /\ UNCHANGED <<loader, batch, index, cursor, result>>
ApplyEnd ==
    /\ stage = "apply" /\ Exhausted(index.G)
    /\ index' = flush(batch) /\ batch' = <<>>
    /\ StartMerge(accounts, index'.I)
    /\ stage' = "rebuild"
    /\ UNCHANGED <<loader, cursor, result>>

(* The new state root is the result. *)
Rebuilt ==
    /\ stage = "rebuild" /\ pc # "merge"
    /\ stage' = pc /\ result' = out
    /\ UNCHANGED <<loader, batch, index, cursor, vars>>

(* The steps of the merge, see OVMPatch. *)
Merge ==
    /\ \/ \E k \in Keys : UsePatch(k) \/ KeepLeaf(k)
       \/ IteratorFails \/ Finish \/ Fail
    /\ UNCHANGED alloc

(* The file, the index or the context fails between merges. *)
AllocFails ==
    /\ stage \in {"retain", "load", "validate", "apply"}
    /\ stage' = "failed"
    /\ UNCHANGED <<loader, batch, index, cursor, result, vars>>

AllocDone ==
    /\ stage \in {"done", "refused", "failed"}
    /\ UNCHANGED allocVars

AllocNext ==
    \/ RetainLine \/ RetainEnd
    \/ LoadAddress \/ LoadField \/ LoadSlot \/ LoadAccount \/ LoadEnd
    \/ \E k \in Keys : Validate(k) \/ ApplyAccount(k)
    \/ ValidateEnd \/ StorageRebuilt \/ ApplyEnd \/ Rebuilt \/ Merge \/ AllocFails \/ AllocDone

AllocSpec == AllocInit /\ [][AllocNext]_allocVars

-----------------------------------------------------------------------------
(* Types of the variables. *)
AllocTypeOK ==
    /\ IsSuffix(lines, list) /\ IsSuffix(tokens, input) /\ accounts \in Converted
    /\ owner \in Keys /\ seen \subseteq {"balance", "nonce", "code", "storage"}
    /\ DOMAIN fields = DOMAIN NoFields /\ Len(batch) < batchLimit
    /\ pending \subseteq {"R", "G", "H"} \X Keys \X (Keys \cup {0})
    /\ DOMAIN index = {"R", "b", "G", "H", "I"} /\ cursor \in Keys \cup {-1}
    /\ stage \in {"retain", "load", "validate", "apply", "storage", "rebuild", "done", "refused", "failed"}
    /\ DOMAIN result = Keys

(* What the file says: token i belongs to the account named last before it. *)
Start(i) == Max({j \in 1..i : input[j].kind = "account"})
Of(k, kind) == {i \in DOMAIN input : input[i].kind = kind /\ input[Start(i)].key = k}

(* One account per address, one field per name, one value per slot, and OVM_ETH
   is left alone. *)
WellFormed ==
    /\ \A i \in DOMAIN input : input[i].kind = "account" => input[i].key # OVMETH
    /\ \A i, j \in DOMAIN input :
         /\ i # j /\ input[i].kind = input[j].kind /\ input[i].kind # "end"
         /\ input[Start(i)].key = input[Start(j)].key
         => input[i].kind = "slot" /\ input[i].key # input[j].key

(* The state that the allocation describes. *)
Given(k, kind, old) ==
    IF Of(k, kind) = {} THEN old ELSE input[CHOOSE i \in Of(k, kind) : TRUE].value
Slot(k, s) ==
    LET at == {i \in Of(k, "slot") : input[i].key = s}
        value == input[CHOOSE i \in at : TRUE].value
    IN  IF at = {} THEN read(k).root[s] ELSE IF value = Zero THEN None ELSE value
Allocated(k) ==
    IF \A kind \in {"balance", "nonce", "code", "slot"} : Of(k, kind) = {} THEN accounts[k]
    ELSE [balance |-> Given(k, "balance", read(k).balance),
          nonce |-> Given(k, "nonce", read(k).nonce),
          code |-> Given(k, "code", read(k).code),
          root |-> [s \in Keys |-> Slot(k, s)]]

(* The retain list names contracts other than OVM_ETH, each once. *)
WellListed ==
    /\ IsInjective(list)
    /\ \A i \in DOMAIN list : list[i] # OVMETH /\ read(list[i]).code # Zero

(* The lists are refused exactly when they say two things about one address,
   field or slot, name OVM_ETH or retain something that has no code, wherever
   the flushes of the batch fall between the two.  Otherwise all of the retain
   list is in the index (addOVMRetainAddress, unique, account). *)
RefusesAmbiguous ==
    /\ AllocTypeOK
    /\ stage = "refused" => ~(WellListed /\ WellFormed)
    /\ stage \in {"apply", "storage", "rebuild", "done"} =>
         /\ WellListed /\ WellFormed
         /\ \A k \in Keys : LET known == IF k \in Range(list) THEN k ELSE None
                            IN  index.R[k] = known /\ index.b[k] = known

(* The result is the converted state with the fields and slots that the file
   gives, and nothing else changed: neither the other fields of a listed account
   nor any other account (applyOVMGenesisAlloc). *)
AllocIsExact == stage = "done" => \A k \in Keys : result[k] = Allocated(k)
=============================================================================
