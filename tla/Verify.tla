------------------------------- MODULE Verify -------------------------------
(***************************************************************************)
(* The independent verification of an artifact (verify.go,                 *)
(* direct_verify.go, verify_workspace.go) with the state traversal it      *)
(* drives (state.go, state_trie.go, state_stream.go, trienode_index.go).   *)
(*                                                                         *)
(* The verifier reads the artifact's report, recomputes the evidence from  *)
(* the bundle or the legacy source, walks every trie of the database, and  *)
(* then decides by counting alone that the database holds nothing else.    *)
(* In the hash scheme equal subtries are one record, so it counts distinct *)
(* nodes in a temporary index; in the path scheme it counts the nodes it   *)
(* passes and compares the flat state in lockstep.  Leaves are read ahead  *)
(* by producer goroutines, one for the accounts and one for the rest of a  *)
(* storage trie that exceeds Threshold.                                    *)
(*                                                                         *)
(* One node stands for the nodes an iterator passes on its way to a leaf.  *)
(***************************************************************************)
EXTENDS Naturals, Sequences, FiniteSets, SequencesExt

CONSTANTS
    Ids,         \* account hashes, as naturals from 1
    SlotIds,     \* slot hashes, as naturals from 1
    Values,      \* slot values
    Codes,       \* code hashes
    None,        \* no code, no value
    States,      \* the states of the evidence
    Threshold,   \* storageTriePipelineThreshold
    ReadAhead,   \* accountTrieReadAhead, storageTrieReadAhead
    MaxTrouble   \* bound on all that goes wrong: records in which the database
                 \* differs, I/O errors, cancellation, changes from outside

Account == [storage : UNION {[S -> Values] : S \in SUBSET SlotIds},
            code : Codes \cup {None}]

ASSUME VerifyAssumption ==
    /\ Ids \subseteq Nat \ {0} /\ SlotIds \subseteq Nat \ {0}
    /\ None \notin Values \cup Codes
    /\ States \subseteq UNION {[S -> Account] : S \in SUBSET Ids}
    /\ Threshold \in Nat /\ ReadAhead \in Nat \ {0}
    /\ MaxTrouble \in Nat

VARIABLES
    state,      \* the state the evidence describes
    scheme,     \* "hash" or "path"
    db,         \* the artifact's database: [key -> "good" or "bad"]
    report,     \* whether the stored report agrees with the evidence
    layout,     \* whether the artifact directory holds exactly its two entries
    temp,       \* --temp-dir was given, and --temp-db
    inside,     \* the scratch parent is inside an input
    pc,         \* the verifier's step
    reader,     \* the producers of the two leaf streams
    stop,       \* the stream's context was cancelled by its owner
    current,    \* the account being consumed
    slots,      \* slots of it already consumed
    tainted,    \* tries being rebuilt that contain a damaged leaf
    codeHashes, \* codes already checked
    flatAt,     \* entries the flat iterators have returned
    marked,     \* hashes in the temporary trie-node index
    passed,     \* nodes passed by the iterators
    inventory,  \* stateInventory.TrieNodes, once the traversal has ended
    index,      \* the temporary index: "none", "open" or "closed"
    scratch,    \* the workspace directory: "none", "made" or "lost"
    stored,     \* the report as first read
    canceled,   \* the caller's context is cancelled
    err,        \* the error being returned
    result,
    trouble

artifact == <<state, scheme, db, temp>>
world == <<report, layout, inside, canceled>>
walk == <<reader, current, slots, tainted, codeHashes, flatAt, marked, passed>>
vars == <<artifact, world, walk, pc, stop, inventory, index, scratch, err, result,
          trouble, stored>>

-----------------------------------------------------------------------------
(* The records of a database.                                              *)

Key(kind, i, j, v) == <<kind, i, j, v>>
HeadKey == Key("head", 0, 0, None)
MetaKey == Key("meta", 0, 0, None)
JunkKey == Key("junk", 0, 0, None)
flatKey(i, j) == Key("flat", i, j, None)
codeKey(c) == Key("code", 0, 0, c)

slotsOf(i) == DOMAIN state[i].storage

\* Position 0 of an account is its leaf in the account trie.
Positions == {<<i, j>> \in (DOMAIN state) \X ({0} \cup SlotIds) : j \in {0} \cup slotsOf(i)}

\* A node is stored by its position or, in the hash scheme, by its content, which
\* two storage tries may share.
nodeKey(i, j) ==
    IF scheme = "path" \/ j = 0 THEN Key("node", i, j, None)
    ELSE Key("node", 0, j, state[i].storage[j])

Nodes == {nodeKey(p[1], p[2]) : p \in Positions}
CodesUsed == {state[i].code : i \in DOMAIN state} \ {None}

\* The database that stands for the state and nothing else.
Expected ==
    {HeadKey} \cup Nodes \cup {codeKey(c) : c \in CodesUsed}
    \cup (IF scheme = "path"
          THEN {MetaKey} \cup {flatKey(p[1], p[2]) : p \in Positions} ELSE {})

\* Records a database may hold besides.
Strays ==
    {JunkKey} \cup {codeKey(c) : c \in Codes}
    \cup {Key("node", i, 0, None) : i \in Ids}
    \cup (IF scheme = "path"
          THEN {Key(k, i, j, None) : k \in {"node", "flat"}, i \in Ids, j \in SlotIds}
               \cup {flatKey(i, 0) : i \in Ids}
          ELSE {Key("node", 0, j, v) : j \in SlotIds, v \in Values})

\* The sets of records in which the database may differ.
Touched == {{}} \cup {Range(f) : f \in [1..MaxTrouble -> Expected \cup Strays]}

Streams == {"account", "storage"}
Idle == [run |-> "off", at |-> 0, queue |-> <<>>, err |-> "none"]

Init ==
    /\ state \in States /\ scheme \in {"hash", "path"}
    /\ \E D \in Touched : \E bad \in SUBSET (D \cap Expected) :
          /\ db = [k \in (Expected \ D) \cup bad \cup (D \ Expected) |->
                      IF k \in bad THEN "bad" ELSE "good"]
          /\ trouble = Cardinality(D)
    /\ report = "match" /\ layout = TRUE /\ inside = FALSE
    /\ temp \in [explicit : BOOLEAN, mode : {"disk", "memory"}]
    /\ pc = "load" /\ reader = [l \in Streams |-> Idle] /\ stop = [l \in Streams |-> FALSE]
    /\ current = 0 /\ slots = 0 /\ tainted = {} /\ codeHashes = {}
    /\ flatAt = [l \in Streams |-> 0]
    /\ marked = {} /\ passed = 0 /\ inventory = 0
    /\ index = "none" /\ scratch = "none"
    /\ stored = "none"
    /\ canceled = FALSE /\ err = "none" /\ result = "none"

-----------------------------------------------------------------------------
(* Leaving: the deferred calls, innermost first.                           *)

\* An error leaves the traversal; the storage stream is cancelled first.
Fail(e) ==
    /\ err' = e /\ pc' = "unwind"
    /\ stop' = [stop EXCEPT !["storage"] = TRUE]

joined(l) == reader[l].run \in {"off", "done"}

\* stream.close of the storage stream, then of the account stream.
UnwindStorage ==
    /\ pc = "unwind" /\ joined("storage")
    /\ pc' = "unwind_accounts" /\ stop' = [l \in Streams |-> TRUE]
    /\ UNCHANGED <<artifact, world, walk, inventory, index, scratch, stored, err, result, trouble>>

closeIndex == index' = IF index = "open" THEN "closed" ELSE index

\* M2: the traversal returns without waiting for the account producer.
M2_UnwindAccounts ==
    /\ pc = "unwind_accounts"
    /\ closeIndex /\ pc' = "leave"
    /\ UNCHANGED <<artifact, world, walk, stop, inventory, scratch, stored, err, result, trouble>>

\* The account stream is joined and the temporary index closed.
UnwindAccounts ==
    /\ pc = "unwind_accounts" /\ joined("account")
    /\ closeIndex /\ pc' = "leave"
    /\ UNCHANGED <<artifact, world, walk, stop, inventory, scratch, stored, err, result, trouble>>

\* verificationWorkspace.Close, then the return.
Leave ==
    /\ pc = "leave" /\ pc' = "done"
    /\ \/ /\ scratch' = "none" /\ UNCHANGED trouble
          /\ result' = IF err = "none" THEN "ok" ELSE err
       \/ /\ scratch = "made" /\ trouble < MaxTrouble
          /\ trouble' = trouble + 1 /\ scratch' = "lost"
          /\ result' = IF err = "none" THEN "io" ELSE err
    /\ UNCHANGED <<artifact, world, walk, stop, inventory, index, stored, err>>

\* A step that goes on to next unless a check refuses it.
Proceed(ok, next) ==
    /\ IF ok THEN pc' = next /\ UNCHANGED <<stop, err>> ELSE Fail("refused")
    /\ UNCHANGED <<artifact, world, result, trouble>>

needsScratch == scheme = "hash" /\ temp.mode = "disk"

\* The verifier is blocked on a stream's channel.
waiting ==
    /\ pc \in Streams /\ reader[pc].queue = <<>>
    /\ ~(pc = "account" /\ reader[pc].run = "done" /\ scheme = "hash")

\* The verifier's steps that look at the context, and those that do I/O.
Checked == {"scan", "account", "first", "storage", "finish", "inventory"}
           \cup (IF needsScratch THEN {"scratch"} ELSE {})
           \cup (IF slots < Threshold THEN {"prefix"} ELSE {})
Reading == Checked \cup {"load", "mkdir", "open", "prefix", "code", "reread"}

\* ctx.Err() or an I/O error at a step of the verifier.
StepFails ==
    /\ ~waiting
    /\ \/ pc \in Checked /\ canceled /\ Fail("canceled") /\ UNCHANGED trouble
       \/ pc \in Reading /\ trouble < MaxTrouble /\ trouble' = trouble + 1 /\ Fail("io")
    /\ UNCHANGED <<artifact, world, walk, inventory, index, scratch, stored, result>>

-----------------------------------------------------------------------------
(* Before the database: report, workspace, evidence.                       *)

\* loadVerificationReport and prepareVerificationWorkspace.
Load ==
    /\ pc = "load" /\ stored' = report
    /\ Proceed(layout /\ (temp.explicit => ~inside), "scan")
    /\ UNCHANGED <<walk, inventory, index, scratch>>

\* scanBundle, or the traversal and confirmation of the legacy source, and the
\* comparison of the evidence with the report as first read.
Scan ==
    /\ pc = "scan" /\ ~canceled
    /\ Proceed(stored = "match", "scratch")
    /\ UNCHANGED <<walk, inventory, index, scratch, stored>>

\* nodeIndex: only the hash scheme on disk needs a directory; its parent is
\* resolved again.
Scratch ==
    /\ pc = "scratch"
    /\ IF needsScratch
       THEN ~canceled /\ Proceed(~inside, "mkdir")
       ELSE Proceed(TRUE, "open")
    /\ UNCHANGED <<walk, inventory, index, scratch, stored>>

\* MkdirTemp, and the check of the directory that was really made.
MakeScratch ==
    /\ pc = "mkdir" /\ scratch' = "made"
    /\ Proceed(~inside, "open")
    /\ UNCHANGED <<walk, inventory, index, stored>>

good(k) == k \in DOMAIN db /\ db[k] = "good"

\* verifyHeadMetadata, verifyPathMetadata, and the start of the traversal with
\* its temporary index and account stream.
Open ==
    /\ pc = "open"
    /\ Proceed(good(HeadKey) /\ (scheme = "path" => good(MetaKey)), "account")
    /\ IF pc' = "account"
       THEN /\ reader' = [reader EXCEPT !["account"].run = "read"]
            /\ index' = IF scheme = "hash" THEN "open" ELSE "none"
       ELSE UNCHANGED <<reader, index>>
    /\ UNCHANGED <<current, slots, tainted, codeHashes, flatAt, marked, passed>>
    /\ UNCHANGED <<inventory, scratch, stored>>

-----------------------------------------------------------------------------
(* The leaf streams (trieLeafStream).                                      *)

ascending(S) == SetToSortSeq(S, LAMBDA x, y : x < y)

\* The trie positions of a stream's leaves, in key order.
leaves(l) ==
    IF l = "account" THEN [n \in 1..Cardinality(DOMAIN state) |-> <<ascending(DOMAIN state)[n], 0>>]
    ELSE [n \in 1..Cardinality(slotsOf(current)) |-> <<current, ascending(slotsOf(current))[n]>>]

nodeOf(p) == nodeKey(p[1], p[2])

\* A path node is checked against its hash when it is read, a hash node is not.
readable(p) == nodeOf(p) \in DOMAIN db /\ (scheme = "path" => good(nodeOf(p)))

\* recordTrieNode: a set of hashes, or a plain count.
recordTrieNode(p) ==
    IF scheme = "hash" THEN marked' = marked \cup {nodeOf(p)} /\ UNCHANGED passed
    ELSE passed' = passed + 1 /\ UNCHANGED marked

streamCanceled(l) == canceled \/ stop[l]

\* The producer returns: its error, if any, is in the result channel.
ReaderReturns(l, e) ==
    reader' = [reader EXCEPT ![l].run = "done", ![l].err = e]

\* Next of the producer's iterator, inventory included.
Produce(l) ==
    /\ reader[l].run = "read" /\ ~streamCanceled(l)
    /\ LET n == reader[l].at + 1 IN
          IF n > Len(leaves(l)) THEN ReaderReturns(l, "none") /\ UNCHANGED <<marked, passed>>
          ELSE IF ~readable(leaves(l)[n]) THEN ReaderReturns(l, "refused") /\ UNCHANGED <<marked, passed>>
          ELSE /\ recordTrieNode(leaves(l)[n])
               /\ reader' = [reader EXCEPT ![l].run = "send", ![l].at = n]
    /\ UNCHANGED <<artifact, world, current, slots, tainted, codeHashes, flatAt>>
    /\ UNCHANGED <<pc, stop, inventory, index, scratch, stored, err, result, trouble>>

\* The select of the producer: the leaf is sent.
Send(l) ==
    /\ reader[l].run = "send" /\ Len(reader[l].queue) < ReadAhead
    /\ reader' = [reader EXCEPT ![l].run = "read", ![l].queue = Append(@, leaves(l)[reader[l].at])]
    /\ UNCHANGED <<artifact, world, current, slots, tainted, codeHashes, flatAt, marked, passed>>
    /\ UNCHANGED <<pc, stop, inventory, index, scratch, stored, err, result, trouble>>

\* M3: the producer sends without watching its context.
M3_ReaderStops(l) ==
    /\ reader[l].run = "read" /\ streamCanceled(l)
    /\ ReaderReturns(l, "canceled")
    /\ UNCHANGED <<artifact, world, current, slots, tainted, codeHashes, flatAt, marked, passed>>
    /\ UNCHANGED <<pc, stop, inventory, index, scratch, stored, err, result, trouble>>

\* The producer sees its context cancelled, before Next or in the select.
ReaderStops(l) ==
    /\ reader[l].run \in {"read", "send"} /\ streamCanceled(l)
    /\ ReaderReturns(l, "canceled")
    /\ UNCHANGED <<artifact, world, current, slots, tainted, codeHashes, flatAt, marked, passed>>
    /\ UNCHANGED <<pc, stop, inventory, index, scratch, stored, err, result, trouble>>

\* The iterator or the temporary index fails.
ReaderFails(l) ==
    /\ reader[l].run = "read" /\ trouble < MaxTrouble /\ trouble' = trouble + 1
    /\ ReaderReturns(l, "io")
    /\ UNCHANGED <<artifact, world, current, slots, tainted, codeHashes, flatAt, marked, passed>>
    /\ UNCHANGED <<pc, stop, inventory, index, scratch, stored, err, result>>

-----------------------------------------------------------------------------
(* The consumer: processAccount, traverseStorage and processCode.          *)

\* What the flat iterators return, in key order.
flatEntries(l) ==
    LET E == {k \in DOMAIN db : k[1] = "flat" /\ ((k[3] = 0) <=> (l = "account"))}
    IN  SetToSortSeq(E, LAMBDA x, y : x[2] < y[2] \/ (x[2] = y[2] /\ x[3] < y[3]))

\* compareNext: the flat iterator's next entry is this leaf.
compareNext(l, p) ==
    /\ flatAt[l] < Len(flatEntries(l))
    /\ flatEntries(l)[flatAt[l] + 1] = flatKey(p[1], p[2])
    /\ good(flatKey(p[1], p[2]))

\* A leaf is decoded, visited and added to the trie being rebuilt.  Damage that
\* still decodes changes the rebuilt root.
processLeaf(l, p, next) ==
    LET damaged == db[nodeOf(p)] = "bad" IN
    \/ damaged /\ Proceed(FALSE, next) /\ UNCHANGED <<flatAt, tainted>>
    \/ /\ Proceed(scheme = "path" => compareNext(l, p), next)
       /\ flatAt' = IF scheme = "path" THEN [flatAt EXCEPT ![l] = @ + 1] ELSE flatAt
       /\ tainted' = IF damaged THEN tainted \cup {l} ELSE tainted

rest == <<inventory, index, scratch, stored>>

\* The next account of the stream, up to its storage.
TakeAccount ==
    LET q == reader["account"].queue IN
    /\ pc = "account" /\ q # <<>> /\ ~canceled
    /\ current' = Head(q)[1] /\ slots' = 0
    /\ reader' = [reader EXCEPT !["account"].queue = Tail(q)]
    /\ processLeaf("account", Head(q), IF slotsOf(Head(q)[1]) = {} THEN "code" ELSE "prefix")
    /\ UNCHANGED <<codeHashes, marked, passed, rest>>

\* The storage root is compared with the account's.
endStorage ==
    /\ Proceed("storage" \notin tainted, "code")
    /\ UNCHANGED <<tainted, current, slots, codeHashes, flatAt, marked, passed, rest>>

\* consumeStoragePrefix: the first slots are read by the consumer itself.
Prefix ==
    /\ pc = "prefix" /\ (slots < Threshold => ~canceled)
    /\ IF slots = Len(leaves("storage")) THEN endStorage /\ UNCHANGED reader
       ELSE LET p == leaves("storage")[slots + 1] IN
            /\ IF ~readable(p)
               THEN Proceed(FALSE, "prefix") /\ UNCHANGED <<marked, passed, slots, flatAt, tainted, reader>>
               ELSE /\ recordTrieNode(p)
                    /\ IF slots < Threshold
                       THEN /\ processLeaf("storage", p, "prefix")
                            /\ slots' = slots + 1 /\ UNCHANGED reader
                       ELSE /\ Proceed(TRUE, "first")
                            /\ reader' = [reader EXCEPT !["storage"] = [Idle EXCEPT !.run = "read", !.at = slots + 1]]
                            /\ UNCHANGED <<slots, flatAt, tainted>>
            /\ UNCHANGED <<current, codeHashes, rest>>

\* The leaf read before the storage stream was started.
First ==
    /\ pc = "first" /\ ~canceled
    /\ processLeaf("storage", leaves("storage")[slots + 1], "storage")
    /\ slots' = slots + 1
    /\ UNCHANGED <<reader, current, codeHashes, marked, passed, rest>>

TakeSlot ==
    LET q == reader["storage"].queue IN
    /\ pc = "storage" /\ q # <<>> /\ ~canceled
    /\ reader' = [reader EXCEPT !["storage"].queue = Tail(q)]
    /\ processLeaf("storage", Head(q), "storage")
    /\ slots' = slots + 1
    /\ UNCHANGED <<current, codeHashes, marked, passed, rest>>

drained(l) == pc = l /\ reader[l].queue = <<>> /\ reader[l].run = "done"

\* stream.wait: the producer's error is the traversal's.
StreamFailed(l) ==
    /\ drained(l) /\ reader[l].err # "none"
    /\ Fail(reader[l].err)
    /\ UNCHANGED <<artifact, world, walk, result, trouble, rest>>

StorageEnds ==
    /\ drained("storage") /\ reader["storage"].err = "none"
    /\ endStorage
    /\ reader' = [reader EXCEPT !["storage"] = Idle]

\* processCode: each code hash is read once, from its prefixed key only.
ProcessCode ==
    LET c == state[current].code IN
    /\ pc = "code"
    /\ Proceed(c \in codeHashes \cup {None} \/ good(codeKey(c)), "account")
    /\ codeHashes' = codeHashes \cup ({c} \ {None})
    /\ UNCHANGED <<reader, current, slots, tainted, flatAt, marked, passed, rest>>

\* finalize, and the deferred close of the index.
Finalize ==
    /\ drained("account") /\ reader["account"].err = "none"
    /\ scheme = "hash" => ~canceled
    /\ Proceed("account" \notin tainted, "finish")
    /\ inventory' = IF scheme = "hash" THEN Cardinality(marked) ELSE passed
    /\ closeIndex
    /\ UNCHANGED <<walk, scratch, stored>>

-----------------------------------------------------------------------------
(* The inventory of the whole database.                                    *)

\* flatStateVerifier.Finish: neither flat iterator has an entry left.
Finish ==
    /\ pc = "finish" /\ ~canceled
    /\ Proceed(scheme = "path" => \A l \in Streams : flatAt[l] = Len(flatEntries(l)), "inventory")
    /\ UNCHANGED <<walk, rest>>

\* classifyArtifactEntry accepts the key; a hash node must match its content.
classified(k) ==
    /\ k # JunkKey
    /\ k[1] = "node" /\ scheme = "hash" => good(k)

count(kind) == Cardinality({k \in DOMAIN db : k[1] = kind})

\* M1: the code records are not counted.
M1_inventoryMatches ==
    /\ \A k \in DOMAIN db : classified(k)
    /\ good(HeadKey)
    /\ scheme = "path" => count("flat") = Cardinality(Positions)
    /\ count("node") = inventory

\* verifyDatabaseInventory: every record has a known kind, and each kind as many
\* records as the traversal met.
inventoryMatches ==
    /\ \A k \in DOMAIN db : classified(k)
    /\ good(HeadKey)
    /\ scheme = "path" => count("flat") = Cardinality(Positions)
    /\ count("node") = inventory
    /\ count("code") = Cardinality(codeHashes)

Inventory ==
    /\ pc = "inventory" /\ ~canceled
    /\ Proceed(inventoryMatches, "reread")
    /\ UNCHANGED <<walk, rest>>

\* validateArtifactLayout, and the report read again.
Reread ==
    /\ pc = "reread"
    /\ Proceed(layout /\ report = stored, "leave")
    /\ UNCHANGED <<walk, rest>>

-----------------------------------------------------------------------------
(* The surroundings.                                                       *)

Cancel ==
    /\ result = "none" /\ ~canceled /\ canceled' = TRUE
    /\ trouble < MaxTrouble /\ trouble' = trouble + 1
    /\ UNCHANGED <<artifact, report, layout, inside, walk, pc, stop, rest, err, result>>

\* Another process replaces the report, adds a file to the artifact, or moves
\* the scratch parent into an input, before the verifier's last look at it.
Change ==
    /\ pc \notin {"leave", "done"}
    /\ trouble < MaxTrouble /\ trouble' = trouble + 1
    /\ \/ report = "match" /\ report' = "other" /\ UNCHANGED <<layout, inside>>
       \/ layout /\ layout' = FALSE /\ UNCHANGED <<report, inside>>
       \/ scratch = "none" /\ ~inside /\ inside' = TRUE /\ UNCHANGED <<report, layout>>
    /\ UNCHANGED <<artifact, canceled, walk, pc, stop, rest, err, result>>

Step ==
    \/ Load \/ Scan \/ Scratch \/ MakeScratch \/ Open
    \/ TakeAccount \/ Prefix \/ First \/ TakeSlot \/ StorageEnds \/ ProcessCode \/ Finalize
    \/ Finish \/ Inventory \/ Reread \/ StepFails
    \/ \E l \in Streams : Produce(l) \/ Send(l) \/ ReaderStops(l) \/ ReaderFails(l) \/ StreamFailed(l)
    \/ UnwindStorage \/ UnwindAccounts \/ Leave

Next == Step \/ Cancel \/ Change

Spec == Init /\ [][Next]_vars

\* Every goroutine that can run is run.
FairSpec == Spec /\ WF_vars(Step)

-----------------------------------------------------------------------------
(* Properties.                                                             *)

\* The variables keep the types of the Go values they stand for.
TypeOK ==
    /\ \A l \in Streams : reader[l].run \in {"off", "read", "send", "done"}
                          /\ Len(reader[l].queue) <= ReadAhead
    /\ marked \subseteq Nodes /\ passed <= Cardinality(Positions)
    /\ index \in {"none", "open", "closed"} /\ scratch \in {"none", "made", "lost"}
    /\ result \in {"none", "ok", "refused", "canceled", "io"}

intact == DOMAIN db = Expected /\ \A k \in DOMAIN db : good(k)

\* The verdict is exact: an artifact is accepted only if its database is the one
\* that stands for the state, record for record, although the inventory merely
\* counts, and its report and layout still are as they were read; and it is refused
\* only if something differs, or scratch would lie inside an input.
VerdictIsExact ==
    /\ result = "ok" => intact /\ report = "match" /\ layout
    /\ result = "refused" =>
          ~intact \/ stored # "match" \/ report # stored \/ ~layout \/ inside
    /\ result = "canceled" => canceled

\* Verification leaves nothing behind: the temporary index is not closed under a
\* producer that still marks nodes, no producer outlives the command, and the
\* scratch directory is gone unless its removal failed, which is an error.
LeavesNothing ==
    /\ TypeOK
    /\ index = "closed" => \A l \in Streams : joined(l)
    /\ result # "none" =>
          /\ \A l \in Streams : joined(l)
          /\ index # "open" /\ scratch # "made"
          /\ scratch = "lost" => result # "ok"

\* Verification always returns: a producer blocked on a full channel is released
\* when its consumer has given up.
VerifyReturns == <>(result # "none")

=============================================================================
