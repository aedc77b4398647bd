------------------------------- MODULE Bundle -------------------------------
(***************************************************************************)
(* A state bundle from both ends.  The export traverses the account trie   *)
(* and each storage trie of the head, rebuilds every root from the leaves  *)
(* that it reads, and writes a record per account, slot and distinct code  *)
(* (stateTraverser, recordWriterVisitor, Writer).  The scan reads a record *)
(* stream, checks its framing and its digests (recordScanner), and the     *)
(* grammar and the roots of what it says (recordConsumer).  The stream is  *)
(* the exported one, or any other.                                         *)
(*                                                                         *)
(* A trie is the map from keys to values that its root commits to, and a   *)
(* hash is what it is the hash of.  Payload bytes are not counted.         *)
(***************************************************************************)
EXTENDS Integers, Sequences, SequencesExt

CONSTANTS
    Accounts,   \* account hashes: integers, for their order
    Slots,      \* slot hashes: integers
    Values,     \* storage values that validateStorageRLP admits
    Codes,      \* contract codes
    None,       \* the code of an account without code
    Junk        \* a payload that does not decode, or code of another hash

ASSUME BundleAssumption ==
    /\ Accounts \subseteq Nat \ {0} /\ Slots \subseteq Nat \ {0}
    /\ None \notin Codes /\ Junk \notin Codes \cup Values

Tries(K, V) == UNION {[S -> V] : S \in SUBSET K}
EmptyTrie == <<>>
Roots == Tries(Slots, Values)
Payloads == [root : Roots, code : Codes \cup {None}]
States == Tries(Accounts, Payloads)

AccountRecord(a, p) == <<"account", a, p>>
StorageRecord(a, k, v) == <<"storage", a, k, v>>
CodeRecord(h, c) == <<"code", h, c>>
Records == {AccountRecord(a, p) : a \in Accounts, p \in Payloads \cup {Junk}}
           \cup {StorageRecord(a, k, v) : a \in Accounts, k \in Slots, v \in Values \cup {Junk}}
           \cup {CodeRecord(h, c) : h \in Codes, c \in Codes \cup {Junk}}

VARIABLES
    committed,   \* the state that the head's root commits to
    disk,        \* what the source database returns for it
    pc,
    written,     \* the record stream of the export
    wcounts,     \* Writer.counts
    trav,        \* the traverser: where it is and what it rebuilt
    file,        \* the bundle that is scanned: "own" or "other"
    read,        \* the records that the scan has read
    con,         \* the recordConsumer
    err          \* why the command failed

export == <<written, wcounts, trav>>
vars == <<committed, disk, pc, export, file, read, con, err>>

ZeroCounts == [accounts |-> 0, slots |-> 0, codes |-> 0, references |-> 0]
Add(c, f) == [c EXCEPT ![f] = @ + 1]
Put(t, k, v) == [j \in DOMAIN t \cup {k} |-> IF j = k THEN v ELSE t[j]]

\* The database may hold another account trie than the root says, other storage
\* for an account, or another code or none.
Healthy(s) == [accounts |-> s, storage |-> [a \in DOMAIN s |-> s[a].root],
               code |-> [c \in Codes |-> c]]
Damaged(s) ==
    {Healthy(t) : t \in States}
    \cup {[Healthy(s) EXCEPT !.storage[a] = t] :
             a \in {b \in DOMAIN s : s[b].root # EmptyTrie}, t \in Tries(Slots, Values \cup {Junk})}
    \cup {[Healthy(s) EXCEPT !.code[c] = x] : c \in Codes, x \in {None, Junk}}

Init ==
    /\ committed \in States
    /\ disk \in Damaged(committed)
    /\ pc = "account"
    /\ written = <<>> /\ wcounts = ZeroCounts
    /\ trav = [account |-> 0, slot |-> 0, storage |-> EmptyTrie, accounts |-> EmptyTrie,
               codes |-> {}, counts |-> ZeroCounts]
    /\ file = "none" /\ read = <<>>
    /\ con = [have |-> FALSE, account |-> 0, payload |-> Junk, storage |-> EmptyTrie,
              slot |-> 0, codeSeen |-> FALSE, known |-> {}, accounts |-> EmptyTrie,
              counts |-> ZeroCounts]
    /\ err = "none"

-----------------------------------------------------------------------------
(* The export.                                                             *)

Left(t, k) == {j \in DOMAIN t : j > k}
First(S) == CHOOSE k \in S : \A j \in S : k <= j

exportOnly == <<committed, disk, file, read, con, err>>

\* processAccount as far as the storage: the account's record, and the reference
\* to its code.
processAccount ==
    /\ pc = "account" /\ Left(disk.accounts, trav.account) # {}
    /\ LET a == First(Left(disk.accounts, trav.account))
           p == disk.accounts[a]
       IN  /\ written' = Append(written, AccountRecord(a, p))
           /\ wcounts' = LET c == Add(wcounts, "accounts")
                         IN  IF p.code = None THEN c ELSE Add(c, "references")
           /\ trav' = [trav EXCEPT !.account = a, !.slot = 0, !.storage = EmptyTrie,
                                   !.counts = Add(@, "accounts")]
    /\ pc' = "storage"
    /\ UNCHANGED exportOnly

Current == disk.accounts[trav.account]

\* An empty storage root has no trie to read.
SlotsLeft == IF Current.root = EmptyTrie THEN {}
             ELSE Left(disk.storage[trav.account], trav.slot)

processStorageSlot ==
    /\ pc = "storage" /\ SlotsLeft # {}
    /\ LET k == First(SlotsLeft)
           v == disk.storage[trav.account][k]
       IN  /\ v # Junk
           /\ written' = Append(written, StorageRecord(trav.account, k, v))
           /\ trav' = [trav EXCEPT !.slot = k, !.storage = Put(@, k, v),
                                   !.counts = Add(@, "slots")]
    /\ wcounts' = Add(wcounts, "slots")
    /\ UNCHANGED <<exportOnly, pc>>

\* A code is read, checked and written for the first account that refers to it.
FirstUse(c) == c # None /\ c \notin trav.codes

processCode ==
    LET c == Current.code
    IN  /\ pc = "storage" /\ SlotsLeft = {}
        /\ trav.storage = Current.root
        /\ FirstUse(c) => disk.code[c] = c
        /\ written' = IF FirstUse(c) THEN Append(written, CodeRecord(c, disk.code[c])) ELSE written
        /\ wcounts' = IF FirstUse(c) THEN Add(wcounts, "codes") ELSE wcounts
        /\ trav' = [trav EXCEPT
                !.codes = IF c = None THEN @ ELSE @ \cup {c},
                !.accounts = Put(@, trav.account, Current),
                !.counts = LET d == IF c = None THEN @ ELSE Add(@, "references")
                           IN  IF FirstUse(c) THEN Add(d, "codes") ELSE d]
        /\ pc' = "account"
        /\ UNCHANGED exportOnly

\* The root of all leaves is the head's, and the writer counted what the
\* traversal did; the stream is closed, and the manifest names the root and the
\* counts.
finalizeExportBundle ==
    /\ pc = "account" /\ Left(disk.accounts, trav.account) = {}
    /\ trav.accounts = committed
    /\ wcounts = trav.counts
    /\ pc' = "exported"
    /\ UNCHANGED <<exportOnly, export>>

\* Any of these checks fails, or a read, a write or the context does.  The writer
\* is aborted and the staging directory removed.
exportErrors ==
    (IF pc = "account" /\ Left(disk.accounts, trav.account) = {}
        /\ (trav.accounts # committed \/ wcounts # trav.counts) THEN {"invalid"} ELSE {})
    \cup (IF pc = "storage" /\ \/ SlotsLeft # {} /\ disk.storage[trav.account][First(SlotsLeft)] = Junk
                               \/ SlotsLeft = {} /\ trav.storage # Current.root
                               \/ SlotsLeft = {} /\ FirstUse(Current.code)
                                  /\ disk.code[Current.code] # Current.code
          THEN {"invalid"} ELSE {})
    \cup {"fault"}

ExportFails ==
    /\ pc \in {"account", "storage"}
    /\ err' \in exportErrors
    /\ pc' = "failed"
    /\ UNCHANGED <<committed, disk, export, file, read, con>>

-----------------------------------------------------------------------------
(* The scan.                                                               *)

scanOnly == <<committed, disk, export, file, err>>

openRecordScanner ==
    /\ pc = "exported"
    /\ file' \in {"own", "other"}
    /\ pc' = "scan"
    /\ UNCHANGED <<committed, disk, export, read, con, err>>

\* The next record of the stream.  The exported one ends with its terminator.
NextRecord ==
    IF file = "other" THEN Records
    ELSE IF Len(read) < Len(written) THEN {written[Len(read) + 1]} ELSE {}

\* finalizeAccount: the storage root is the account's, and its code was given
\* here or by an earlier account.
Finalizable ==
    con.have =>
        /\ con.storage = con.payload.root
        /\ con.payload.code = None => ~con.codeSeen
        /\ con.payload.code # None => con.codeSeen \/ con.payload.code \in con.known

M1_finalizeAccount ==
    IF ~con.have THEN con
    ELSE [con EXCEPT
            !.have = FALSE, !.storage = EmptyTrie, !.accounts = Put(@, con.account, con.payload),
            !.counts = IF con.codeSeen THEN Add(@, "references") ELSE @]
finalizeAccount ==
    IF ~con.have THEN con
    ELSE [con EXCEPT
            !.have = FALSE, !.storage = EmptyTrie, !.accounts = Put(@, con.account, con.payload),
            !.counts = IF con.payload.code # None THEN Add(@, "references") ELSE @]

\* Which records the consumer admits where it stands.
validAccount(a, p) ==
    /\ Finalizable
    /\ con.counts.accounts > 0 => a > con.account
    /\ p # Junk

validateStorageRecord(a, k, v) ==
    /\ con.have /\ ~con.codeSeen
    /\ a = con.account
    /\ con.payload.root # EmptyTrie
    /\ k > con.slot
    /\ v # Junk

M2_validateCodeRecord(h, c) ==
    /\ con.have /\ ~con.codeSeen
    /\ h = con.payload.code /\ c = h
validateCodeRecord(h, c) ==
    /\ con.have /\ ~con.codeSeen
    /\ h = con.payload.code /\ c = h
    /\ h \notin con.known

Read(r) == pc = "scan" /\ r \in NextRecord /\ read' = Append(read, r)

consumeAccount(a, p) ==
    /\ Read(AccountRecord(a, p))
    /\ validAccount(a, p)
    /\ con' = [finalizeAccount EXCEPT !.have = TRUE, !.account = a, !.payload = p,
                                      !.slot = 0, !.codeSeen = FALSE,
                                      !.counts = Add(@, "accounts")]
    /\ UNCHANGED <<scanOnly, pc>>

consumeStorage(a, k, v) ==
    /\ Read(StorageRecord(a, k, v))
    /\ validateStorageRecord(a, k, v)
    /\ con' = [con EXCEPT !.storage = Put(@, k, v), !.slot = k, !.counts = Add(@, "slots")]
    /\ UNCHANGED <<scanOnly, pc>>

consumeCode(h, c) ==
    /\ Read(CodeRecord(h, c))
    /\ validateCodeRecord(h, c)
    /\ con' = [con EXCEPT !.known = @ \cup {h}, !.codeSeen = TRUE, !.counts = Add(@, "codes")]
    /\ UNCHANGED <<scanOnly, pc>>

Admitted(r) == \/ r[1] = "account" /\ validAccount(r[2], r[3])
               \/ r[1] = "storage" /\ validateStorageRecord(r[2], r[3], r[4])
               \/ r[1] = "code" /\ validateCodeRecord(r[2], r[3])

\* The terminator, the end of the file, the digests and the counts of the
\* manifest, the manifest unchanged, and the root.  For another bundle the
\* manifest's counts and digests are whatever they are.
AtEnd == file = "other" \/ read = written
CountsFit == file = "other" \/ finalizeAccount.counts = trav.counts

finish ==
    /\ pc = "scan" /\ AtEnd
    /\ Finalizable /\ finalizeAccount.accounts = committed
    /\ CountsFit
    /\ con' = finalizeAccount
    /\ pc' = "accepted"
    /\ UNCHANGED <<scanOnly, read>>

\* A record that is not admitted; a stream that stops early, goes on after the
\* terminator or differs from its manifest; or a failing read.
scanErrors ==
    (IF \/ \E r \in NextRecord : ~Admitted(r)
        \/ file = "other"
        \/ AtEnd /\ ~(Finalizable /\ finalizeAccount.accounts = committed /\ CountsFit)
     THEN {"invalid"} ELSE {}) \cup {"fault"}

ScanFails ==
    /\ pc = "scan"
    /\ err' \in scanErrors
    /\ pc' = "failed"
    /\ UNCHANGED <<committed, disk, export, file, read, con>>

Next ==
    \/ processAccount \/ processStorageSlot \/ processCode
    \/ finalizeExportBundle \/ ExportFails
    \/ openRecordScanner
    \/ \E a \in Accounts, p \in Payloads : consumeAccount(a, p)
    \/ \E a \in Accounts, k \in Slots, v \in Values : consumeStorage(a, k, v)
    \/ \E h, c \in Codes : consumeCode(h, c)
    \/ finish \/ ScanFails

Spec == Init /\ [][Next]_vars

-----------------------------------------------------------------------------
(* Properties.                                                             *)

\* The one stream that stands for a state: accounts in order, each followed by
\* its slots in order and by its code where no earlier account has the same.
InOrder(S) == SetToSortSeq(S, <)
Section(s, a) ==
    LET slots == InOrder(DOMAIN s[a].root)
        first == s[a].code # None /\ ~\E b \in DOMAIN s : b < a /\ s[b].code = s[a].code
    IN  <<AccountRecord(a, s[a])>>
        \o [i \in DOMAIN slots |-> StorageRecord(a, slots[i], s[a].root[slots[i]])]
        \o IF first THEN <<CodeRecord(s[a].code, s[a].code)>> ELSE <<>>
Canonical(s) == LET as == InOrder(DOMAIN s)
                IN  FlattenSeq([i \in DOMAIN as |-> Section(s, as[i])])

\* Whatever the source database returns, an export that finishes has written the
\* one stream of the state that the head's root commits to; and whatever stream
\* the scan reads, it accepts that one only.  So two bundles of the same head hold
\* the same records.
BundleIsCanonical ==
    /\ pc = "exported" => written = Canonical(committed)
    /\ pc = "accepted" => read = Canonical(committed)

\* A bundle that the export finished is never found invalid: no check of the scan
\* is stricter than what the export writes, and both count alike.  Nor does an
\* intact database fail the export.
RoundTrip ==
    err = "invalid" => file = "other" \/ disk # Healthy(committed)

=============================================================================
