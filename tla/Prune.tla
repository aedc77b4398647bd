------------------------------- MODULE Prune -------------------------------
(***************************************************************************)
(* The offline prune command (src/internal/migration/prune*.go): one       *)
(* invocation after another deletes, in place, the content-addressed       *)
(* records of a stopped node's LevelDB that the head state does not        *)
(* reference.  An invocation may fail, be cancelled or be killed at any    *)
(* point; the next one rebuilds its keep set from the database it finds.   *)
(*                                                                         *)
(* A record is a key: its value never changes while it is stored, so the   *)
(* database is the set of keys present.  What the code computes from a     *)
(* record's bytes is the key's shape:                                      *)
(*   "addressed"  32-byte key that is the hash of its value                *)
(*   "unknown"    32-byte key that is not                                  *)
(*   "foreign"    LES, path-layout or prefixed-code record                 *)
(*   "protected"  any other record                                         *)
(***************************************************************************)
EXTENDS Integers, FiniteSets

CONSTANTS
    Keys,       \* the keys a legacy database may hold
    NoKey,      \* the genesis trie is empty: there is no genesis root node
    BatchKeys,  \* pruneDeleteBatchKeys: a deletion batch is written at this size
    MaxFaults,  \* bound: failed or killed invocations
    MaxBlocks   \* bound: blocks the node executes between invocations

ASSUME PruneConstants ==
    /\ NoKey \notin Keys
    /\ BatchKeys \in Nat \ {0}
    /\ MaxFaults \in Nat
    /\ MaxBlocks \in Nat

VARIABLES
    \* what is on disk
    shape,      \* the shape of every key; never changes
    genesis,    \* the genesis root node, or NoKey; never changes
    db,         \* the keys present
    reach,      \* the keys a walk of the head's state reads
    manifest,   \* "current", or "pending": an unfinished CURRENT.N publication
    lock,       \* who holds the LevelDB file lock: "free", "node", "prune"
    keep,       \* the keep database in the temporary directory
    \* the invocation
    stage,      \* "idle" or the stage variable of pruneWithHooks
    opts,       \* PruneOptions
    head,       \* the head read when the database was opened
    before,     \* the preflight inventory
    todo,       \* candidates of the deletion walk not yet in a written batch
    deleted,    \* result.Deleted
    started,    \* deletionStarted
    verified,   \* result.Verified
    err,        \* why the last invocation failed
    \* history
    opened,     \* db when this invocation opened it
    removed,    \* the keys this invocation took out of db
    faults, blocks

disk == <<shape, genesis, db, reach, manifest, lock, keep>>
run == <<stage, opts, head, before, todo, deleted, started, verified, err>>
history == <<opened, removed, faults, blocks>>
vars == <<shape, genesis, db, reach, manifest, lock, keep,
          stage, opts, head, before, todo, deleted, started, verified, err,
          opened, removed, faults, blocks>>

Shapes == {"addressed", "unknown", "foreign", "protected"}
Stages == {"idle", "collect", "verify_keep", "preflight", "reopen", "delete",
           "verify", "compact", "verify_compacted"}
Errors == {"none", "open", "missing", "hash", "foreign", "changed", "io"}
Inventory == [Keep : SUBSET Keys, Protected : SUBSET Keys,
              Candidates : SUBSET Keys, Unknown : SUBSET Keys]
NoInventory == [Keep |-> {}, Protected |-> {}, Candidates |-> {}, Unknown |-> {}]

Addressed == {k \in Keys : shape[k] = "addressed"}
Hash32 == {k \in Keys : shape[k] \in {"addressed", "unknown"}}
Foreign == {k \in Keys : shape[k] = "foreign"}
GenesisNode == {genesis} \ {NoKey}

(* The records the node needs, and the records pruning is for. *)
Needed == reach \cup GenesisNode
Garbage == (db \cap Addressed) \ Needed

-----------------------------------------------------------------------------
(* The scan that preflight, deletion and verification share. *)

(* The role a record gets from the merge cursor and the classifier.  M1 is the
   cursor that forgets to check that a 32-byte key hashes its value. *)
M1_role(k) ==
    CASE k \in keep     -> "RetainState"
      [] k \in Hash32   -> "Delete"
      [] OTHER          -> "Protect"
role(k) ==
    CASE k \in keep                     -> "RetainState"
      [] k \in Addressed \ keep         -> "Delete"
      [] k \in Hash32 \ (Addressed \cup keep) -> "Unknown"
      [] OTHER                          -> "Protect"

WithRole(r) == {k \in db : role(k) = r}

(* The inventory of one complete scan.  The digest of the protected records
   identifies the set of them; the counts are the sizes of these sets. *)
scanPruneDB ==
    [Keep |-> WithRole("RetainState"), Protected |-> db \ WithRole("Delete"),
     Candidates |-> WithRole("Delete"), Unknown |-> WithRole("Unknown")]

(* Each check is the set of errors it may end with, empty when it passes: which
   one comes first depends on the order of the keys. *)

(* A complete walk: a keep key the source lacks, or a record that
   rejectPruneForeignKey refuses. *)
walkErrors ==
    {e \in {"missing"} : ~(keep \subseteq db)}
        \cup {e \in {"foreign"} : Foreign \cap db # {}}

(* The partitioned walk of the head's state over the records in d: every
   record must be there, under the hash of its value. *)
stateErrors(d) ==
    {e \in {"missing"} : ~(head \subseteq d)}
        \cup {e \in {"hash"} : ~(head \cap d \subseteq Addressed)}

confirmPruneHead == {e \in {"changed"} : head # reach}

readPruneGenesis == {e \in {"open"} : ~(GenesisNode \subseteq db \cap Addressed)}

comparePruneInventory(after) ==
    {e \in {"changed"} : \/ after.Candidates # {}
                        \/ after.Keep # before.Keep
                        \/ after.Protected # before.Protected
                        \/ after.Unknown # before.Unknown}

(* The errors of two checks made one after the other. *)
Then(e1, e2) == IF e1 # {} THEN e1 ELSE e2

-----------------------------------------------------------------------------
(* How an invocation ends. *)

(* The deferred calls of pruneWithHooks: the temporary directory is removed,
   the database closed and its lock released. *)
Cleanup ==
    /\ stage' = "idle"
    /\ lock' = "free"
    /\ keep' = {}

Fail(e) ==
    /\ Cleanup
    /\ err' = e
    /\ UNCHANGED verified

(* A deferred close or removal that fails is joined into the error of an
   otherwise successful invocation. *)
Succeed ==
    /\ Cleanup
    /\ verified' = TRUE
    /\ err' \in {"none", "io"}

Proceed(next) ==
    /\ stage' = next
    /\ UNCHANGED <<lock, keep, verified, err>>

(* The deferred cleanup did not run: the temporary directory stays behind and
   the operating system releases the lock. *)
Killed ==
    /\ stage' = "idle"
    /\ lock' = "free"
    /\ err' = "io"
    /\ UNCHANGED <<keep, verified>>

(* Carry on to the next stage, or return an error of the check. *)
Check(errors, next) ==
    IF errors = {} THEN Proceed(next) ELSE \E e \in errors : Fail(e)

-----------------------------------------------------------------------------
(* The stages of pruneWithHooks. *)

(* validatePruneOptions, then the "open" stage: take the lock, refuse an
   unfinished manifest publication, read the head and the genesis root node.
   The result, the counters and the keep directory are this invocation's own. *)
Open(options) ==
    LET rejected == Then({e \in {"open"} : lock # "free" \/ manifest # "current"},
                         readPruneGenesis)
    IN  /\ stage = "idle"
        /\ ~(options.DryRun /\ options.Compact)
        /\ opts' = options
        /\ before' = NoInventory
        /\ deleted' = {} /\ started' = FALSE /\ verified' = FALSE
        /\ todo' = {} /\ removed' = {} /\ opened' = db
        /\ \/ /\ rejected = {}
              /\ stage' = "collect" /\ lock' = "prune" /\ head' = reach
              /\ err' = "none"
           \/ /\ rejected # {}
              /\ err' = "open"
              /\ UNCHANGED <<stage, lock, head>>
        /\ UNCHANGED <<shape, genesis, db, reach, manifest, keep, faults, blocks>>

(* What buildPruneKeep writes: every key the walk of the head's state reads, and
   the genesis root node, into a fresh directory.  M3 forgets the genesis
   node. *)
M3_collected == head
collected == head \cup GenesisNode

(* "collect" *)
Collect ==
    /\ stage = "collect"
    /\ IF stateErrors(db) = {}
       THEN /\ keep' = collected
            /\ stage' = "verify_keep"
            /\ UNCHANGED <<lock, verified, err>>
       ELSE \E e \in stateErrors(db) : Fail(e)
    /\ UNCHANGED <<shape, genesis, db, reach, manifest, opts, head, before, todo,
                   deleted, started, history>>

(* "verify_keep": the head's state is walked again, over the keep database. *)
VerifyKeep ==
    /\ stage = "verify_keep"
    /\ Check(stateErrors(keep), "preflight")
    /\ UNCHANGED <<shape, genesis, db, reach, manifest, opts, head, before, todo,
                   deleted, started, history>>

(* "preflight": a full scan and a re-read of the head.  A dry run ends here. *)
Preflight ==
    LET errors == Then(walkErrors, confirmPruneHead)
    IN  /\ stage = "preflight"
        /\ before' = IF walkErrors = {} THEN scanPruneDB ELSE before
        /\ IF errors = {} /\ opts.DryRun THEN Succeed ELSE Check(errors, "reopen")
        /\ UNCHANGED <<shape, genesis, db, reach, manifest, opts, head, todo,
                       deleted, started, history>>

(* "delete", first part: the database is reopened for writing and the deletion
   walk takes its snapshot. *)
Reopen ==
    /\ stage = "reopen"
    /\ todo' = WithRole("Delete")
    /\ Proceed("delete")
    /\ UNCHANGED <<shape, genesis, db, reach, manifest, opts, head, before,
                   deleted, started, history>>

(* A batch is the next candidates in key order, at most BatchKeys of them;
   since any order of the keys is possible it is any such subset. *)
Batches == {b \in SUBSET todo : b # {} /\ Cardinality(b) <= BatchKeys}

(* "delete": one synced batch is written and counted. *)
FlushBatch ==
    /\ stage = "delete"
    /\ \E b \in Batches :
         /\ db' = db \ b
         /\ removed' = removed \cup b
         /\ deleted' = deleted \cup b
         /\ todo' = todo \ b
    /\ started' = TRUE
    /\ UNCHANGED <<shape, genesis, reach, manifest, lock, keep, stage, opts, head,
                   before, verified, err, opened, faults, blocks>>

(* LevelDB publishes a new manifest through CURRENT.N when it is opened for
   writing and while it runs; a failure may leave this unfinished. *)
ManifestMayTear ==
    \/ UNCHANGED manifest
    \/ stage \in Stages \ {"idle", "collect", "verify_keep", "preflight"}
         /\ manifest' = "pending"

(* "delete": the synced write fails.  deletionStarted was set before the write,
   nothing is counted, and the journal may or may not hold the batch.  M5 sets
   deletionStarted only after a successful write. *)
M5_FlushFails ==
    /\ stage = "delete"
    /\ faults < MaxFaults
    /\ \E b \in Batches, lost \in BOOLEAN :
         /\ db' = IF lost THEN db ELSE db \ b
         /\ removed' = IF lost THEN removed ELSE removed \cup b
    /\ Fail("io") /\ ManifestMayTear
    /\ faults' = faults + 1
    /\ UNCHANGED <<shape, genesis, reach, opts, head, before, todo,
                   deleted, started, opened, blocks>>
FlushFails ==
    /\ stage = "delete"
    /\ faults < MaxFaults
    /\ \E b \in Batches, lost \in BOOLEAN :
         /\ db' = IF lost THEN db ELSE db \ b
         /\ removed' = IF lost THEN removed ELSE removed \cup b
    /\ started' = TRUE
    /\ Fail("io") /\ ManifestMayTear
    /\ faults' = faults + 1
    /\ UNCHANGED <<shape, genesis, reach, opts, head, before, todo,
                   deleted, opened, blocks>>

(* "delete": the walk is over and the last batch is written.  An error of the
   walk ends it earlier, after any number of batches.  M6 forgets the flush
   after the walk. *)
M6_DeleteDone ==
    /\ stage = "delete"
    /\ walkErrors = {} => Cardinality(todo) < BatchKeys
    /\ Check(walkErrors, "verify")
    /\ UNCHANGED <<shape, genesis, db, reach, manifest, opts, head, before, todo,
                   deleted, started, history>>
DeleteDone ==
    /\ stage = "delete"
    /\ walkErrors = {} => todo = {}
    /\ Check(walkErrors, "verify")
    /\ UNCHANGED <<shape, genesis, db, reach, manifest, opts, head, before, todo,
                   deleted, started, history>>

(* "verify" and "verify_compacted": close, sync, reopen read-only; check the
   head, its state and the genesis root node; scan and compare inventories. *)
verifyPruneDatabase ==
    Then(confirmPruneHead,
         Then(stateErrors(db),
              Then(readPruneGenesis,
                   Then(walkErrors, comparePruneInventory(scanPruneDB)))))

Verify ==
    /\ stage \in {"verify", "verify_compacted"}
    /\ IF verifyPruneDatabase = {} /\ ~(stage = "verify" /\ opts.Compact)
       THEN Succeed
       ELSE Check(verifyPruneDatabase, "compact")
    /\ UNCHANGED <<shape, genesis, db, reach, manifest, opts, head, before, todo,
                   deleted, started, history>>

(* "compact": LevelDB drops deleted entries; the records present stay. *)
Compact ==
    /\ stage = "compact"
    /\ Proceed("verify_compacted")
    /\ UNCHANGED <<shape, genesis, db, reach, manifest, opts, head, before, todo,
                   deleted, started, history>>

(* An I/O error or a cancelled context ends the invocation at any stage. *)
Interrupt ==
    /\ stage # "idle"
    /\ faults < MaxFaults
    /\ Fail("io") /\ ManifestMayTear
    /\ faults' = faults + 1
    /\ UNCHANGED <<shape, genesis, db, reach, opts, head, before, todo,
                   deleted, started, opened, removed, blocks>>

(* The process is killed. *)
Kill ==
    /\ stage # "idle"
    /\ faults < MaxFaults
    /\ Killed /\ ManifestMayTear
    /\ faults' = faults + 1
    /\ UNCHANGED <<shape, genesis, db, reach, opts, head, before, todo,
                   deleted, started, opened, removed, blocks>>

-----------------------------------------------------------------------------
(* The node (external): it holds the same file lock, recovers the manifest
   when it opens the database, and moves the head. *)
NodeStart ==
    /\ lock = "free"
    /\ Needed \subseteq db \cap Addressed
    /\ lock' = "node" /\ manifest' = "current"
    /\ UNCHANGED <<shape, genesis, db, reach, keep, run, history>>

(* A block rewrites part of the state: the new head's state consists of records
   the old one has and of records written for it. *)
NodeBlock ==
    /\ lock = "node"
    /\ blocks < MaxBlocks
    /\ \E new \in SUBSET (Addressed \ db) :
         /\ \E kept \in SUBSET reach : reach' = kept \cup new
         /\ db' = db \cup new
    /\ blocks' = blocks + 1
    /\ UNCHANGED <<shape, genesis, manifest, lock, keep, run, opened, removed, faults>>

NodeStop ==
    /\ lock = "node"
    /\ lock' = "free"
    /\ UNCHANGED <<shape, genesis, db, reach, manifest, keep, run, history>>

-----------------------------------------------------------------------------
Options == [DryRun : BOOLEAN, Compact : BOOLEAN]

(* Any legacy database: records may be missing, misfiled or foreign. *)
Init ==
    /\ shape \in [Keys -> Shapes]
    /\ genesis \in Hash32 \cup {NoKey}
    /\ reach \in SUBSET Hash32
    /\ db \in SUBSET Keys
    /\ manifest = "current" /\ lock = "free" /\ keep = {}
    /\ stage = "idle" /\ opts = [DryRun |-> FALSE, Compact |-> FALSE]
    /\ head = {} /\ before = NoInventory /\ todo = {}
    /\ deleted = {} /\ started = FALSE /\ verified = FALSE /\ err = "none"
    /\ opened = {} /\ removed = {} /\ faults = 0 /\ blocks = 0

Invocation ==
    \/ Collect \/ VerifyKeep \/ Preflight \/ Reopen \/ FlushBatch \/ DeleteDone
    \/ Verify \/ Compact

Next ==
    \/ \E options \in Options : Open(options)
    \/ Invocation
    \/ FlushFails \/ Interrupt \/ Kill
    \/ NodeStart \/ NodeBlock \/ NodeStop

Spec == Init /\ [][Next]_vars

(* A started invocation runs on unless it is interrupted, and the operator
   follows the error message: "rerun to rebuild the keep set". *)
FairSpec ==
    /\ Spec
    /\ WF_vars(Invocation)
    /\ \A compact \in BOOLEAN :
         SF_vars(Open([DryRun |-> FALSE, Compact |-> compact]))

-----------------------------------------------------------------------------
(* Types of the variables. *)
TypeOK ==
    /\ shape \in [Keys -> Shapes]
    /\ genesis \in Keys \cup {NoKey}
    /\ db \subseteq Keys /\ reach \subseteq Keys /\ keep \subseteq Keys
    /\ head \subseteq Keys /\ todo \subseteq Keys /\ deleted \subseteq Keys
    /\ opened \subseteq Keys /\ removed \subseteq Keys
    /\ manifest \in {"current", "pending"}
    /\ lock \in {"free", "node", "prune"}
    /\ stage \in Stages
    /\ opts \in Options
    /\ before \in Inventory
    /\ started \in BOOLEAN /\ verified \in BOOLEAN
    /\ err \in Errors
    /\ faults \in 0..MaxFaults /\ blocks \in 0..MaxBlocks

(* Over any sequence of failed, killed and repeated invocations and of blocks
   executed in between, the only records that ever leave the database are
   content-addressed ones that neither the current head's state nor the genesis
   root uses (deletePruneDifference against the keep set of buildPruneKeep). *)
OnlyGarbageDeleted == [][db \ db' \subseteq Garbage]_vars

(* An invocation that finds a damaged or foreign database, or whose checks
   disagree after deletion, is the same one: every complaint about the data is
   raised before the first deletion (pruneWithHooks: collect, verify_keep and
   preflight come before delete, under one lock). *)
RejectsBeforeDeleting ==
    err \in {"open", "missing", "hash", "foreign", "changed"} =>
        ~started /\ removed = {}

(* The error wrapper's deletion_started is never false once a record is gone,
   and result.Deleted counts only records that are really gone, also when a
   failed write was applied after all. *)
ReportsCommittedDeletions ==
    /\ deleted \subseteq removed
    /\ removed # {} => started
    /\ opts.DryRun => ~started

(* Success is exact: the preflight candidates are the garbage of the database
   as it was opened, and, unless it was a dry run, exactly these were removed
   and reported (pruneWithHooks returns Verified). *)
VerifiedIsExact ==
    verified =>
        /\ before.Candidates = (opened \cap Addressed) \ (head \cup GenesisNode)
        /\ deleted = removed
        /\ removed = IF opts.DryRun THEN {} ELSE before.Candidates

(* What an invocation reports is true, whatever failed and whatever is rerun: the
   three statements above. *)
ReportsAreTruthful ==
    RejectsBeforeDeleting /\ ReportsCommittedDeletions /\ VerifiedIsExact

(* The outcome an operator sees. *)
Outcome ==
    IF err # "none" THEN "failed"
    ELSE IF verified THEN (IF opts.DryRun THEN "checked" ELSE "clean")
    ELSE "none"

Contract == INSTANCE PruneContract WITH
    addressed <- Addressed, needed <- Needed, owner <- lock, outcome <- Outcome

(* The command implements its contract: the stages, batches, faults and reruns
   amount to garbage leaving the database, with a truthful report at the end. *)
ImplementsContract == Contract!Spec

(* The inductive invariant behind the four properties above: what each stage
   relies on.  While an invocation holds the lock nobody else moves the head or
   the records, so what it read when it opened the database is still true. *)
Collected == stage \in Stages \ {"idle", "collect"}
Preflighted == Collected /\ stage \notin {"verify_keep", "preflight"}
Untouched == stage \in {"collect", "verify_keep", "preflight", "reopen"}
Deleted == Preflighted /\ stage \notin {"reopen", "delete"}

StageInv ==
    /\ stage = "idle" => lock # "prune"
    /\ stage # "idle" =>
         /\ lock = "prune" /\ err = "none" /\ ~verified
         /\ head = reach
         /\ db = opened \ removed /\ removed \subseteq opened
         /\ deleted = removed
         /\ GenesisNode \subseteq db \cap Addressed
    /\ Untouched => removed = {} /\ ~started
    /\ Collected =>
         /\ keep = head \cup GenesisNode
         /\ keep \subseteq db \cap Addressed
    /\ Preflighted =>
         /\ ~opts.DryRun
         /\ Foreign \cap opened = {}
         /\ before = [Keep |-> keep,
                      Protected |-> opened \ (Addressed \ keep),
                      Candidates |-> (opened \cap Addressed) \ keep,
                      Unknown |-> (opened \cap Hash32) \ Addressed]
    /\ stage = "delete" => /\ todo = before.Candidates \ removed
                           /\ removed \subseteq before.Candidates
    /\ Deleted => removed = before.Candidates

(* Crashes and failures only delay pruning: on an intact database the operator
   who reruns the command gets rid of all garbage, unless the node is started or
   a kill left an unfinished manifest publication. *)
PruningConverges ==
    (Needed \subseteq db \cap Addressed /\ Foreign \cap db = {}) ~>
        (Garbage = {} \/ manifest = "pending" \/ lock = "node")

=============================================================================
