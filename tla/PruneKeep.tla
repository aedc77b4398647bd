----------------------------- MODULE PruneKeep -----------------------------
(***************************************************************************)
(* Collecting the keep set (src/internal/migration/prune_keep.go and       *)
(* collectPruneState): goroutines of the state walk read records through   *)
(* pruneRecordingDB, which puts every record it returns into the batch of  *)
(* the key's shard.  Batches are written to the keep database when they    *)
(* are full and when the walk is over.  A goroutine may discard the error  *)
(* of a read, so failures are latched.                                     *)
(***************************************************************************)
EXTENDS Integers, FiniteSets

CONSTANTS
    Keys,       \* the 32-byte keys of the source
    BadKeys,    \* those that do not hash their value
    Genesis,    \* the genesis root node
    Readers,    \* goroutines of the walk
    Shards, ShardOf,  \* hash[0] % len(shards)
    BatchKeys,  \* ethdb.IdealBatchSize, in keys
    MaxReads,   \* bound: reads of a goroutine
    MaxFaults   \* bound: failed batch writes

ASSUME PruneKeepConstants ==
    /\ BadKeys \subseteq Keys /\ Genesis \in Keys \ BadKeys
    /\ ShardOf \in [Keys -> Shards]
    /\ BatchKeys \in Nat \ {0} /\ MaxReads \in Nat /\ MaxFaults \in Nat

VARIABLES
    reader,     \* [state, key, err] of each goroutine
    batch,      \* the batch of each shard, and its pending map
    stored,     \* the keep database
    failure,    \* pruneKeepFailure
    cancelled,  \* the walk's context
    userCancelled, \* the caller's context
    pc,         \* collectPruneState
    flushed,    \* shards that close has flushed
    err,        \* its error
    returned,   \* history: keys whose Get succeeded
    hurt,       \* history: some put failed
    reads, faults

vars == <<reader, batch, stored, failure, cancelled, userCancelled, pc, flushed, err,
          returned, hurt, reads, faults>>

Idle == [state |-> "idle", key |-> Genesis, err |-> "none"]

Init ==
    /\ reader = [r \in Readers |-> Idle]
    /\ batch = [s \in Shards |-> {}]
    /\ stored = {} /\ failure = "none"
    /\ cancelled = FALSE /\ userCancelled = FALSE
    /\ pc = "walk" /\ flushed = {} /\ err = "none"
    /\ returned = {} /\ hurt = FALSE
    /\ reads = [r \in Readers |-> 0] /\ faults = 0

-----------------------------------------------------------------------------
(* flush of shard s holding the keys b: written and forgotten, or an error
   with an unknown effect that leaves batch and map as they are.  M1 resets
   them before it writes. *)
M1_flush(s, b, e) ==
    /\ \/ e = "none" /\ stored' = stored \cup b /\ UNCHANGED faults
       \/ /\ e = "write" /\ faults < MaxFaults /\ faults' = faults + 1
          /\ \/ UNCHANGED stored
             \/ stored' = stored \cup b
    /\ batch' = [batch EXCEPT ![s] = {}]
flush(s, b, e) ==
    \/ /\ e = "none"
       /\ stored' = stored \cup b /\ batch' = [batch EXCEPT ![s] = {}]
       /\ UNCHANGED faults
    \/ /\ e = "write" /\ faults < MaxFaults /\ faults' = faults + 1
       /\ batch' = [batch EXCEPT ![s] = b]
       /\ \/ UNCHANGED stored
          \/ stored' = stored \cup b

(* pruneKeepShard.put of key k, under the shard's mutex. *)
shardPut(k, e) ==
    LET s == ShardOf[k]
        b == batch[s] \cup {k}
    IN  \/ /\ k \in batch[s] /\ e = "none"
           /\ UNCHANGED <<batch, stored, faults>>
        \/ /\ k \notin batch[s] /\ Cardinality(b) < BatchKeys /\ e = "none"
           /\ batch' = [batch EXCEPT ![s] = b]
           /\ UNCHANGED <<stored, faults>>
        \/ /\ k \notin batch[s] /\ Cardinality(b) >= BatchKeys
           /\ flush(s, b, e)

(* pruneKeepWriter.fail: latch the first error and cancel the walk. *)
latched(e) == IF failure = "none" THEN e ELSE failure

-----------------------------------------------------------------------------
(* A goroutine of the walk: pruneRecordingDB.Get reads a record and goes on to
   put it; once a failure is latched it returns that error and changes
   nothing. *)
Get(r) ==
    /\ pc = "walk" /\ reader[r].state = "idle" /\ reads[r] < MaxReads
    /\ reads' = [reads EXCEPT ![r] = @ + 1]
    /\ failure = "none"
    /\ \E k \in Keys :
         reader' = [reader EXCEPT ![r] = [state |-> "put", key |-> k, err |-> "none"]]
    /\ UNCHANGED <<batch, stored, failure, cancelled, userCancelled, pc, flushed, err,
                   returned, hurt, faults>>

(* put: the hash check, then the shard. *)
Put(r) ==
    LET k == reader[r].key
    IN  /\ reader[r].state = "put"
        /\ \E e \in {"none", "write", "hash"} :
             /\ IF k \in BadKeys
                THEN e = "hash" /\ UNCHANGED <<batch, stored, faults>>
                ELSE shardPut(k, e)
             /\ reader' = [reader EXCEPT ![r] = [state |-> "latch", key |-> k, err |-> e]]
             /\ hurt' = (hurt \/ e # "none")
        /\ UNCHANGED <<failure, cancelled, userCancelled, pc, flushed, err, returned, reads>>

(* put: fail(err), and the return to the walk, which may drop the error. *)
Latch(r) ==
    LET e == reader[r].err
    IN  /\ reader[r].state = "latch"
        /\ failure' = latched(e)
        /\ cancelled' = (cancelled \/ failure' # failure)
        /\ returned' = IF e = "none" THEN returned \cup {reader[r].key} ELSE returned
        /\ reader' = [reader EXCEPT ![r] = Idle]
        /\ UNCHANGED <<batch, stored, userCancelled, pc, flushed, err, hurt, reads, faults>>

-----------------------------------------------------------------------------
(* collectPruneState: the walk has joined its goroutines.  It may fail of its
   own, be cancelled, or succeed although some read failed. *)
WalkDone ==
    /\ pc = "walk" /\ \A r \in Readers : reader[r].state = "idle"
    /\ \/ err' = "none" /\ pc' = "genesis"
       \/ err' = "state" /\ pc' = "check"
       \/ cancelled /\ err' = "cancelled" /\ pc' = "check"
    /\ UNCHANGED <<reader, batch, stored, failure, cancelled, userCancelled, flushed,
                   returned, hurt, reads, faults>>

(* writer.put of the genesis root node. *)
PutGenesis ==
    /\ pc = "genesis"
    /\ IF failure # "none"
       THEN /\ err' = failure
            /\ UNCHANGED <<batch, stored, failure, cancelled, hurt, returned, faults>>
       ELSE \E e \in {"none", "write"} :
              /\ shardPut(Genesis, e)
              /\ err' = e /\ failure' = e /\ hurt' = (hurt \/ e # "none")
              /\ cancelled' = (cancelled \/ e # "none")
              /\ returned' = IF e = "none" THEN returned \cup {Genesis} ELSE returned
    /\ pc' = "check"
    /\ UNCHANGED <<reader, userCancelled, flushed, reads>>

(* A latched failure replaces whatever the walk returned.  M2 trusts the walk's
   own result. *)
M2_outcome == err
outcome == IF failure # "none" THEN failure ELSE err

CheckLatch ==
    /\ pc = "check"
    /\ err' = outcome
    /\ pc' = IF outcome = "none" THEN "close" ELSE "done"
    /\ UNCHANGED <<reader, batch, stored, failure, cancelled, userCancelled, flushed,
                   returned, hurt, reads, faults>>

(* close: flush the shards one by one, checking the caller's context before
   each. *)
toFlush == Shards \ flushed

CloseShard ==
    /\ pc = "close"
    /\ \E s \in toFlush :
         IF userCancelled
         THEN err' = "cancelled" /\ pc' = "done"
              /\ UNCHANGED <<batch, stored, failure, cancelled, flushed, hurt, faults>>
         ELSE \E e \in {"none", "write"} :
                /\ flush(s, batch[s], e)
                /\ err' = e /\ failure' = e /\ hurt' = (hurt \/ e # "none")
                /\ cancelled' = (cancelled \/ e # "none")
                /\ flushed' = flushed \cup {s}
                /\ pc' = IF e = "none" THEN "close" ELSE "done"
    /\ UNCHANGED <<reader, userCancelled, returned, reads>>

CloseDone ==
    /\ pc = "close" /\ toFlush = {}
    /\ pc' = "done"
    /\ UNCHANGED <<reader, batch, stored, failure, cancelled, userCancelled, flushed, err,
                   returned, hurt, reads, faults>>

UserCancel ==
    /\ pc # "done" /\ ~userCancelled
    /\ userCancelled' = TRUE /\ cancelled' = TRUE
    /\ UNCHANGED <<reader, batch, stored, failure, pc, flushed, err, returned, hurt,
                   reads, faults>>

Done == pc = "done" /\ UNCHANGED vars

Next ==
    \/ \E r \in Readers : Get(r) \/ Put(r) \/ Latch(r)
    \/ WalkDone \/ PutGenesis \/ CheckLatch \/ CloseShard \/ CloseDone
    \/ UserCancel \/ Done

Spec == Init /\ [][Next]_vars

-----------------------------------------------------------------------------
KeepErrors == {"none", "hash", "write", "state", "cancelled"}

(* Types of the variables. *)
TypeOK ==
    /\ reader \in [Readers -> [state : {"idle", "put", "latch"}, key : Keys,
                               err : {"none", "hash", "write"}]]
    /\ batch \in [Shards -> SUBSET Keys] /\ stored \subseteq Keys
    /\ failure \in {"none", "hash", "write"} /\ err \in KeepErrors
    /\ cancelled \in BOOLEAN /\ userCancelled \in BOOLEAN /\ hurt \in BOOLEAN
    /\ pc \in {"walk", "genesis", "check", "close", "done"}
    /\ flushed \subseteq Shards /\ returned \subseteq Keys
    /\ reads \in [Readers -> 0..MaxReads] /\ faults \in 0..MaxFaults

(* Where a key that was put is found. *)
Held(k) == k \in stored \/ k \in batch[ShardOf[k]]

(* What the walk was given is never lost: a record that Get returned is in the
   keep database or in its shard's batch, whichever goroutines fill, flush and
   fail to flush that shard meanwhile (pruneKeepShard.put, flush). *)
ReturnedIsPending ==
    /\ TypeOK
    /\ \A k \in returned : Held(k)

(* When collectPruneState succeeds the keep database holds exactly the records
   that were read and the genesis root node, all of them content-addressed: the
   set that deletion is allowed to trust. *)
KeepIsExact ==
    pc = "done" /\ err = "none" =>
        stored = returned /\ Genesis \in stored /\ stored \cap BadKeys = {}

(* A failed put fails the collection even when the goroutine that saw the error
   dropped it, and the cancellation it causes is not what is reported. *)
FailureIsReported ==
    pc = "done" =>
        /\ hurt => err \notin {"none", "state"}
        /\ err = "cancelled" => userCancelled

(* The collection's result can be relied on: success is exact, and no failure is
   lost on its way to the caller (collectPruneState). *)
OutcomeIsTruthful == KeepIsExact /\ FailureIsReported

(* Keys that a goroutine has put and not yet returned. *)
Putting == {reader[r].key : r \in {q \in Readers : reader[q].state = "latch"}}

(* The inductive invariant.  A failure is latched, or on the way to the latch;
   until there is one the batches and the keep database hold nothing that was
   not read; and close leaves empty batches behind it. *)
KeepInv ==
    /\ ReturnedIsPending
    /\ \A s \in Shards : batch[s] \cap BadKeys = {}
    /\ stored \cap BadKeys = {}
    /\ hurt <=> failure # "none" \/ \E r \in Readers : reader[r].err # "none"
    /\ ~hurt => /\ stored \subseteq returned \cup Putting
                /\ \A s \in Shards : batch[s] \subseteq returned \cup Putting
    /\ \A r \in Readers :
         /\ reader[r].err # "none" => reader[r].state = "latch"
         /\ reader[r].err = "none" /\ reader[r].state = "latch" => Held(reader[r].key)
    /\ pc # "walk" => \A r \in Readers : reader[r].state = "idle"
    /\ cancelled => userCancelled \/ failure # "none"
    /\ pc = "genesis" => err = "none"
    /\ pc = "check" => /\ err \in {"none", "state", "cancelled", failure}
                       /\ err = "none" => Genesis \in returned
                       /\ err = "cancelled" => cancelled
    /\ pc = "close" => ~hurt /\ err = "none" /\ Genesis \in returned
    /\ \A s \in flushed : pc = "close" => batch[s] = {}
    /\ pc \in {"walk", "genesis", "check"} => flushed = {}
    /\ pc = "done" =>
         /\ err = "none" => /\ ~hurt /\ Genesis \in returned
                            /\ \A s \in Shards : batch[s] = {}
         /\ hurt => err \in {"hash", "write"}
         /\ err = "cancelled" => userCancelled

=============================================================================
