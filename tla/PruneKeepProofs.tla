-------------------------- MODULE PruneKeepProofs --------------------------
(***************************************************************************)
(* The keep writer collects what the walk reads, for any number of         *)
(* goroutines, shards, keys and failing writes.                            *)
(***************************************************************************)
EXTENDS PruneKeep, TLAPS

(* What writing a batch b of shard s does: it moves keys from the batch to the
   keep database, and an error keeps them in the batch. *)
Moves(s, b) ==
    /\ batch' \in [Shards -> SUBSET Keys] /\ stored' \subseteq Keys
    /\ faults' \in 0..MaxFaults
    /\ \A t \in Shards \ {s} : batch'[t] = batch[t]
    /\ stored \subseteq stored' /\ stored' \subseteq stored \cup b
    /\ batch'[s] \subseteq b /\ b \subseteq stored' \cup batch'[s]

(* flush moves a shard's batch to the store, all of it unless it fails. *)
LEMMA FlushMoves ==
    ASSUME TypeOK, NEW s \in Shards, NEW b \in SUBSET Keys, NEW e, flush(s, b, e)
    PROVE  Moves(s, b) /\ e \in {"none", "write"} /\ (e = "none" => batch'[s] = {})
<1>1. CASE e = "none"
  BY Zenon, <1>1 DEF flush, Moves, TypeOK
<1>2. CASE e = "write"
  BY <1>2, PruneKeepConstants DEF flush, Moves, TypeOK
<1>. QED  BY Zenon, <1>1, <1>2 DEF flush

(* pruneKeepShard.put adds its key to what the shard holds, and loses nothing. *)
LEMMA PutMoves ==
    ASSUME TypeOK, NEW k \in Keys, NEW e, shardPut(k, e)
    PROVE  Moves(ShardOf[k], batch[ShardOf[k]] \cup {k}) /\ e \in {"none", "write"}
<1>. DEFINE s == ShardOf[k]
            b == batch[s] \cup {k}
<1>1. s \in Shards /\ b \in SUBSET Keys  BY Zenon, PruneKeepConstants DEF TypeOK
<1>2. CASE k \in batch[s] /\ e = "none" /\ UNCHANGED <<batch, stored, faults>>
  BY Zenon, <1>1, <1>2 DEF Moves, TypeOK
<1>3. CASE e = "none" /\ batch' = [batch EXCEPT ![s] = b] /\ UNCHANGED <<stored, faults>>
  BY Zenon, <1>1, <1>3 DEF Moves, TypeOK
<1>4. CASE flush(s, b, e)
  BY Zenon, <1>1, <1>4, FlushMoves
<1>. QED  BY Zenon, <1>2, <1>3, <1>4 DEF shardPut

(* So a key that was read stays where it can be found, and the shard's key joins
   it. *)
LEMMA MovesKeeps ==
    ASSUME TypeOK, NEW s \in Shards, NEW b \in SUBSET Keys, Moves(s, b),
           batch[s] \subseteq b,
           NEW k \in Keys, Held(k) \/ (k \in b /\ s = ShardOf[k])
    PROVE  Held(k)'
<1>1. CASE ShardOf[k] = s  BY Zenon, <1>1 DEF Moves, Held
<1>2. CASE ShardOf[k] # s  BY Zenon, <1>2, PruneKeepConstants DEF Moves, Held
<1>. QED  BY Zenon, <1>1, <1>2

-----------------------------------------------------------------------------
(* The invariant holds before the walk. *)
LEMMA KeepInit == Init => KeepInv
<1>. SUFFICES ASSUME Init PROVE KeepInv  OBVIOUS
<1>1. Idle \in [state : {"idle", "put", "latch"}, key : Keys, err : {"none", "hash", "write"}]
  BY Zenon, PruneKeepConstants DEF Idle
<1>2. reads \in [Readers -> 0..MaxReads] /\ faults \in 0..MaxFaults
  BY PruneKeepConstants DEF Init
<1>3. TypeOK  BY Zenon, <1>1, <1>2 DEF Init, TypeOK, KeepErrors
<1>. QED  BY Zenon, <1>3 DEF Init, KeepInv, ReturnedIsPending, Held, Idle

(* Reads, and the end of the walk. *)
LEMMA GetKeeps == ASSUME KeepInv, NEW r \in Readers, Get(r) PROVE KeepInv'
<1>. USE DEF KeepInv, ReturnedIsPending, Held
<1>1. PICK k \in Keys :
        reader' = [reader EXCEPT ![r] = [state |-> "put", key |-> k, err |-> "none"]]
  BY Zenon DEF Get
<1>2. TypeOK'  BY <1>1, PruneKeepConstants DEF Get, TypeOK
<1>3. Putting' = Putting /\ reader[r].err = "none"
  BY <1>1 DEF Get, TypeOK, Putting
<1>4. (\E q \in Readers : reader'[q].err # "none") <=> (\E q \in Readers : reader[q].err # "none")
  BY Zenon, <1>1, <1>3 DEF TypeOK
<1>. QED  BY <1>1, <1>2, <1>3, <1>4 DEF Get, TypeOK

(* A reader latches its error and returns to the walk. *)
LEMMA LatchKeeps == ASSUME KeepInv, NEW r \in Readers, Latch(r) PROVE KeepInv'
<1>. USE DEF KeepInv, ReturnedIsPending, Held
<1>. DEFINE e == reader[r].err
            k == reader[r].key
<1>1. reader' = [reader EXCEPT ![r] = Idle] /\ Idle.err = "none" /\ Idle.state = "idle"
  BY Zenon DEF Latch, Idle
<1>2. TypeOK'
  <2>1. Idle \in [state : {"idle", "put", "latch"}, key : Keys, err : {"none", "hash", "write"}]
    BY Zenon, PruneKeepConstants DEF Idle
  <2>2. failure' \in {"none", "hash", "write"} /\ returned' \subseteq Keys /\ cancelled' \in BOOLEAN
    BY Zenon DEF Latch, latched, TypeOK
  <2>. QED  BY <1>1, <2>1, <2>2 DEF Latch, TypeOK
<1>3. Putting \subseteq Putting' \cup {k} /\ Putting' \subseteq Putting
  BY Zenon, <1>1 DEF Putting, TypeOK
<1>4. k \in Putting /\ k \in Keys  BY Zenon DEF Latch, Putting, TypeOK
<1>5. CASE e = "none"
  <2>1. failure' = failure /\ cancelled' = cancelled /\ returned' = returned \cup {k}
    BY Zenon, <1>5 DEF Latch, latched, TypeOK
  <2>2. Held(k)  BY Zenon, <1>5 DEF Latch
  <2>. QED  BY <1>1, <1>2, <1>3, <1>5, <2>1, <2>2 DEF Latch, TypeOK
<1>6. CASE e # "none"
  <2>1. hurt /\ failure' # "none" /\ returned' = returned
    BY Zenon, <1>6 DEF Latch, latched, TypeOK
  <2>. QED  BY <1>1, <1>2, <1>6, <2>1 DEF Latch, TypeOK
<1>. QED  BY Zenon, <1>5, <1>6

(* What a put or a flush of shard s does to the parts of the invariant about
   batches: b is what the shard held, and possibly a key that is being put. *)
LEMMA MovesKeepInv ==
    ASSUME KeepInv, NEW s \in Shards, NEW b \in SUBSET Keys, Moves(s, b),
           batch[s] \subseteq b, b \cap BadKeys = {}
    PROVE  /\ \A k \in Keys : Held(k) => Held(k)'
           /\ \A t \in Shards : batch'[t] \cap BadKeys = {}
           /\ stored' \cap BadKeys = {}
<1>1. TypeOK  BY Zenon DEF KeepInv, ReturnedIsPending
<1>2. \A k \in Keys : Held(k) => Held(k)'  BY Zenon, <1>1, MovesKeeps
<1>3. \A t \in Shards : batch'[t] \cap BadKeys = {}
  BY Zenon DEF KeepInv, Moves
<1>4. stored' \cap BadKeys = {}  BY Zenon DEF KeepInv, Moves
<1>. QED  BY Zenon, <1>2, <1>3, <1>4

(* A reader puts its key, flushing a full batch, or refuses it. *)
LEMMA PutKeeps == ASSUME KeepInv, NEW r \in Readers, Put(r) PROVE KeepInv'
<1>1. TypeOK  BY Zenon DEF KeepInv, ReturnedIsPending
<1>. PICK k \in Keys : k = reader[r].key  BY Zenon, <1>1 DEF TypeOK
<1>. DEFINE s == ShardOf[k]
            b == batch[s] \cup {k}
<1>2. s \in Shards /\ b \in SUBSET Keys
  BY Zenon, <1>1, PruneKeepConstants DEF TypeOK
<1>3. PICK e \in {"none", "write", "hash"} :
        /\ IF k \in BadKeys THEN e = "hash" /\ UNCHANGED <<batch, stored, faults>>
           ELSE shardPut(k, e)
        /\ reader' = [reader EXCEPT ![r] = [state |-> "latch", key |-> k, err |-> e]]
        /\ hurt' = (hurt \/ e # "none")
  BY Zenon DEF Put
<1>4. /\ reader'[r] = [state |-> "latch", key |-> k, err |-> e]
      /\ \A q \in Readers \ {r} : reader'[q] = reader[q]
      /\ reader' \in [Readers -> [state : {"idle", "put", "latch"}, key : Keys,
                                   err : {"none", "hash", "write"}]]
  BY Zenon, <1>1, <1>3 DEF TypeOK
<1>5. reader[r].err = "none" /\ pc = "walk" /\ pc' = "walk"
  BY Zenon DEF Put, KeepInv
<1>6. Putting' = Putting \cup {k}
  BY <1>1, <1>4 DEF Put, Putting, TypeOK
<1>7. CASE k \in BadKeys
  <2>1. TypeOK'  BY Zenon, <1>1, <1>3, <1>4, <1>7 DEF Put, TypeOK
  <2>2. \A j \in Keys : Held(j) <=> Held(j)'  BY Zenon, <1>3, <1>7 DEF Held
  <2>3. hurt' /\ reader'[r].err # "none" /\ UNCHANGED <<batch, stored>>  BY Zenon, <1>3, <1>4, <1>7
  <2>4. ReturnedIsPending'
    BY Zenon, <1>1, <2>1, <2>2 DEF Put, KeepInv, ReturnedIsPending, TypeOK
  <2>5. \A q \in Readers :
          /\ reader'[q].err # "none" => reader'[q].state = "latch"
          /\ reader'[q].err = "none" /\ reader'[q].state = "latch" => Held(reader[q].key)'
    BY <1>1, <1>4, <2>2, <2>3 DEF KeepInv, TypeOK
  <2>. QED  BY Zenon, <1>4, <1>5, <2>1, <2>3, <2>4, <2>5 DEF Put, KeepInv
<1>8. CASE k \notin BadKeys
  <2>1. Moves(s, b) /\ e \in {"none", "write"}  BY Zenon, <1>1, <1>2, <1>3, <1>8, PutMoves
  <2>2. TypeOK'  BY Zenon, <1>1, <1>3, <1>4, <2>1 DEF Put, Moves, TypeOK
  <2>3. b \cap BadKeys = {}  BY Zenon, <1>2, <1>8 DEF KeepInv
  <2>4. /\ \A j \in Keys : Held(j) => Held(j)'
        /\ \A t \in Shards : batch'[t] \cap BadKeys = {}
        /\ stored' \cap BadKeys = {}
    BY Zenon, <1>2, <2>1, <2>3, MovesKeepInv
  <2>5. Held(k)'
    <3>1. batch[s] \subseteq b /\ k \in b  OBVIOUS
    <3>. QED  BY Zenon, <1>1, <1>2, <2>1, <3>1, MovesKeeps
  <2>6. ASSUME ~hurt'
        PROVE  /\ stored' \subseteq returned' \cup Putting'
               /\ \A t \in Shards : batch'[t] \subseteq returned' \cup Putting'
    <3>. DEFINE X == returned \cup Putting \cup {k}
    <3>1. stored \cup b \subseteq X /\ \A t \in Shards : batch[t] \subseteq X
      BY Zenon, <1>2, <1>3, <2>6 DEF KeepInv
    <3>2. stored' \subseteq X /\ \A t \in Shards : batch'[t] \subseteq X
      <4>. HIDE DEF X
      <4>. QED  BY Zenon, <1>2, <2>1, <3>1 DEF Moves
    <3>. QED  BY Zenon, <1>6, <3>2 DEF Put
  <2>7. hurt' <=> failure' # "none" \/ \E q \in Readers : reader'[q].err # "none"
    <3>1. hurt' <=> hurt \/ e # "none"  BY Zenon, <1>3
    <3>2. (\E q \in Readers : reader'[q].err # "none")
            <=> e # "none" \/ \E q \in Readers : reader[q].err # "none"
      BY <1>4, <1>5
    <3>. QED  BY Zenon, <3>1, <3>2 DEF Put, KeepInv
  <2>. QED  BY <1>1, <1>3, <1>4, <1>5, <2>2, <2>4, <2>5, <2>6, <2>7
            DEF Put, KeepInv, ReturnedIsPending, TypeOK
<1>. QED  BY Zenon, <1>7, <1>8

-----------------------------------------------------------------------------
(* collectPruneState after the walk. *)
LEMMA WalkDoneKeeps == ASSUME KeepInv, WalkDone PROVE KeepInv'
<1>. USE DEF KeepInv, ReturnedIsPending, Held
<1>1. TypeOK'  BY Zenon DEF WalkDone, TypeOK, KeepErrors
<1>2. Putting' = Putting  BY Zenon DEF WalkDone, Putting
<1>. QED  BY Zenon, <1>1, <1>2 DEF WalkDone

(* The latched failure replaces the walk's result. *)
LEMMA CheckLatchKeeps == ASSUME KeepInv, CheckLatch PROVE KeepInv'
<1>. USE DEF KeepInv, ReturnedIsPending, Held
<1>1. TypeOK'  BY Zenon DEF CheckLatch, TypeOK, KeepErrors, outcome
<1>2. Putting' = Putting  BY Zenon DEF CheckLatch, Putting
<1>3. \A r \in Readers : reader[r].err = "none"  BY Zenon DEF CheckLatch
<1>. QED  BY Zenon, <1>1, <1>2, <1>3 DEF CheckLatch, outcome, TypeOK

(* Every shard is flushed. *)
LEMMA CloseDoneKeeps == ASSUME KeepInv, CloseDone PROVE KeepInv'
<1>. USE DEF KeepInv, ReturnedIsPending, Held
<1>1. TypeOK'  BY Zenon DEF CloseDone, TypeOK
<1>2. Putting' = Putting  BY DEF CloseDone, Putting
<1>. QED  BY Zenon, <1>1, <1>2 DEF CloseDone, toFlush

(* The caller cancels. *)
LEMMA UserCancelKeeps == ASSUME KeepInv, UserCancel PROVE KeepInv'
<1>. USE DEF KeepInv, ReturnedIsPending, Held
<1>1. TypeOK'  BY Zenon DEF UserCancel, TypeOK
<1>2. Putting' = Putting  BY Zenon DEF UserCancel, Putting
<1>. QED  BY Zenon, <1>1, <1>2 DEF UserCancel

(* A stuttering step changes nothing. *)
LEMMA StutterKeeps == ASSUME KeepInv, UNCHANGED vars PROVE KeepInv'
<1>1. TypeOK'  BY Zenon DEF vars, TypeOK, KeepInv, ReturnedIsPending
<1>2. Putting' = Putting  BY Zenon DEF vars, Putting
<1>. QED  BY Zenon, <1>1, <1>2 DEF vars, KeepInv, ReturnedIsPending, Held

(* The genesis root node is put. *)
LEMMA PutGenesisKeeps == ASSUME KeepInv, PutGenesis PROVE KeepInv'
<1>1. TypeOK /\ pc = "genesis" /\ pc' = "check" /\ flushed' = {} /\ flushed = {} /\ err = "none"
  BY Zenon DEF KeepInv, ReturnedIsPending, PutGenesis
<1>2. Putting = {} /\ Putting' = {} /\ \A r \in Readers : reader[r].err = "none"
  BY Zenon, <1>1 DEF PutGenesis, KeepInv, Putting
<1>3. CASE failure # "none"
  <2>1. TypeOK'  BY Zenon, <1>1, <1>3 DEF PutGenesis, TypeOK, KeepErrors
  <2>2. err' = failure /\ failure \in {"hash", "write"} /\ failure' = failure
    BY Zenon, <1>1, <1>3 DEF PutGenesis, TypeOK
  <2>. QED  BY Zenon, <1>1, <1>2, <1>3, <2>1, <2>2 DEF PutGenesis, KeepInv, ReturnedIsPending, Held
<1>4. CASE failure = "none"
  <2>. DEFINE s == ShardOf[Genesis]
              b == batch[s] \cup {Genesis}
  <2>1. PICK e \in {"none", "write"} :
          /\ shardPut(Genesis, e)
          /\ err' = e /\ failure' = e /\ hurt' = (hurt \/ e # "none")
          /\ cancelled' = (cancelled \/ e # "none")
          /\ returned' = IF e = "none" THEN returned \cup {Genesis} ELSE returned
    BY Zenon, <1>4 DEF PutGenesis
  <2>2. s \in Shards /\ b \in SUBSET Keys /\ Genesis \in Keys \ BadKeys
    BY Zenon, <1>1, PruneKeepConstants DEF TypeOK
  <2>3. Moves(s, b)  BY Zenon, <1>1, <2>1, <2>2, PutMoves
  <2>4. TypeOK'  BY Zenon, <1>1, <2>1, <2>2, <2>3 DEF PutGenesis, Moves, TypeOK, KeepErrors
  <2>5. b \cap BadKeys = {} /\ batch[s] \subseteq b /\ Genesis \in b  BY Zenon, <2>2 DEF KeepInv
  <2>6. /\ \A j \in Keys : Held(j) => Held(j)'
        /\ \A t \in Shards : batch'[t] \cap BadKeys = {}
        /\ stored' \cap BadKeys = {}
    BY Zenon, <2>2, <2>3, <2>5, MovesKeepInv
  <2>7. Held(Genesis)'  BY Zenon, <1>1, <2>2, <2>3, <2>5, MovesKeeps
  <2>8. ~hurt  BY Zenon, <1>2, <1>4 DEF KeepInv
  <2>9. ASSUME e = "none"
        PROVE  stored' \subseteq returned' /\ \A t \in Shards : batch'[t] \subseteq returned'
    <3>1. stored \cup b \subseteq returned' /\ \A t \in Shards : batch[t] \subseteq returned'
      BY Zenon, <1>2, <2>1, <2>2, <2>8, <2>9 DEF KeepInv
    <3>. QED  BY Zenon, <2>2, <2>3, <3>1 DEF Moves
  <2>10. ReturnedIsPending'
    BY Zenon, <2>1, <2>4, <2>6, <2>7 DEF KeepInv, ReturnedIsPending, TypeOK
  <2>. QED  BY Zenon, <1>1, <1>2, <1>4, <2>1, <2>4, <2>6, <2>8, <2>9, <2>10 DEF PutGenesis, KeepInv
<1>. QED  BY Zenon, <1>3, <1>4

(* close flushes a shard, or stops at a cancelled context. *)
LEMMA CloseShardKeeps == ASSUME KeepInv, CloseShard PROVE KeepInv'
<1>1. TypeOK /\ pc = "close" /\ ~hurt /\ err = "none" /\ Genesis \in returned
  BY Zenon DEF KeepInv, ReturnedIsPending, CloseShard
<1>2. /\ Putting = {} /\ Putting' = {}
      /\ \A r \in Readers : reader[r].state = "idle" /\ reader[r].err = "none"
  BY Zenon, <1>1 DEF CloseShard, KeepInv, Putting
<1>3. CASE userCancelled
  <2>1. TypeOK'  BY Zenon, <1>1, <1>3 DEF CloseShard, TypeOK, KeepErrors
  <2>. QED  BY Zenon, <1>1, <1>2, <1>3, <2>1 DEF CloseShard, KeepInv, ReturnedIsPending, Held
<1>4. CASE ~userCancelled
  <2>1. PICK s \in Shards, e \in {"none", "write"} :
          /\ flush(s, batch[s], e)
          /\ err' = e /\ failure' = e /\ hurt' = (hurt \/ e # "none")
          /\ cancelled' = (cancelled \/ e # "none")
          /\ flushed' = flushed \cup {s}
          /\ pc' = IF e = "none" THEN "close" ELSE "done"
    BY Zenon, <1>4 DEF CloseShard, toFlush
  <2>2. Moves(s, batch[s]) /\ (e = "none" => batch'[s] = {})
    BY Zenon, <1>1, <2>1, FlushMoves DEF TypeOK
  <2>3. TypeOK'  BY Zenon, <1>1, <2>1, <2>2 DEF CloseShard, Moves, TypeOK, KeepErrors
  <2>4. /\ \A j \in Keys : Held(j) => Held(j)'
        /\ \A t \in Shards : batch'[t] \cap BadKeys = {}
        /\ stored' \cap BadKeys = {}
    <3>1. batch[s] \in SUBSET Keys /\ batch[s] \cap BadKeys = {}  BY Zenon, <1>1 DEF KeepInv, TypeOK
    <3>. QED  BY Zenon, <2>2, <3>1, MovesKeepInv
  <2>5. ReturnedIsPending'
    BY Zenon, <2>3, <2>4 DEF CloseShard, KeepInv, ReturnedIsPending, TypeOK
  <2>6. stored' \subseteq returned' /\ \A t \in Shards : batch'[t] \subseteq returned'
    <3>1. stored \subseteq returned /\ \A t \in Shards : batch[t] \subseteq returned
      BY Zenon, <1>1, <1>2 DEF KeepInv
    <3>. QED  BY Zenon, <2>2, <3>1 DEF Moves, CloseShard
  <2>7. ASSUME pc' = "close", NEW t \in flushed' PROVE batch'[t] = {}
    BY Zenon, <1>1, <2>1, <2>2, <2>7 DEF Moves, KeepInv, TypeOK
  <2>. QED  BY Zenon, <1>1, <1>2, <2>1, <2>3, <2>4, <2>5, <2>6, <2>7 DEF CloseShard, KeepInv
<1>. QED  BY Zenon, <1>3, <1>4

-----------------------------------------------------------------------------
(* The inductive invariant holds throughout. *)
THEOREM KeepInvCorrect == Spec => []KeepInv
<1>1. KeepInv /\ [Next]_vars => KeepInv'
  BY Zenon, GetKeeps, PutKeeps, LatchKeeps, WalkDoneKeeps, PutGenesisKeeps, CheckLatchKeeps,
     CloseShardKeeps, CloseDoneKeeps, UserCancelKeeps, StutterKeeps DEF Next, Done
<1>. QED  BY KeepInit, <1>1, PTL DEF Spec

(* No record that the walk was given is lost, whatever goroutines and failing
   writes meet in a shard (pruneKeepShard.put, flush). *)
THEOREM ReturnedCorrect == Spec => []ReturnedIsPending
<1>1. KeepInv => ReturnedIsPending  BY Zenon DEF KeepInv
<1>. QED  BY KeepInvCorrect, <1>1, PTL

(* collectPruneState succeeds only with exactly the records that were read and
   the genesis root node, and reports every failed put. *)
THEOREM OutcomeCorrect == Spec => []OutcomeIsTruthful
<1>1. ASSUME KeepInv PROVE KeepIsExact
  <2>. SUFFICES ASSUME pc = "done", err = "none"
                PROVE  stored = returned /\ Genesis \in stored /\ stored \cap BadKeys = {}
    BY Zenon DEF KeepIsExact
  <2>1. ~hurt /\ Genesis \in returned /\ \A s \in Shards : batch[s] = {}
    BY Zenon, <1>1 DEF KeepInv
  <2>2. Putting = {}  BY Zenon, <1>1 DEF KeepInv, Putting
  <2>3. stored \subseteq returned  BY Zenon, <1>1, <2>1, <2>2 DEF KeepInv
  <2>4. returned \subseteq stored
    BY Zenon, <1>1, <2>1, PruneKeepConstants DEF KeepInv, ReturnedIsPending, Held, TypeOK
  <2>. QED  BY Zenon, <1>1, <2>1, <2>3, <2>4 DEF KeepInv
<1>2. ASSUME KeepInv PROVE FailureIsReported
  BY Zenon, <1>2 DEF KeepInv, FailureIsReported
<1>3. KeepInv => OutcomeIsTruthful  BY Zenon, <1>1, <1>2 DEF OutcomeIsTruthful
<1>. QED  BY KeepInvCorrect, <1>3, PTL
=============================================================================
