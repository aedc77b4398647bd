------------------------- MODULE MigrateMergeProofs -------------------------
(***************************************************************************)
(* Proofs about the partitioned migration, second part: moving a partition *)
(* on, failing it, receiving a burst's results, and returning from run keep *)
(* MigrateInv.                                                             *)
(***************************************************************************)
EXTENDS MigrateJobsProofs

(* The steps that only move a goroutine on: opening, finishing, and choosing
   between reading ahead and merging. *)
LEMMA MoveKeeps ==
    ASSUME MigrateInv, NEW p \in Partitions, Open(p) \/ Finish(p) \/ Burst(p)
    PROVE  MigrateInv'
<1>1. OutcomeType /\ PartitionInv(p)  BY Zenon DEF MigrateInv
<1>2. UNCHANGED <<Accounts, at, burst, work, pending, outputs, owner, run>>
  BY Zenon DEF Open, Finish, Burst
<1>3. PICK s \in {"scan", "done", "read", "merge"} :
        Goto(p, s) /\ <<pc[p], s>> \in {<<"open", "scan">>, <<"finish", "done">>,
                                        <<"burst", "read">>, <<"burst", "merge">>}
  BY Zenon DEF Open, Finish, Burst
<1>4. pc'[p] = s  BY Zenon, <1>1, <1>3 DEF Goto, OutcomeType
<1>5. PartitionInv(p)'
  BY Zenon, <1>1, <1>2, <1>3, <1>4 DEF PartitionInv, Outstanding, burst, work, outputs, Index
<1>. QED  BY Zenon, <1>2, <1>3, <1>5, GotoKeeps

(* The partition's goroutine returns an error. *)
LEMMA PartitionFailsKeeps ==
    ASSUME MigrateInv, NEW p \in Partitions, NEW e, Blamed(e), PartitionFails(p, e),
           pc[p] # "done",
           UNCHANGED <<Accounts, at, burst, work, pending, outputs, owner, canceled, result>>
    PROVE  MigrateInv'
<1>1. OutcomeType /\ PartitionInv(p)  BY Zenon DEF MigrateInv
<1>2. Known  BY Zenon, RunFailureKnown DEF PartitionFails
<1>3. pc' = [pc EXCEPT ![p] = "failed"]  BY Zenon DEF PartitionFails, Goto
<1>4. OutcomeType'
  BY Zenon, <1>1, <1>2, <1>3 DEF OutcomeType, Known, Errors, burst, work, outputs, Partitions, Index
<1>5. ASSUME NEW q \in Partitions, q # p PROVE PartitionInv(q)'
  <2>1. Same(q)  BY Zenon, <1>1, <1>3, <1>5 DEF Same, OutcomeType, burst, work, outputs
  <2>. QED  BY Zenon, <2>1, SameKeeps DEF MigrateInv
<1>6. PartitionInv(p)'
  BY Zenon, <1>1, <1>3 DEF PartitionInv, OutcomeType, burst, work, outputs, Index
<1>7. CodeInv'  BY Zenon, CodesKeep DEF MigrateInv, outputs
<1>8. ErrorInv'
  BY <1>1, <1>2, <1>3 DEF MigrateInv, ErrorInv, Known, OutcomeType, burst, work, Partitions, Index
<1>. QED  BY Zenon, <1>4, <1>5, <1>6, <1>7, <1>8 DEF MigrateInv, Partitions

(* A partition outside a burst fails or is cancelled. *)
LEMMA PartitionStopsKeeps ==
    ASSUME MigrateInv, NEW p \in Partitions, PartitionStops(p)
    PROVE  MigrateInv'
<1>1. PICK e \in Errs(pc[p] # "admit" /\ (held[p] \/ Free), RunDone) : PartitionFails(p, e)
  BY Zenon DEF PartitionStops
<1>2. Blamed(e)  BY Zenon, <1>1 DEF Errs, RunDone, MigrateInv, ErrorInv, Blamed
<1>3. /\ pc[p] # "done"
      /\ UNCHANGED <<Accounts, at, burst, work, pending, outputs, owner, canceled, result>>
  BY Zenon DEF PartitionStops
<1>. QED  BY Zenon, <1>1, <1>2, <1>3, PartitionFailsKeeps

(* The burst is over: nothing is outstanding, or the partition fails. *)
LEMMA MergeEndKeeps == ASSUME MigrateInv, NEW p \in Partitions, MergeEnd(p) PROVE MigrateInv'
<1>1. OutcomeType /\ PartitionInv(p)  BY Zenon DEF MigrateInv
<1>2. CASE failure[p] # "none" \/ pending[p] # {} \/ RunDone
  <2>. DEFINE e == IF failure[p] # "none" THEN failure[p]
                   ELSE IF pending[p] # {} THEN "io" ELSE "canceled"
  <2>1. Blamed(e)
    BY Zenon, <1>1, <1>2 DEF MigrateInv, ErrorInv, OutcomeType, Errors, RunDone, Blamed
  <2>2. PartitionFails(p, e)  BY Zenon, <1>2 DEF MergeEnd
  <2>3. /\ pc[p] # "done"
        /\ UNCHANGED <<Accounts, at, burst, work, pending, outputs, owner, canceled, result>>
    BY Zenon DEF MergeEnd
  <2>. QED  BY Zenon, <2>1, <2>2, <2>3, PartitionFailsKeeps
<1>3. CASE failure[p] = "none" /\ pending[p] = {} /\ ~RunDone
  <2>. DEFINE s == IF eof[p] THEN "finish" ELSE "scan"
  <2>1. /\ Goto(p, s) /\ pc[p] = "merge" /\ results[p] = {}
        /\ \A i \in Index(p) : job[p][i] \in {"none", "sent", "failed"}
        /\ UNCHANGED <<Accounts, at, burst, work, pending, outputs, owner, run>>
    BY Zenon, <1>3 DEF MergeEnd, run
  <2>2. \A i \in Index(p) : ~Outstanding(p, i)
    BY Zenon, <1>3, <2>1 DEF Outstanding
  <2>3. Len(merged[p]) \in Nat /\ at[p] \in Nat /\ Len(Accounts[p]) \in Nat
    BY <1>1, MigrateAssumption DEF OutcomeType, Partitions
  <2>4. Len(merged[p]) = at[p]
    BY <1>1, <1>3, <2>1, <2>2, <2>3 DEF PartitionInv, Index
  <2>5. PartitionInv(p)'
    BY Zenon, <1>1, <2>1, <2>4 DEF PartitionInv, OutcomeType, Goto, burst, work, outputs, Index
  <2>. QED  BY Zenon, <2>1, <2>5, GotoKeeps
<1>. QED  BY Zenon, <1>2, <1>3

(* The burst records an error of its own. *)
LEMMA BurstFailsKeeps ==
    ASSUME MigrateInv, NEW p \in Partitions, NEW e, Blamed(e), record(p, e),
           pc[p] \in {"read", "merge"}, pc' = [pc EXCEPT ![p] = "merge"],
           pending' = pending \/ pending' = [pending EXCEPT ![p] = {}],
           UNCHANGED <<Accounts, at, eof, work, outputs, owner, canceled, result>>
    PROVE  MigrateInv'
<1>1. OutcomeType /\ PartitionInv(p)  BY Zenon DEF MigrateInv
<1>2. /\ Known
      /\ failure' \in [Partitions -> Errors] /\ failure'[p] # "none"
      /\ \A q \in Partitions \ {p} : failure'[q] = failure[q]
  BY Zenon, RecordKnown
<1>3. /\ DOMAIN pending' = Partitions /\ pending'[p] \subseteq pending[p]
      /\ \A q \in Partitions \ {p} : pending'[q] = pending[q]
  BY Zenon, <1>1 DEF OutcomeType
<1>4. OutcomeType'
  BY Zenon, <1>1, <1>2, <1>3 DEF OutcomeType, Known, Errors, work, outputs, Partitions, Index
<1>5. ASSUME NEW q \in Partitions, q # p PROVE PartitionInv(q)'
  <2>1. Same(q)  BY Zenon, <1>1, <1>2, <1>3, <1>5 DEF Same, OutcomeType, work, outputs
  <2>. QED  BY Zenon, <2>1, SameKeeps DEF MigrateInv
<1>6. PartitionInv(p)'
  BY Zenon, <1>1, <1>2, <1>3 DEF PartitionInv, OutcomeType, work, outputs, Index
<1>7. CodeInv'  BY Zenon, CodesKeep DEF MigrateInv, outputs
<1>8. ErrorInv'
  BY <1>1, <1>2 DEF MigrateInv, ErrorInv, Known, OutcomeType, work, Partitions, Index
<1>. QED  BY Zenon, <1>4, <1>5, <1>6, <1>7, <1>8 DEF MigrateInv, Partitions

(* Reading ahead fails. *)
LEMMA ReadFailsKeeps == ASSUME MigrateInv, NEW p \in Partitions, ReadFails(p) PROVE MigrateInv'
<1>1. PICK e \in Errs(Free, BurstDone(p)) : record(p, e)  BY Zenon DEF ReadFails
<1>2. Blamed(e)  BY Zenon, <1>1 DEF Errs, BurstDone, RunDone, MigrateInv, ErrorInv, Blamed
<1>3. /\ pc[p] = "read" /\ pc' = [pc EXCEPT ![p] = "merge"]
      /\ UNCHANGED <<Accounts, at, eof, work, pending, outputs, owner, canceled, result>>
  BY Zenon DEF ReadFails, Goto
<1>. QED  BY <1>1, <1>2, <1>3, BurstFailsKeeps, Zenon

(* A merge fails, or meets the result of a failed job. *)
LEMMA MergeFailsKeeps == ASSUME MigrateInv, NEW p \in Partitions, MergeFails(p) PROVE MigrateInv'
<1>1. OutcomeType  BY Zenon DEF MigrateInv
<1>2. PICK i \in Ready(p) :
      \E e \in IF job[p][i] = "failed" THEN {jobErr[p][i]} ELSE Errs(Free, BurstDone(p)) :
          record(p, e)
  BY Zenon DEF MergeFails
<1>3. PICK e \in IF job[p][i] = "failed" THEN {jobErr[p][i]} ELSE Errs(Free, BurstDone(p)) :
          record(p, e)
  BY Zenon, <1>2
<1>4. i \in Index(p)  BY Zenon, <1>1 DEF Ready, OutcomeType
<1>5. Blamed(e)
  <2>1. CASE job[p][i] = "failed"
    BY <1>1, <1>3, <1>4, <2>1 DEF MigrateInv, ErrorInv, OutcomeType, Errors, Blamed
  <2>2. CASE job[p][i] # "failed"
    BY Zenon, <1>3, <2>2 DEF Errs, BurstDone, RunDone, MigrateInv, ErrorInv, Blamed
  <2>. QED  BY Zenon, <2>1, <2>2
<1>6. /\ pc[p] = "merge" /\ pc' = [pc EXCEPT ![p] = "merge"]
      /\ pending' = [pending EXCEPT ![p] = {}]
      /\ UNCHANGED <<Accounts, at, eof, work, outputs, owner, canceled, result>>
  BY Zenon, <1>1 DEF MergeFails, merging, work, OutcomeType
<1>. QED  BY <1>3, <1>5, <1>6, BurstFailsKeeps, Zenon

(* A result is received, or drained after a failure. *)
LEMMA ReceiveKeeps == ASSUME MigrateInv, NEW p \in Partitions, Receive(p) PROVE MigrateInv'
<1>1. OutcomeType /\ PartitionInv(p)  BY Zenon DEF MigrateInv
<1>2. UNCHANGED <<Accounts, pc, at, eof, failure, job, jobErr, merged, written, owner, runErr,
                  runCanceled, canceled, result>>
  BY Zenon DEF Receive, merging, outputs
<1>3. PICK i \in results[p] :
        /\ results' = [results EXCEPT ![p] = @ \ {i}]
        /\ IF failure[p] # "none" THEN pending' = [pending EXCEPT ![p] = {}]
           ELSE pending' = [pending EXCEPT ![p] = @ \cup {i}]
  BY Zenon DEF Receive
<1>4. i \in Index(p) /\ i \in 1..at[p]  BY Zenon, <1>1, <1>3 DEF OutcomeType, PartitionInv
<1>5. /\ DOMAIN pending' = Partitions /\ DOMAIN results' = Partitions
      /\ \A q \in Partitions \ {p} : pending'[q] = pending[q] /\ results'[q] = results[q]
      /\ results'[p] \subseteq results[p] /\ pending'[p] \subseteq pending[p] \cup {i}
      /\ failure[p] = "none" =>
            results'[p] \cup pending'[p] = results[p] \cup pending[p]
  BY <1>1, <1>3 DEF OutcomeType
<1>6. OutcomeType'
  BY <1>1, <1>2, <1>4, <1>5, Zenon DEF OutcomeType, Partitions, Index
<1>7. ASSUME NEW q \in Partitions, q # p PROVE PartitionInv(q)'
  <2>1. Same(q)  BY Zenon, <1>2, <1>5, <1>7 DEF Same
  <2>. QED  BY Zenon, <1>2, <2>1, SameKeeps DEF MigrateInv
<1>8. PartitionInv(p)'
  BY Zenon, <1>1, <1>2, <1>4, <1>5 DEF PartitionInv, Outstanding, Index
<1>9. CodeInv'  BY Zenon, <1>2, CodesKeep DEF MigrateInv
<1>10. ErrorInv'  BY <1>2 DEF MigrateInv, ErrorInv, Partitions, Index
<1>. QED  BY Zenon, <1>2, <1>6, <1>7, <1>8, <1>9, <1>10 DEF MigrateInv, Partitions

(* run returns, or the caller cancels. *)
LEMMA ReturnKeeps == ASSUME MigrateInv, Return \/ Cancel PROVE MigrateInv'
<1>1. OutcomeType  BY Zenon DEF MigrateInv
<1>2. UNCHANGED <<Accounts, pc, at, eof, failure, job, jobErr, results, pending, merged, owner,
                  written, runErr, runCanceled>>
  BY Zenon DEF Return, Cancel, burst, work, outputs
<1>3. /\ result' \in Errors \cup {"ok"} /\ canceled' \in BOOLEAN
      /\ canceled => canceled'
      /\ result' = "canceled" => canceled'
      /\ result' = "ok" => \A p \in Partitions : pc[p] = "done"
  <2>1. CASE Return
    <3>1. /\ canceled' = canceled /\ \A p \in Partitions : pc[p] \in {"done", "failed"}
          /\ result' \in IF runErr # "none" THEN {runErr}
                         ELSE IF canceled THEN {"canceled"} ELSE {"ok", "io"}
      BY Zenon, <2>1 DEF Return
    <3>. QED  BY Zenon, <1>1, <3>1 DEF OutcomeType, MigrateInv, ErrorInv, Errors
  <2>2. CASE Cancel
    BY Zenon, <1>1, <2>2 DEF Cancel, OutcomeType, MigrateInv, ErrorInv
  <2>. QED  BY Zenon, <2>1, <2>2
<1>4. OutcomeType'  BY Zenon, <1>1, <1>2, <1>3 DEF OutcomeType, Partitions, Index
<1>5. \A q \in Partitions : PartitionInv(q)'  BY Zenon, <1>2, SameKeeps DEF MigrateInv, Same
<1>6. CodeInv'  BY Zenon, <1>2, CodesKeep DEF MigrateInv
<1>7. ErrorInv'  BY <1>2, <1>3 DEF MigrateInv, ErrorInv, Partitions, Index
<1>. QED  BY Zenon, <1>2, <1>4, <1>5, <1>6, <1>7 DEF MigrateInv, Partitions

=============================================================================
