------------------------- MODULE MigrateJobsProofs --------------------------
(***************************************************************************)
(* Proofs about the partitioned migration, first part: the invariant       *)
(* MigrateInv of module MigratePartitioned holds initially, and the steps  *)
(* of the account jobs and of their storage tasks keep it.                 *)
(***************************************************************************)
EXTENDS MigratePartitioned, TLAPS

Running == {"start", "hold", "split", "joined"}

(* An error that a step may report: if it is a cancellation, the caller
   cancelled or the run knows the error behind it. *)
Blamed(e) ==
    /\ e \in {"io", "canceled"}
    /\ e = "canceled" => canceled \/ runErr # "none"

(* What the run knows after an error was recorded. *)
Known ==
    /\ runErr' \in {"io", "canceled"} /\ runCanceled' \in BOOLEAN
    /\ runErr' = "canceled" => canceled

(* recordRunFailure leaves an error the run can answer for. *)
LEMMA RunFailureKnown ==
    ASSUME MigrateInv, NEW e, Blamed(e), recordRunFailure(e)
    PROVE  Known
  BY Zenon DEF MigrateInv, OutcomeType, ErrorInv, Blamed, Known, recordRunFailure, Errors

(* So does the first failure of a burst (migratePipelineFailure.record). *)
LEMMA RecordKnown ==
    ASSUME MigrateInv, NEW p \in Partitions, NEW e, Blamed(e), record(p, e)
    PROVE  /\ Known
           /\ failure' \in [Partitions -> Errors] /\ failure'[p] # "none"
           /\ \A q \in Partitions \ {p} : failure'[q] = failure[q]
<1>1. CASE failure[p] = "none"
  <2>1. recordRunFailure(e) /\ failure' = [failure EXCEPT ![p] = e]  BY Zenon, <1>1 DEF record
  <2>2. Known  BY Zenon, <2>1, RunFailureKnown
  <2>. QED  BY Zenon, <2>1, <2>2 DEF MigrateInv, OutcomeType, Blamed, Errors
<1>2. CASE failure[p] # "none"
  BY Zenon, <1>2 DEF record, MigrateInv, OutcomeType, ErrorInv, Known, Errors
<1>. QED  BY Zenon, <1>1, <1>2

(* Every error a step can meet is one the run can answer for. *)
LEMMA ErrsBlamed ==
    ASSUME MigrateInv, NEW b, NEW p \in Partitions, NEW e
    PROVE  /\ e \in Errs(b, RunDone) => Blamed(e)
           /\ e \in Errs(b, BurstDone(p)) => Blamed(e)
  BY Zenon DEF MigrateInv, ErrorInv, Errs, RunDone, BurstDone, Blamed

(* A partition that a step leaves alone stays as it is. *)
Same(q) ==
    /\ pc'[q] = pc[q] /\ at'[q] = at[q] /\ eof'[q] = eof[q] /\ failure'[q] = failure[q]
    /\ job'[q] = job[q] /\ results'[q] = results[q] /\ pending'[q] = pending[q]
    /\ merged'[q] = merged[q]

(* Another partition's step leaves this one's progress as it was. *)
LEMMA SameKeeps ==
    ASSUME Accounts' = Accounts, NEW q \in Partitions, PartitionInv(q), Same(q)
    PROVE  PartitionInv(q)'
  BY Zenon DEF PartitionInv, Same, Outstanding, Index

(* A step that reads no account and merges none leaves the codes alone. *)
LEMMA CodesKeep ==
    ASSUME CodeInv, UNCHANGED <<Accounts, at, merged, owner, written>>
    PROVE  CodeInv'
  BY Zenon DEF CodeInv, Partitions

(* The account jobs. *)
LEMMA JobKeeps ==
    ASSUME MigrateInv, NEW p \in Partitions, NEW i \in Index(p), NEW s \in JobStates \ {"none"},
           job[p][i] \in Running, JobGoto(p, i, s),
           UNCHANGED <<Accounts, pc, at, eof, pending, merged>>,
           (results' = results /\ s \in Running) \/ Send(p, i),
           DOMAIN failure' = Partitions, failure'[p] = failure[p] \/ failure'[p] # "none",
           \A q \in Partitions \ {p} : failure'[q] = failure[q]
    PROVE  \A q \in Partitions : PartitionInv(q)'
<1>1. OutcomeType  BY Zenon DEF MigrateInv
<1>2. ASSUME NEW q \in Partitions, q # p PROVE PartitionInv(q)'
  <2>1. Same(q)  BY Zenon, <1>1, <1>2 DEF Same, JobGoto, Send, OutcomeType
  <2>. QED  BY Zenon, <2>1, SameKeeps DEF MigrateInv
<1>3. PartitionInv(p)'
  <2>1. i \in 1..at[p] /\ i \in Nat
    BY <1>1 DEF MigrateInv, PartitionInv, Index, Running, OutcomeType
  <2>2. /\ job'[p] = [job[p] EXCEPT ![i] = s]
        /\ results[p] \subseteq results'[p] /\ results'[p] \subseteq results[p] \cup {i}
        /\ s \in Running \/ i \in results'[p]
    BY <1>1 DEF JobGoto, Send, OutcomeType
  <2>3. ASSUME NEW j \in Index(p), Outstanding(p, j) PROVE Outstanding(p, j)'
    BY Zenon, <1>1, <2>2, <2>3 DEF Outstanding, OutcomeType, Running
  <2>. QED  BY <1>1, <2>1, <2>2, <2>3 DEF MigrateInv, PartitionInv, OutcomeType, Index, Running
<1>. QED  BY Zenon, <1>2, <1>3

(* A job goes on, or sends its result. *)
LEMMA JobStepKeeps ==
    ASSUME MigrateInv, NEW p \in Partitions, NEW i \in Index(p),
           JobStart(p, i) \/ JobSplit(p, i) \/ JobJoin(p, i) \/ JobSend(p, i)
    PROVE  MigrateInv'
<1>1. OutcomeType  BY Zenon DEF MigrateInv
<1>2. UNCHANGED <<Accounts, partition, burst, jobErr, run>>
  BY Zenon DEF JobStart, JobSplit, JobJoin, JobSend
<1>3. PICK s \in {"hold", "split", "joined", "sent"} :
        /\ job[p][i] \in Running /\ JobGoto(p, i, s)
        /\ (results' = results /\ s \in Running) \/ Send(p, i)
  BY Zenon DEF JobStart, JobSplit, JobJoin, JobSend, Running
<1>4. \A q \in Partitions : PartitionInv(q)'
  BY Zenon, <1>1, <1>2, <1>3, JobKeeps DEF OutcomeType, JobStates, partition, burst, outputs
<1>5. OutcomeType'
  <2>1. DOMAIN job' = Partitions /\ \A q \in Partitions : job'[q] \in [Index(q) -> JobStates]
    BY Zenon, <1>1, <1>3 DEF OutcomeType, JobGoto, JobStates
  <2>2. DOMAIN results' = Partitions /\ \A q \in Partitions : results'[q] \subseteq Index(q)
    <3>1. CASE results' = results  BY Zenon, <1>1, <3>1 DEF OutcomeType
    <3>2. CASE Send(p, i)  BY Zenon, <1>1, <3>2 DEF OutcomeType, Send
    <3>. QED  BY Zenon, <1>3, <3>1, <3>2
  <2>. QED  BY Zenon, <1>1, <1>2, <2>1, <2>2
            DEF OutcomeType, partition, burst, outputs, run, Partitions, Index
<1>6. CodeInv'  BY Zenon, <1>2, CodesKeep DEF MigrateInv, partition, outputs
<1>7. ErrorInv'
  BY <1>1, <1>2, <1>3 DEF MigrateInv, ErrorInv, OutcomeType, JobGoto, partition, burst, run,
     Partitions, Index
<1>. QED  BY Zenon, <1>2, <1>4, <1>5, <1>6, <1>7 DEF MigrateInv, Partitions

(* A job fails: its error is recorded before its result is sent. *)
LEMMA JobFailsKeeps ==
    ASSUME MigrateInv, NEW p \in Partitions, NEW i \in Index(p), JobFails(p, i)
    PROVE  MigrateInv'
<1>1. OutcomeType  BY Zenon DEF MigrateInv
<1>2. UNCHANGED <<Accounts, pc, at, eof, pending, merged, owner, written, canceled, result>>
  BY Zenon DEF JobFails, partition, outputs
<1>3. PICK e \in jobErrs(p, i) : record(p, e) /\ jobErr' = [jobErr EXCEPT ![p][i] = e]
  BY Zenon DEF JobFails
<1>4. Blamed(e)
  <2>1. CASE job[p][i] = "split" /\ jobErr[p][i] # "none"
    BY <1>1, <2>1 DEF jobErrs, MigrateInv, OutcomeType, ErrorInv, Blamed, Errors
  <2>2. CASE ~(job[p][i] = "split" /\ jobErr[p][i] # "none")
    BY Zenon, <2>2 DEF jobErrs, Errs, BurstDone, RunDone, MigrateInv, ErrorInv, Blamed
  <2>. QED  BY Zenon, <2>1, <2>2
<1>5. /\ Known
      /\ failure' \in [Partitions -> Errors] /\ failure'[p] # "none"
      /\ \A q \in Partitions \ {p} : failure'[q] = failure[q]
  BY Zenon, <1>3, <1>4, RecordKnown
<1>6. job[p][i] \in Running /\ JobGoto(p, i, "failed") /\ Send(p, i)
  BY Zenon DEF JobFails, Running
<1>7. \A q \in Partitions : PartitionInv(q)'
  BY Zenon, <1>2, <1>5, <1>6, JobKeeps DEF JobStates
<1>8. DOMAIN jobErr' = Partitions /\ \A q \in Partitions : jobErr'[q] \in [Index(q) -> Errors]
  BY Zenon, <1>1, <1>3, <1>4 DEF OutcomeType, Blamed, Errors
<1>9. DOMAIN job' = Partitions /\ \A q \in Partitions : job'[q] \in [Index(q) -> JobStates]
  BY Zenon, <1>1, <1>6 DEF OutcomeType, JobGoto, JobStates
<1>10. OutcomeType'
  <2>1. DOMAIN results' = Partitions /\ \A q \in Partitions : results'[q] \subseteq Index(q)
    BY Zenon, <1>1, <1>6 DEF OutcomeType, Send
  <2>. QED  BY Zenon, <1>1, <1>2, <1>5, <1>8, <1>9, <2>1 DEF OutcomeType, Known, Errors, Partitions, Index
<1>11. CodeInv'  BY Zenon, <1>2, CodesKeep DEF MigrateInv
<1>12. ErrorInv'
  <2>1. ASSUME NEW q \in Partitions, NEW j \in Index(q)
        PROVE  job'[q][j] = "failed" => jobErr'[q][j] # "none"
    BY <1>1, <1>3, <1>4, <1>6 DEF MigrateInv, ErrorInv, OutcomeType, JobGoto, Blamed
  <2>. QED  BY Zenon, <1>1, <1>2, <1>5, <2>1 DEF MigrateInv, ErrorInv, Known, Partitions, Index
<1>. QED  BY Zenon, <1>2, <1>7, <1>10, <1>11, <1>12 DEF MigrateInv, Partitions

(* A storage task works, finishes or fails. *)
LEMMA SubKeeps ==
    ASSUME MigrateInv, NEW p \in Partitions, NEW i \in Index(p), NEW s \in Subs,
           SubStart(p, i, s) \/ SubFinish(p, i, s) \/ SubFails(p, i, s)
    PROVE  MigrateInv'
<1>1. OutcomeType  BY Zenon DEF MigrateInv
<1>2. UNCHANGED <<Accounts, pc, at, eof, failure, job, results, pending, merged, owner, written,
                  runErr, runCanceled, canceled, result>>
  BY Zenon DEF SubStart, SubFinish, SubFails, partition, burst, outputs, run
<1>3. /\ DOMAIN jobErr' = Partitions
      /\ \A q \in Partitions : jobErr'[q] \in [Index(q) -> Errors]
      /\ \A q \in Partitions : \A j \in Index(q) :
            \/ jobErr'[q][j] = jobErr[q][j]
            \/ jobErr[q][j] = "none" /\ Blamed(jobErr'[q][j])
  <2>1. CASE SubStart(p, i, s) \/ SubFinish(p, i, s)
    BY Zenon, <1>1, <2>1 DEF SubStart, SubFinish, OutcomeType
  <2>2. CASE SubFails(p, i, s)
    <3>1. PICK e \in Errs(sub[p][i][s] = "hold", SubDone(p, i)) :
            jobErr' = [jobErr EXCEPT ![p][i] = IF @ = "none" THEN e ELSE @]
      BY <2>2, Zenon DEF SubFails
    <3>2. CASE jobErr[p][i] = "none"
      <4>1. Blamed(e)
        BY Zenon, <3>1, <3>2 DEF SubDone, BurstDone, RunDone, Errs, MigrateInv, ErrorInv, Blamed
      <4>2. jobErr' = [jobErr EXCEPT ![p] = [jobErr[p] EXCEPT ![i] = e]]
        BY Zenon, <3>1, <3>2
      <4>. QED  BY Zenon, <1>1, <3>2, <4>1, <4>2 DEF OutcomeType, Blamed, Errors
    <3>3. CASE jobErr[p][i] # "none"
      <4>1. jobErr' = [jobErr EXCEPT ![p] = [jobErr[p] EXCEPT ![i] = jobErr[p][i]]]
        BY Zenon, <3>1, <3>3
      <4>. QED  BY Zenon, <1>1, <4>1 DEF OutcomeType
    <3>. QED  BY Zenon, <3>2, <3>3
  <2>. QED  BY Zenon, <2>1, <2>2
<1>4. OutcomeType'  BY Zenon, <1>1, <1>2, <1>3 DEF OutcomeType, Partitions, Index
<1>5. \A q \in Partitions : PartitionInv(q)'  BY Zenon, <1>2, SameKeeps DEF MigrateInv, Same
<1>6. CodeInv'  BY Zenon, <1>2, CodesKeep DEF MigrateInv
<1>7. ErrorInv'
  <2>1. ASSUME NEW q \in Partitions, NEW j \in Index(q)
        PROVE  /\ jobErr'[q][j] = "canceled" => canceled \/ runErr # "none"
               /\ job[q][j] = "failed" => jobErr'[q][j] # "none"
    BY <1>3 DEF MigrateInv, ErrorInv, Blamed
  <2>. QED  BY <1>2, <2>1 DEF MigrateInv, ErrorInv, Partitions, Index
<1>. QED  BY Zenon, <1>2, <1>4, <1>5, <1>6, <1>7 DEF MigrateInv, Partitions

(* The steps of a partition's goroutine that leave its jobs alone and only move
   it on. *)
LEMMA GotoKeeps ==
    ASSUME MigrateInv, NEW p \in Partitions, NEW s, Goto(p, s),
           s \in {"open", "scan", "admit", "burst", "read", "merge", "finish", "done"},
           UNCHANGED <<Accounts, at, burst, work, pending, outputs, owner, run>>,
           PartitionInv(p)', pc[p] # "done"
    PROVE  MigrateInv'
<1>1. OutcomeType  BY Zenon DEF MigrateInv
<1>2. OutcomeType'
  BY Zenon, <1>1 DEF OutcomeType, Goto, burst, work, outputs, run, Partitions, Index
<1>3. ASSUME NEW q \in Partitions, q # p PROVE PartitionInv(q)'
  <2>1. Same(q)  BY Zenon, <1>1, <1>3 DEF Same, OutcomeType, Goto, burst, work, outputs
  <2>. QED  BY Zenon, <2>1, SameKeeps DEF MigrateInv
<1>4. CodeInv'  BY Zenon, CodesKeep DEF MigrateInv, outputs
<1>5. ErrorInv'
  BY <1>1 DEF MigrateInv, ErrorInv, OutcomeType, Goto, burst, work, run, Partitions, Index
<1>. QED  BY Zenon, <1>2, <1>3, <1>4, <1>5 DEF MigrateInv, Partitions

=============================================================================
