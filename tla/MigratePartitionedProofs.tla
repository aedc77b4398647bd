---------------------- MODULE MigratePartitionedProofs ----------------------
(***************************************************************************)
(* The order and the outcome of the partitioned migration, for any         *)
(* accounts, partitions, workers and failures.  MigrateInv of module       *)
(* MigratePartitioned is the inductive invariant.  It needs neither the    *)
(* limiter's tokens nor the window's slots: those bound a run, they do not *)
(* order it.                                                               *)
(***************************************************************************)
EXTENDS MigrateMergeProofs, MigrateScanProofs

(* A slot for the first account of a burst. *)
LEMMA AdmitKeeps == ASSUME MigrateInv, NEW p \in Partitions, Admit(p) PROVE MigrateInv'
<1>1. OutcomeType /\ PartitionInv(p)  BY Zenon DEF MigrateInv
<1>2. UNCHANGED <<Accounts, at, jobErr, results, pending, merged, written, owner, runErr,
                  runCanceled, canceled, result>>
  BY Zenon DEF Admit, outputs, run
<1>3. at[p] \in Index(p) /\ pc[p] = "admit"
  BY <1>1 DEF Admit, PartitionInv, OutcomeType, Index
<1>4. /\ pc'[p] = "burst" /\ failure'[p] = "none" /\ eof'[p] = FALSE
      /\ job'[p] = [job[p] EXCEPT ![at[p]] = "start"]
  BY Zenon, <1>1 DEF Admit, Goto, OutcomeType
<1>5. OutcomeType'
  <2>1. DOMAIN job' = Partitions /\ \A q \in Partitions : job'[q] \in [Index(q) -> JobStates]
    BY Zenon, <1>1, <1>3 DEF Admit, OutcomeType, JobStates
  <2>. QED  BY Zenon, <1>1, <1>2, <2>1 DEF OutcomeType, Admit, Goto, Errors, Partitions, Index
<1>6. ASSUME NEW q \in Partitions, q # p PROVE PartitionInv(q)'
  <2>1. Same(q)  BY Zenon, <1>1, <1>2, <1>6 DEF Same, OutcomeType, Admit, Goto
  <2>. QED  BY Zenon, <1>2, <2>1, SameKeeps DEF MigrateInv
<1>7. PartitionInv(p)'
  <2>. DEFINE n == Len(merged[p])
  <2>1. n \in Nat /\ n + 1 = at[p] /\ at[p] \in Nat
    BY <1>1, <1>3 DEF PartitionInv, OutcomeType
  <2>2. \A i \in Index(p) : n < i /\ i <= at[p] => i = at[p]
    BY <2>1 DEF Index
  <2>3. \A i \in Index(p) : i = at[p] => job'[p][i] = "start"
    BY Zenon, <1>1, <1>4 DEF OutcomeType
  <2>4. \A i \in Index(p) : job'[p][i] # "none" => i <= at[p]
    BY <1>1, <1>4, <2>1 DEF PartitionInv, OutcomeType
  <2>. QED  BY Zenon, <1>1, <1>2, <1>4, <2>1, <2>2, <2>3, <2>4 DEF PartitionInv, Outstanding, Index
<1>8. CodeInv'  BY Zenon, <1>2, CodesKeep DEF MigrateInv
<1>9. ErrorInv'
  <2>1. \A q \in Partitions : /\ failure'[q] # "none" => failure[q] # "none"
                              /\ pc'[q] \in {"failed", "done"} <=> pc[q] \in {"failed", "done"}
                              /\ pc'[q] = "failed" => pc[q] = "failed"
                              /\ pc[q] = "done" => pc'[q] = "done"
    BY Zenon, <1>1, <1>3 DEF Admit, Goto, OutcomeType
  <2>2. \A q \in Partitions : \A j \in Index(q) : job'[q][j] = "failed" => job[q][j] = "failed"
    BY Zenon, <1>1, <1>3 DEF Admit, OutcomeType
  <2>. QED  BY <1>2, <2>1, <2>2 DEF MigrateInv, ErrorInv, Partitions, Index
<1>. QED  BY Zenon, <1>2, <1>5, <1>6, <1>7, <1>8, <1>9 DEF MigrateInv, Partitions

(* A burst reads ahead: the end, or one more outstanding account. *)
LEMMA ReadKeeps == ASSUME MigrateInv, NEW p \in Partitions, Read(p) PROVE MigrateInv'
<1>. DEFINE n == Len(merged[p])
<1>1. OutcomeType /\ PartitionInv(p)  BY Zenon DEF MigrateInv
<1>. PICK j \in Nat : j = at[p] + 1  BY <1>1 DEF OutcomeType
<1>2. UNCHANGED <<Accounts, failure, jobErr, pending, merged, written, runErr, runCanceled,
                  canceled, result>>
  BY Zenon DEF Read, outputs, run
<1>3. Accounts[p] \in Seq(Account) /\ at[p] \in Nat /\ merged[p] \in Seq(Index(p))
  BY Zenon, <1>1, MigrateAssumption DEF OutcomeType, Partitions
<1>4. /\ pc[p] = "read" /\ n <= at[p] /\ at[p] <= Len(Accounts[p])
      /\ n \in Nat /\ Len(Accounts[p]) \in Nat
  BY <1>1, <1>3 DEF Read, PartitionInv
<1>5. CASE at[p] = Len(Accounts[p])
  <2>1. /\ pc' = [pc EXCEPT ![p] = "merge"] /\ eof' = [eof EXCEPT ![p] = TRUE]
        /\ UNCHANGED <<at, owner, job, results>>
    BY Zenon, <1>5 DEF Read, Goto
  <2>2. OutcomeType'  BY Zenon, <1>1, <1>2, <2>1 DEF OutcomeType, Partitions, Index
  <2>3. ASSUME NEW q \in Partitions, q # p PROVE PartitionInv(q)'
    <3>1. Same(q)  BY Zenon, <1>1, <1>2, <2>1, <2>3 DEF Same, OutcomeType
    <3>. QED  BY Zenon, <1>2, <3>1, SameKeeps DEF MigrateInv
  <2>4. PartitionInv(p)'
    BY Zenon, <1>1, <1>2, <1>4, <1>5, <2>1 DEF PartitionInv, Outstanding, OutcomeType, Index
  <2>5. CodeInv'  BY Zenon, <1>2, <2>1, CodesKeep DEF MigrateInv
  <2>6. ErrorInv'
    BY <1>1, <1>2, <1>4, <2>1 DEF MigrateInv, ErrorInv, OutcomeType, Partitions, Index
  <2>. QED  BY Zenon, <1>2, <2>2, <2>3, <2>4, <2>5, <2>6 DEF MigrateInv, Partitions
<1>6. CASE at[p] # Len(Accounts[p])
  <2>1. /\ at' = [at EXCEPT ![p] = @ + 1] /\ Claim(p)
        /\ pc' = [pc EXCEPT ![p] = "burst"] /\ UNCHANGED eof
    BY Zenon, <1>6 DEF Read, Goto
  <2>2. at'[p] = j /\ \A q \in Partitions \ {p} : at'[q] = at[q]
    BY Zenon, <1>1, <2>1 DEF OutcomeType
  <2>3. j \in Index(p)  BY <1>3, <1>4, <1>6 DEF Index
  <2>4. /\ DOMAIN job' = Partitions /\ DOMAIN results' = Partitions
        /\ job'[p] \in [Index(p) -> JobStates] /\ results'[p] \subseteq Index(p)
        /\ \A q \in Partitions \ {p} : job'[q] = job[q] /\ results'[q] = results[q]
        /\ \A i \in Index(p) \ {j} : job'[p][i] = job[p][i]
        /\ results[p] \subseteq results'[p] /\ results'[p] \subseteq results[p] \cup {j}
        /\ job'[p][j] = "start" \/ (job'[p][j] = "sent" /\ j \in results'[p])
    <3>1. CASE async(p)
      <4>1. job' = [job EXCEPT ![p] = [job[p] EXCEPT ![j] = "start"]] /\ results' = results
        BY Zenon, <1>6, <3>1 DEF Read
      <4>. QED  BY Zenon, <1>1, <2>3, <4>1 DEF OutcomeType, JobStates
    <3>2. CASE ~async(p)
      <4>1. /\ job' = [job EXCEPT ![p] = [job[p] EXCEPT ![j] = "sent"]]
            /\ results' = [results EXCEPT ![p] = results[p] \cup {j}]
        BY Zenon, <1>6, <3>2 DEF Read
      <4>. QED  BY Zenon, <1>1, <2>3, <4>1 DEF OutcomeType, JobStates
    <3>. QED  BY Zenon, <3>1, <3>2
  <2>5. CodeInv' /\ DOMAIN owner' = Codes
    BY <1>2, <1>6, <2>1, ClaimKeeps, Zenon
  <2>6. OutcomeType'
    <3>1. /\ at' \in [Partitions -> Nat] /\ eof' = eof
          /\ pc' \in [Partitions -> {"open", "scan", "admit", "burst", "read", "merge",
                                     "finish", "done", "failed"}]
      BY Zenon, <1>1, <2>1 DEF OutcomeType
    <3>. QED  BY <1>1, <1>2, <2>4, <2>5, <3>1, Zenon DEF OutcomeType, Partitions, Index
  <2>7. ASSUME NEW q \in Partitions, q # p PROVE PartitionInv(q)'
    <3>1. Same(q)  BY Zenon, <1>1, <1>2, <2>1, <2>2, <2>4, <2>7 DEF Same, OutcomeType
    <3>. QED  BY Zenon, <1>2, <3>1, SameKeeps DEF MigrateInv
  <2>8. PartitionInv(p)'
    <3>1. pc'[p] = "burst"  BY Zenon, <1>1, <2>1 DEF OutcomeType
    <3>2. ASSUME NEW i \in Index(p), i # j, Outstanding(p, i) PROVE Outstanding(p, i)'
      BY Zenon, <1>2, <2>4, <3>2 DEF Outstanding
    <3>3. Outstanding(p, j)'
      BY Zenon, <2>3, <2>4 DEF Outstanding
    <3>4. \A i \in Index(p) : i <= j /\ i # j => i <= at[p]  BY <1>3 DEF Index
    <3>5. results'[p] \cup pending'[p] \subseteq 1..j
      BY <1>1, <1>2, <1>3, <2>4 DEF PartitionInv
    <3>6. \A i \in Index(p) : job'[p][i] # "none" => i <= j
      BY <1>1, <1>3, <2>4 DEF PartitionInv, Index
    <3>7. ~eof[p]  BY Zenon, <1>1, <1>6 DEF PartitionInv
    <3>8. ASSUME failure[p] = "none", NEW i \in Index(p), n < i, i <= j
          PROVE  Outstanding(p, i)'
      <4>1. CASE i # j  BY Zenon, <1>1, <1>4, <3>2, <3>4, <3>8, <4>1 DEF PartitionInv
      <4>. QED  BY Zenon, <3>3, <4>1
    <3>9. n <= j /\ j <= Len(Accounts[p])  BY <1>3, <1>4, <1>6
    <3>. QED
      BY <1>1, <1>2, <2>1, <2>2, <3>1, <3>5, <3>6, <3>7, <3>8, <3>9 DEF PartitionInv, Index
  <2>9. ErrorInv'
    <3>1. \A q \in Partitions : /\ pc'[q] = "failed" => pc[q] = "failed"
                                /\ pc[q] = "done" => pc'[q] = "done"
      BY Zenon, <1>1, <1>4, <2>1 DEF OutcomeType
    <3>2. \A q \in Partitions : \A i \in Index(q) : job'[q][i] = "failed" => job[q][i] = "failed"
      BY Zenon, <2>4
    <3>. QED  BY <1>2, <3>1, <3>2 DEF MigrateInv, ErrorInv, Partitions, Index
  <2>. QED  BY Zenon, <1>2, <2>5, <2>6, <2>7, <2>8, <2>9 DEF MigrateInv, Partitions
<1>. QED  BY Zenon, <1>5, <1>6

(* A stuttering step changes nothing. *)
LEMMA StutterKeeps == ASSUME MigrateInv, UNCHANGED vars PROVE MigrateInv'
<1>1. OutcomeType'  BY Zenon DEF MigrateInv, OutcomeType, vars, Partitions, Index
<1>2. \A q \in Partitions : PartitionInv(q)'  BY Zenon, SameKeeps DEF MigrateInv, Same, vars
<1>3. CodeInv'  BY Zenon, CodesKeep DEF MigrateInv, vars
<1>4. ErrorInv'  BY DEF MigrateInv, ErrorInv, vars, Partitions, Index
<1>. QED  BY Zenon, <1>1, <1>2, <1>3, <1>4 DEF MigrateInv, vars, Partitions

(* The invariant holds when run starts. *)
LEMMA MigrateInit == Init => MigrateInv
<1>. SUFFICES ASSUME Init PROVE MigrateInv  OBVIOUS
<1>1. \A p \in Partitions : Len(Accounts[p]) \in Nat
  BY MigrateAssumption DEF Init, Partitions
<1>2. OutcomeType
  <2>1. /\ DOMAIN job = Partitions /\ \A p \in Partitions : job[p] \in [Index(p) -> JobStates]
        /\ DOMAIN jobErr = Partitions /\ \A p \in Partitions : jobErr[p] \in [Index(p) -> Errors]
    BY Zenon DEF Init, JobStates, Errors
  <2>2. /\ DOMAIN results = Partitions /\ \A p \in Partitions : results[p] \subseteq Index(p)
        /\ DOMAIN pending = Partitions /\ \A p \in Partitions : pending[p] \subseteq Index(p)
        /\ DOMAIN merged = Partitions /\ \A p \in Partitions : merged[p] \in Seq(Index(p))
    BY DEF Init
  <2>3. /\ pc \in [Partitions -> {"open", "scan", "admit", "burst", "read", "merge", "finish",
                                  "done", "failed"}]
        /\ at \in [Partitions -> Nat] /\ eof \in [Partitions -> BOOLEAN]
        /\ failure \in [Partitions -> Errors]
    BY Zenon DEF Init, Errors
  <2>4. DOMAIN owner = Codes /\ written \in [Codes -> Nat]  BY Zenon DEF Init
  <2>. QED  BY <2>1, <2>2, <2>3, <2>4, Zenon DEF Init, OutcomeType, Errors
<1>3. \A p \in Partitions : PartitionInv(p)
  BY <1>1 DEF Init, PartitionInv, Index
<1>4. CodeInv  BY DEF Init, CodeInv
<1>5. ErrorInv  BY Zenon DEF Init, ErrorInv
<1>. QED  BY Zenon, <1>2, <1>3, <1>4, <1>5 DEF MigrateInv

(* The invariant holds throughout a run. *)
THEOREM MigrateInvCorrect == Spec => []MigrateInv
<1>1. ASSUME MigrateInv, [Next]_vars PROVE MigrateInv'
  <2>1. ASSUME NEW p \in Partitions,
               \/ Open(p) \/ Scan(p) \/ Admit(p) \/ Finish(p) \/ PartitionStops(p)
               \/ Burst(p) \/ Read(p) \/ ReadFails(p)
               \/ Receive(p) \/ Merge(p) \/ MergeFails(p) \/ MergeEnd(p)
        PROVE  MigrateInv'
    BY Zenon, <1>1, <2>1, MoveKeeps, ScanKeeps, AdmitKeeps, PartitionStopsKeeps, ReadKeeps,
       ReadFailsKeeps, ReceiveKeeps, MergeKeeps, MergeFailsKeeps, MergeEndKeeps
  <2>2. ASSUME NEW p \in Partitions, NEW i \in Index(p),
               \/ JobStart(p, i) \/ JobSplit(p, i) \/ JobJoin(p, i) \/ JobSend(p, i)
               \/ JobFails(p, i)
               \/ \E s \in Subs : SubStart(p, i, s) \/ SubFinish(p, i, s) \/ SubFails(p, i, s)
        PROVE  MigrateInv'
    BY Zenon, <1>1, <2>2, JobStepKeeps, JobFailsKeeps, SubKeeps
  <2>3. CASE Return \/ Cancel \/ UNCHANGED vars
    BY Zenon, <1>1, <2>3, ReturnKeeps, StutterKeeps
  <2>. QED  BY Zenon, <1>1, <2>1, <2>2, <2>3 DEF Next, Step, Returned
<1>. QED  BY MigrateInit, <1>1, PTL DEF Spec

(* Accounts reach a partition's stack trie and batch in hash order, whatever
   the order their jobs finish in (mergeMigrateAccounts). *)
THEOREM OrderCorrect == Spec => []MergedInOrder
<1>1. MigrateInv => MergedInOrder
  BY Zenon DEF MigrateInv, PartitionInv, MergedInOrder
<1>. QED  BY MigrateInvCorrect, <1>1, PTL

(* A successful run has merged every account and written every referenced code
   exactly once, and a run is reported as cancelled only if its caller cancelled
   it (migrateRunFailure, the shared code set). *)
THEOREM OutcomeCorrect == Spec => []OutcomeIsTruthful
<1>1. ASSUME MigrateInv PROVE SuccessIsComplete
  <2>1. ASSUME NEW c \in Codes PROVE written[c] <= 1
    BY <1>1 DEF MigrateInv, CodeInv
  <2>2. ASSUME result = "ok", NEW p \in Partitions
        PROVE  /\ Len(merged[p]) = Len(Accounts[p]) /\ at[p] = Len(Accounts[p])
    BY Zenon, <1>1, <2>2 DEF MigrateInv, ErrorInv, PartitionInv
  <2>3. ASSUME result = "ok", NEW p \in Partitions, NEW i \in Index(p),
               Accounts[p][i].code # "none"
        PROVE  written[Accounts[p][i].code] = 1
    <3>. DEFINE c == Accounts[p][i].code
    <3>1. Accounts[p][i] \in Account
      BY <1>1, MigrateAssumption DEF MigrateInv, OutcomeType, Partitions, Index
    <3>2. c \in Codes  BY Zenon, <2>3, <3>1 DEF Account
    <3>3. owner[c] # <<>>
      BY Zenon, <1>1, <2>2, <2>3 DEF MigrateInv, CodeInv, Index
    <3>4. PICK q \in Partitions :
            \E j \in 1..at[q] : written[c] = IF j <= Len(merged[q]) THEN 1 ELSE 0
      BY Zenon, <1>1, <3>2, <3>3 DEF MigrateInv, CodeInv
    <3>. PICK j \in 1..at[q] : written[c] = IF j <= Len(merged[q]) THEN 1 ELSE 0
      BY Zenon, <3>4
    <3>5. j <= Len(merged[q])  BY <2>2, <2>3
    <3>. QED  BY Zenon, <3>5
  <2>. QED  BY Zenon, <2>1, <2>2, <2>3 DEF SuccessIsComplete
<1>2. ASSUME MigrateInv PROVE ErrorIsRootCause
  BY Zenon, <1>2 DEF MigrateInv, ErrorInv, ErrorIsRootCause
<1>3. MigrateInv => OutcomeIsTruthful  BY Zenon, <1>1, <1>2 DEF OutcomeIsTruthful
<1>. QED  BY MigrateInvCorrect, <1>3, PTL

=============================================================================
