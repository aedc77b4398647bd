---------------------------- MODULE PruneProofs ----------------------------
(***************************************************************************)
(* Proofs about the prune command, for every set of keys, every batch size *)
(* and any number of faults and blocks.  StageInv of module Prune is the   *)
(* inductive invariant; the lemmas show that each action preserves it.     *)
(***************************************************************************)
EXTENDS Prune, TLAPS

(* The roles of the scan, as sets (pruneMergeCursor.role and
   classifyPruneRecord). *)
LEMMA RoleSets ==
    ASSUME TypeOK
    PROVE  /\ WithRole("RetainState") = db \cap keep
           /\ WithRole("Delete") = (db \cap Addressed) \ keep
           /\ WithRole("Unknown") = (db \cap Hash32) \ (Addressed \cup keep)
  <1>1. \A k \in db : (role(k) = "RetainState") <=> k \in keep
    BY Zenon DEF role
  <1>2. \A k \in db : (role(k) = "Delete") <=> k \in Addressed \ keep
    BY Zenon DEF role
  <1>3. \A k \in db : (role(k) = "Unknown") <=> k \in Hash32 \ (Addressed \cup keep)
    BY Zenon DEF role
  <1> QED
    BY Zenon, <1>1, <1>2, <1>3 DEF WithRole

(* What Init, Open and the stages leave in the variables has the right type. *)
THEOREM TypeCorrect == Spec => []TypeOK
  <1> USE PruneConstants
  <1>1. Init => TypeOK
    <2> SUFFICES ASSUME Init PROVE TypeOK
      OBVIOUS
    <2>1. /\ shape \in [Keys -> Shapes] /\ genesis \in Keys \cup {NoKey}
          /\ db \subseteq Keys /\ reach \subseteq Keys
      BY Zenon DEF Init, Hash32
    <2>2. before \in Inventory /\ opts \in Options
      BY Zenon DEF Init, Inventory, NoInventory, Options
    <2>3. faults \in 0..MaxFaults /\ blocks \in 0..MaxBlocks
      BY DEF Init
    <2> QED
      BY Zenon, <2>1, <2>2, <2>3 DEF Init, TypeOK, Stages, Errors
  <1>2. TypeOK /\ [Next]_vars => TypeOK'
    <2> SUFFICES ASSUME TypeOK, [Next]_vars PROVE TypeOK'
      OBVIOUS
    <2>1. ASSUME NEW options \in Options, Open(options) PROVE TypeOK'
      BY Zenon, <2>1 DEF Open, TypeOK, Stages, Errors, Inventory, NoInventory
    <2>2. CASE Collect
      <3>1. head \cup GenesisNode \subseteq Keys
        BY Zenon DEF TypeOK, GenesisNode
      <3> QED BY <2>2, <3>1 DEF Collect, collected, stateErrors, Fail, Cleanup,
                 TypeOK, Stages, Errors, history
    <2>3. CASE VerifyKeep
      BY <2>3 DEF VerifyKeep, Check, stateErrors, Fail, Cleanup, Proceed,
         TypeOK, Stages, Errors, history
    <2>4. CASE Preflight
      <3>1. scanPruneDB \in Inventory
        BY Zenon, RoleSets DEF scanPruneDB, Inventory, TypeOK
      <3> QED BY <2>4, <3>1 DEF Preflight, Check, Then, walkErrors, confirmPruneHead,
                 Succeed, Fail, Cleanup, Proceed, TypeOK, Stages, Errors, history
    <2>5. CASE Reopen
      <3>1. WithRole("Delete") \subseteq Keys
        BY Zenon DEF WithRole, TypeOK
      <3> QED BY Zenon, <2>5, <3>1 DEF Reopen, Proceed, TypeOK, Stages, history
    <2>6. CASE FlushBatch
      BY Zenon, <2>6 DEF FlushBatch, Batches, TypeOK
    <2>7. CASE FlushFails
      BY <2>7 DEF FlushFails, ManifestMayTear, Batches, Fail, Cleanup, TypeOK, Stages, Errors
    <2>8. CASE DeleteDone
      BY <2>8 DEF DeleteDone, Check, walkErrors, Fail, Cleanup, Proceed, TypeOK, Stages,
         Errors, history
    <2>9. CASE Verify
      <3>1. verifyPruneDatabase \subseteq Errors
        BY Zenon DEF verifyPruneDatabase, Then, confirmPruneHead, stateErrors,
           readPruneGenesis, walkErrors, comparePruneInventory, Errors
      <3>2. err' \in Errors /\ verified' \in BOOLEAN /\ stage' \in Stages
            /\ lock' \in {"free", "node", "prune"} /\ keep' \subseteq Keys
        BY Zenon, <2>9, <3>1 DEF Verify, Check, Succeed, Fail, Cleanup, Proceed, TypeOK,
           Stages, Errors
      <3> QED BY Zenon, <2>9, <3>2 DEF Verify, TypeOK, history
    <2>10. CASE Compact
      BY Zenon, <2>10 DEF Compact, Proceed, TypeOK, Stages, history
    <2>11. CASE Interrupt
      BY <2>11 DEF Interrupt, ManifestMayTear, Fail, Cleanup, TypeOK, Stages, Errors
    <2>12. CASE Kill
      BY <2>12 DEF Kill, ManifestMayTear, Killed, TypeOK, Stages, Errors
    <2>13. CASE NodeStart
      BY Zenon, <2>13 DEF NodeStart, TypeOK, run, history
    <2>14. CASE NodeBlock
      BY <2>14 DEF NodeBlock, TypeOK, Addressed, run
    <2>15. CASE NodeStop
      BY Zenon, <2>15 DEF NodeStop, TypeOK, run, history
    <2>16. CASE UNCHANGED vars
      BY Zenon, <2>16 DEF TypeOK, vars
    <2> QED
      BY Zenon, <2>1, <2>2, <2>3, <2>4, <2>5, <2>6, <2>7, <2>8, <2>9, <2>10, <2>11,
         <2>12, <2>13, <2>14, <2>15, <2>16 DEF Next, Invocation
  <1> QED
    BY <1>1, <1>2, PTL DEF Spec

-----------------------------------------------------------------------------
(* A scan after preflight finds no fault: the keep database is in the source
   and there is no foreign record (walkPruneDifference). *)
LEMMA WalkPasses ==
    ASSUME TypeOK, StageInv, Preflighted
    PROVE  walkErrors = {}
  <1>1. keep \subseteq db /\ Foreign \cap db = {}
    BY Zenon DEF StageInv, Preflighted, Collected, Stages, TypeOK
  <1> QED
    BY Zenon, <1>1 DEF walkErrors

(* So the deletion walk ends only when all candidates are in written batches
   (deletePruneDifference). *)
LEMMA DeletionIsDone ==
    ASSUME TypeOK, StageInv, DeleteDone
    PROVE  /\ stage = "delete" /\ todo = {} /\ Proceed("verify")
           /\ UNCHANGED <<shape, genesis, db, reach, manifest, opts, head, before, todo,
                          deleted, started, opened, removed, faults, blocks>>
  <1>1. walkErrors = {}
    BY Zenon, WalkPasses DEF DeleteDone, Preflighted, Collected, Stages
  <1> QED
    BY Zenon, <1>1 DEF DeleteDone, Check, history

(* The inventory of a scan, in terms of what the invocation found on opening
   (scanPruneDB). *)
LEMMA ScanBeforeDeleting ==
    ASSUME TypeOK, StageInv, stage = "preflight"
    PROVE  scanPruneDB = [Keep |-> keep,
                          Protected |-> opened \ (Addressed \ keep),
                          Candidates |-> (opened \cap Addressed) \ keep,
                          Unknown |-> (opened \cap Hash32) \ Addressed]
  <1>1. db = opened /\ keep \subseteq db \cap Addressed
    BY Zenon DEF StageInv, Untouched, Collected, Stages
  <1>2. WithRole("RetainState") = keep
    BY Zenon, <1>1, RoleSets
  <1>3. WithRole("Delete") = (opened \cap Addressed) \ keep
    BY Zenon, <1>1, RoleSets
  <1>4. WithRole("Unknown") = (opened \cap Hash32) \ Addressed
    BY Zenon, <1>1, RoleSets
  <1>5. db \ WithRole("Delete") = opened \ (Addressed \ keep)
    BY Zenon, <1>1, <1>3
  <1> QED
    BY Zenon, <1>2, <1>3, <1>4, <1>5 DEF scanPruneDB

(* After deletion the verification finds nothing to complain about: deleting
   exactly the preflight candidates leaves the keep set, the protected and the
   unknown records as preflight found them (verifyPruneDatabase). *)
LEMMA VerifyPasses ==
    ASSUME TypeOK, StageInv, Deleted
    PROVE  verifyPruneDatabase = {}
  <1> USE DEF Deleted, Preflighted, Collected, Stages
  <1>1. /\ head = reach /\ db = opened \ removed /\ removed \subseteq opened
        /\ GenesisNode \subseteq db \cap Addressed
        /\ keep = head \cup GenesisNode /\ keep \subseteq db \cap Addressed
        /\ removed = before.Candidates
        /\ before = [Keep |-> keep,
                     Protected |-> opened \ (Addressed \ keep),
                     Candidates |-> (opened \cap Addressed) \ keep,
                     Unknown |-> (opened \cap Hash32) \ Addressed]
    BY Zenon DEF StageInv
  <1>2. confirmPruneHead = {} /\ readPruneGenesis = {} /\ stateErrors(db) = {}
    BY Zenon, <1>1 DEF confirmPruneHead, readPruneGenesis, stateErrors
  <1>3. walkErrors = {}
    BY Zenon, WalkPasses
  <1>4. db = opened \ (Addressed \ keep)
    BY Zenon, <1>1
  <1>5. /\ WithRole("RetainState") = keep /\ WithRole("Delete") = {}
        /\ WithRole("Unknown") = (opened \cap Hash32) \ Addressed
    BY <1>1, <1>4, RoleSets
  <1>6. db \ WithRole("Delete") = opened \ (Addressed \ keep)
    BY Zenon, <1>4, <1>5
  <1>7. comparePruneInventory(scanPruneDB) = {}
    BY Zenon, <1>1, <1>5, <1>6 DEF comparePruneInventory, scanPruneDB
  <1> QED
    BY Zenon, <1>2, <1>3, <1>7 DEF verifyPruneDatabase, Then

(* Every stage finds what it relies on. *)
THEOREM StageCorrect == Spec => []StageInv
  <1> USE PruneConstants
  <1>1. Init => StageInv
    BY Zenon DEF Init, StageInv, Untouched, Collected, Preflighted, Deleted
  <1>2. TypeOK /\ StageInv /\ [Next]_vars => StageInv'
    <2> SUFFICES ASSUME TypeOK, StageInv, [Next]_vars PROVE StageInv'
      OBVIOUS
    <2> USE DEF Untouched, Collected, Preflighted, Deleted, Stages
    <2>1. ASSUME NEW options \in Options, Open(options) PROVE StageInv'
      BY Zenon, <2>1 DEF Open, StageInv, Then, readPruneGenesis, GenesisNode, Addressed, Hash32, Foreign
    <2>2. CASE Collect
      BY <2>2 DEF Collect, StageInv, collected, stateErrors, Fail, Cleanup, history,
         GenesisNode, Addressed, Hash32, Foreign
    <2>3. CASE VerifyKeep
      BY Zenon, <2>3 DEF VerifyKeep, StageInv, Check, Proceed, Fail, Cleanup, history,
         GenesisNode, Addressed, Hash32, Foreign
    <2>4. CASE Preflight
      <3>1. CASE stage' = "idle"
        BY Zenon, <2>4, <3>1 DEF StageInv, Preflight, Check, Succeed, Fail, Cleanup, Proceed
      <3>2. CASE stage' # "idle"
        <4>1. /\ stage' = "reopen" /\ UNCHANGED <<lock, keep, verified, err>>
              /\ ~opts.DryRun /\ walkErrors = {} /\ before' = scanPruneDB
          BY Zenon, <2>4, <3>2 DEF Preflight, Check, Then, Succeed, Proceed, Fail, Cleanup
        <4>2. Foreign \cap db = {} /\ db = opened
          BY Zenon, <4>1, <2>4 DEF walkErrors, Preflight, StageInv
        <4>3. UNCHANGED <<shape, genesis, db, reach, opts, head, deleted, started,
                          opened, removed>>
          BY Zenon, <2>4 DEF Preflight, history
        <4> QED
          BY <2>4, <4>1, <4>2, <4>3, ScanBeforeDeleting
             DEF Preflight, StageInv, GenesisNode, Addressed, Hash32, Foreign
      <3> QED BY Zenon, <3>1, <3>2
    <2>5. CASE Reopen
      BY <2>5, RoleSets DEF Reopen, StageInv, Proceed, history, GenesisNode, Addressed,
         Hash32, Foreign
    <2>6. CASE FlushBatch
      BY <2>6 DEF FlushBatch, StageInv, Batches, GenesisNode, Addressed, Hash32, Foreign
    <2>7. CASE FlushFails
      BY Zenon, <2>7 DEF FlushFails, StageInv, Fail, Cleanup
    <2>8. CASE DeleteDone
      BY <2>8, DeletionIsDone DEF StageInv, Proceed, GenesisNode, Addressed, Hash32, Foreign
    <2>9. CASE Verify
      BY <2>9, VerifyPasses DEF Verify, StageInv, Check, Succeed, Proceed, Fail, Cleanup,
         history, GenesisNode, Addressed, Hash32, Foreign
    <2>10. CASE Compact
      BY Zenon, <2>10 DEF Compact, StageInv, Proceed, history, GenesisNode, Addressed, Hash32, Foreign
    <2>11. CASE Interrupt
      BY Zenon, <2>11 DEF Interrupt, StageInv, Fail, Cleanup
    <2>12. CASE Kill
      BY Zenon, <2>12 DEF Kill, StageInv, Killed
    <2>13. CASE NodeStart
      BY Zenon, <2>13 DEF NodeStart, StageInv, run
    <2>14. CASE NodeBlock
      BY Zenon, <2>14 DEF NodeBlock, StageInv, run
    <2>15. CASE NodeStop
      BY Zenon, <2>15 DEF NodeStop, StageInv, run
    <2>16. CASE UNCHANGED vars
      BY <2>16 DEF StageInv, vars, GenesisNode, Addressed, Hash32, Foreign
    <2> QED
      BY Zenon, <2>1, <2>2, <2>3, <2>4, <2>5, <2>6, <2>7, <2>8, <2>9, <2>10, <2>11,
         <2>12, <2>13, <2>14, <2>15, <2>16 DEF Next, Invocation
  <1> QED
    BY <1>1, <1>2, TypeCorrect, PTL DEF Spec

-----------------------------------------------------------------------------
(* Only a batch write takes records out of the database, and a batch holds only
   candidates of the preflight scan (deletePruneDifference). *)
LEMMA BatchIsGarbage ==
    ASSUME TypeOK, StageInv, stage = "delete", NEW b \in Batches
    PROVE  b \subseteq Garbage
  <1>1. b \subseteq todo
    BY Zenon DEF Batches
  <1>2. todo = before.Candidates \ removed /\ head = reach /\ db = opened \ removed
        /\ keep = head \cup GenesisNode
        /\ before.Candidates = (opened \cap Addressed) \ keep
    BY DEF StageInv, Preflighted, Collected, Stages
  <1> QED
    BY Zenon, <1>1, <1>2 DEF Garbage, Needed

(* No sequence of failed, killed and repeated invocations and of blocks in
   between loses a record other than garbage. *)
THEOREM OnlyGarbageDeletedCorrect == Spec => OnlyGarbageDeleted
  <1>1. TypeOK /\ StageInv /\ [Next]_vars => [db \ db' \subseteq Garbage]_vars
    <2> SUFFICES ASSUME TypeOK, StageInv, Next PROVE db \ db' \subseteq Garbage
      OBVIOUS
    <2>1. CASE FlushBatch
      BY Zenon, <2>1, BatchIsGarbage DEF FlushBatch
    <2>2. CASE FlushFails
      BY Zenon, <2>2, BatchIsGarbage DEF FlushFails
    <2>3. CASE ~FlushBatch /\ ~FlushFails
      <3>1. db \subseteq db'
        BY Zenon, <2>3 DEF Next, Invocation, Open, Collect, VerifyKeep, Preflight, Reopen,
           DeleteDone, Verify, Compact, Interrupt, Kill, NodeStart, NodeBlock, NodeStop
      <3> QED BY Zenon, <3>1
    <2> QED
      BY Zenon, <2>1, <2>2, <2>3
  <1> QED
    BY <1>1, TypeCorrect, StageCorrect, PTL DEF Spec, OnlyGarbageDeleted

(* The reports of an invocation are truthful: complaints about the data come
   before the first deletion, deletions reported are committed, and success
   means that exactly the garbage found on opening is gone. *)
THEOREM ReportsCorrect == Spec => []ReportsAreTruthful
  <1> USE PruneConstants
  <1>1. Init => ReportsAreTruthful
    BY Zenon DEF Init, ReportsAreTruthful, RejectsBeforeDeleting, ReportsCommittedDeletions, VerifiedIsExact
  <1>2. TypeOK /\ StageInv /\ ReportsAreTruthful /\ [Next]_vars => ReportsAreTruthful'
    <2> SUFFICES ASSUME TypeOK, StageInv, ReportsAreTruthful, [Next]_vars PROVE ReportsAreTruthful'
      OBVIOUS
    <2> USE DEF ReportsAreTruthful, RejectsBeforeDeleting, ReportsCommittedDeletions, VerifiedIsExact,
                GenesisNode, Addressed
    <2>1. ASSUME NEW options \in Options, Open(options) PROVE ReportsAreTruthful'
      BY Zenon, <2>1 DEF Open
    <2>2. CASE Collect
      BY Zenon, <2>2 DEF Collect, StageInv, Untouched, Fail, Cleanup, history
    <2>3. CASE VerifyKeep
      BY Zenon, <2>3 DEF VerifyKeep, StageInv, Untouched, Check, Proceed, Fail, Cleanup, history
    <2>4. CASE Preflight
      BY <2>4, ScanBeforeDeleting DEF Preflight, StageInv, Untouched, Collected, Stages,
         Check, Then, Succeed, Proceed, Fail, Cleanup, history
    <2>5. CASE Reopen
      BY Zenon, <2>5 DEF Reopen, StageInv, Untouched, Proceed, history
    <2>6. CASE FlushBatch
      BY Zenon, <2>6 DEF FlushBatch, StageInv, Preflighted, Collected, Stages
    <2>7. CASE FlushFails
      BY Zenon, <2>7 DEF FlushFails, StageInv, Preflighted, Collected, Stages, Fail, Cleanup
    <2>8. CASE DeleteDone
      BY <2>8, DeletionIsDone DEF StageInv, Proceed
    <2>9. CASE Verify
      <3>1. verifyPruneDatabase = {}
        BY Zenon, <2>9, VerifyPasses DEF Verify, Deleted, Preflighted, Collected, Stages
      <3> QED
        BY <2>9, <3>1 DEF Verify, StageInv, Deleted, Preflighted, Collected, Stages,
           Check, Succeed, Proceed, Cleanup, history
    <2>10. CASE Compact
      BY Zenon, <2>10 DEF Compact, StageInv, Proceed, history
    <2>11. CASE Interrupt
      BY Zenon, <2>11 DEF Interrupt, StageInv, Fail, Cleanup
    <2>12. CASE Kill
      BY Zenon, <2>12 DEF Kill, StageInv, Killed
    <2>13. CASE NodeStart
      BY Zenon, <2>13 DEF NodeStart, run, history
    <2>14. CASE NodeBlock
      BY Zenon, <2>14 DEF NodeBlock, run
    <2>15. CASE NodeStop
      BY Zenon, <2>15 DEF NodeStop, run, history
    <2>16. CASE UNCHANGED vars
      BY Zenon, <2>16 DEF vars
    <2> QED
      BY Zenon, <2>1, <2>2, <2>3, <2>4, <2>5, <2>6, <2>7, <2>8, <2>9, <2>10, <2>11,
         <2>12, <2>13, <2>14, <2>15, <2>16 DEF Next, Invocation
  <1> QED
    BY <1>1, <1>2, TypeCorrect, StageCorrect, PTL DEF Spec, ReportsAreTruthful

-----------------------------------------------------------------------------
(* A stage that neither ends the invocation nor writes is a stutter of the
   contract, one that ends it with an error is its Stop. *)
LEMMA StageImplements ==
    ASSUME TypeOK, StageInv, stage # "idle",
           UNCHANGED <<shape, genesis, db, reach, opts>>,
           \/ UNCHANGED <<lock, verified, err>>
           \/ \E e \in Errors \ {"none"} : Fail(e)
    PROVE  [Contract!Next]_(Contract!vars)
  <1>1. ~verified /\ err = "none" /\ lock = "prune"
    BY Zenon DEF StageInv
  <1>2. UNCHANGED <<Addressed, Needed, Contract!Garbage>>
    BY Zenon DEF Addressed, Needed, GenesisNode, Contract!Garbage
  <1>3. CASE UNCHANGED <<lock, verified, err>>
    BY Zenon, <1>2, <1>3 DEF Contract!vars, Outcome
  <1>4. ASSUME NEW e \in Errors \ {"none"}, Fail(e) PROVE Contract!Stop
    <2>1. Outcome' = "failed" /\ lock' = "free"
      BY Zenon, <1>1, <1>4 DEF Fail, Cleanup, Outcome
    <2>2. db' = db \ {} /\ {} \in SUBSET Contract!Garbage
      OBVIOUS
    <2> QED
      BY Zenon, <1>1, <1>2, <2>1, <2>2 DEF Contract!Stop
  <1> QED
    BY Zenon, <1>3, <1>4 DEF Contract!Next

(* An invocation that succeeds found the head's state intact and, unless it was
   a dry run, left no garbage: it is the contract's Report, or its Stop when
   the cleanup fails. *)
LEMMA SuccessImplements ==
    ASSUME TypeOK, StageInv, Collected, opts.DryRun \/ Deleted, Succeed,
           UNCHANGED <<shape, genesis, db, reach, opts>>
    PROVE  Contract!Report \/ Contract!Stop
  <1>1. /\ lock = "prune" /\ lock' = "free" /\ UNCHANGED <<Addressed, Needed>>
        /\ Needed \subseteq db \cap Addressed
    BY Zenon DEF StageInv, Collected, Succeed, Cleanup, Addressed, Needed, GenesisNode
  <1>2. CASE err' = "io"
    <2>1. Outcome' = "failed"
      BY Zenon, <1>2 DEF Outcome
    <2>2. db' = db \ {} /\ {} \in SUBSET Contract!Garbage
      OBVIOUS
    <2> QED BY Zenon, <1>1, <2>1, <2>2 DEF Contract!Stop
  <1>3. ASSUME Deleted PROVE Contract!Garbage = {}
    <2>1. removed = (opened \cap Addressed) \ Needed /\ db = opened \ removed
      BY <1>3 DEF StageInv, Deleted, Preflighted, Collected, Needed
    <2> QED BY Zenon, <2>1 DEF Contract!Garbage
  <1>4. CASE err' = "none"
    <2>1. Outcome' = IF opts.DryRun THEN "checked" ELSE "clean"
      BY Zenon, <1>4 DEF Succeed, Outcome
    <2> QED BY Zenon, <1>1, <1>3, <2>1 DEF Contract!Report
  <1> QED
    BY Zenon, <1>2, <1>4 DEF Succeed

(* Every behaviour of the command is one of the contract. *)
THEOREM ContractCorrect == Spec => ImplementsContract
  <1> USE PruneConstants
  <1>1. Init => Contract!Init
    BY Zenon DEF Init, Contract!Init, Outcome
  <1>2. TypeOK /\ StageInv /\ [Next]_vars => [Contract!Next]_(Contract!vars)
    <2> SUFFICES ASSUME TypeOK, StageInv, [Next]_vars
                 PROVE  [Contract!Next]_(Contract!vars)
      OBVIOUS
    <2> DEFINE Same == UNCHANGED <<Addressed, Needed>>
    <2>1. ASSUME NEW options \in Options, Open(options)
          PROVE  [Contract!Next]_(Contract!vars)
      <3>1. Same /\ db' = db /\ verified' = FALSE
        BY Zenon, <2>1 DEF Open, Addressed, Needed, GenesisNode
      <3>2. CASE stage' = "collect" /\ lock' = "prune" /\ err' = "none"
        <4>1. lock = "free"
          BY Zenon, <2>1, <3>2 DEF Open, Then, TypeOK, Errors
        <4> QED
          BY Zenon, <3>1, <3>2, <4>1 DEF Outcome, Contract!Next, Contract!Start
      <3>3. CASE lock' = lock /\ err' = "open"
        <4>1. lock \in {"free", "node"}
          BY Zenon, <2>1 DEF Open, StageInv, TypeOK
        <4> QED
          BY Zenon, <3>1, <3>3, <4>1 DEF Outcome, Contract!Next, Contract!Refuse
      <3> QED
        BY Zenon, <2>1, <3>2, <3>3 DEF Open
    <2>2. CASE Collect
      <3>1. stateErrors(db) \subseteq Errors \ {"none"}
        BY Zenon DEF stateErrors, Errors
      <3> QED BY Zenon, <2>2, <3>1, StageImplements DEF Collect
    <2>3. CASE VerifyKeep
      <3>1. stateErrors(keep) \subseteq Errors \ {"none"}
        BY Zenon DEF stateErrors, Errors
      <3> QED BY Zenon, <2>3, <3>1, StageImplements DEF VerifyKeep, Check, Proceed
    <2>4. CASE Preflight
      <3>1. Then(walkErrors, confirmPruneHead) \subseteq Errors \ {"none"}
        BY Zenon DEF Then, walkErrors, confirmPruneHead, Errors
      <3>2. CASE Succeed /\ opts.DryRun
        BY Zenon, <2>4, <3>2, SuccessImplements DEF Preflight, Collected, Stages,
           Contract!Next
      <3>3. CASE Check(Then(walkErrors, confirmPruneHead), "reopen")
        BY Zenon, <2>4, <3>1, <3>3, StageImplements DEF Preflight, Check, Proceed
      <3> QED BY Zenon, <2>4, <3>2, <3>3 DEF Preflight
    <2>5. CASE Reopen
      BY Zenon, <2>5, StageImplements DEF Reopen, Proceed
    <2>6. CASE FlushBatch
      <3>1. PICK b \in Batches : db' = db \ b
        BY Zenon, <2>6 DEF FlushBatch
      <3>2. b \subseteq Contract!Garbage
        BY Zenon, <2>6, BatchIsGarbage DEF FlushBatch, Garbage, Contract!Garbage
      <3>3. Same /\ UNCHANGED <<lock, Outcome>> /\ lock = "prune"
        BY Zenon, <2>6 DEF FlushBatch, StageInv, Outcome, Addressed, Needed, GenesisNode
      <3> QED BY Zenon, <3>1, <3>2, <3>3 DEF Contract!Next, Contract!Delete
    <2>7. CASE FlushFails
      <3>1. PICK b \in Batches, lost \in BOOLEAN : db' = IF lost THEN db ELSE db \ b
        BY Zenon, <2>7 DEF FlushFails
      <3>2. b \subseteq Contract!Garbage
        BY Zenon, <2>7, BatchIsGarbage DEF FlushFails, Garbage, Contract!Garbage
      <3>3. \E S \in SUBSET Contract!Garbage : db' = db \ S
        <4>1. CASE lost
          <5>1. db' = db \ {} /\ {} \in SUBSET Contract!Garbage
            BY Zenon, <3>1, <4>1
          <5> QED BY Zenon, <5>1
        <4>2. CASE ~lost
          BY Zenon, <3>1, <3>2, <4>2
        <4> QED BY Zenon, <4>1, <4>2
      <3>4. Same /\ lock = "prune" /\ lock' = "free" /\ Outcome' = "failed"
        BY Zenon, <2>7 DEF FlushFails, StageInv, Fail, Cleanup, Outcome, Addressed, Needed,
           GenesisNode
      <3> QED BY Zenon, <3>3, <3>4 DEF Contract!Next, Contract!Stop
    <2>8. CASE DeleteDone
      BY Zenon, <2>8, DeletionIsDone, StageImplements DEF DeleteDone, Proceed
    <2>9. CASE Verify
      <3>1. verifyPruneDatabase = {} /\ Deleted
        BY Zenon, <2>9, VerifyPasses DEF Verify, Deleted, Preflighted, Collected, Stages
      <3>2. CASE Succeed
        BY Zenon, <2>9, <3>1, <3>2, SuccessImplements DEF Verify, Deleted, Preflighted,
           Contract!Next
      <3>3. CASE Proceed("compact")
        BY Zenon, <2>9, <3>3, StageImplements DEF Verify, Proceed
      <3> QED BY Zenon, <2>9, <3>1, <3>2, <3>3 DEF Verify, Check
    <2>10. CASE Compact
      BY Zenon, <2>10, StageImplements DEF Compact, Proceed
    <2>11. CASE Interrupt
      BY Zenon, <2>11, StageImplements DEF Interrupt, Errors
    <2>12. CASE Kill
      <3>1. Same /\ lock = "prune" /\ lock' = "free" /\ Outcome' = "failed"
        BY Zenon, <2>12 DEF Kill, StageInv, Killed, Outcome, Addressed, Needed, GenesisNode
      <3>2. db' = db \ {} /\ {} \in SUBSET Contract!Garbage
        BY Zenon, <2>12 DEF Kill
      <3> QED BY Zenon, <3>1, <3>2 DEF Contract!Next, Contract!Stop
    <2>13. CASE NodeStart
      BY Zenon, <2>13 DEF NodeStart, run, Outcome, Addressed, Needed, GenesisNode,
         Contract!Next, Contract!NodeStart
    <2>14. CASE NodeBlock
      BY Zenon, <2>14 DEF NodeBlock, run, Outcome, Addressed, Contract!Next, Contract!NodeBlock
    <2>15. CASE NodeStop
      BY Zenon, <2>15 DEF NodeStop, run, Outcome, Addressed, Needed, GenesisNode,
         Contract!Next, Contract!NodeStop
    <2>16. CASE UNCHANGED vars
      BY Zenon, <2>16 DEF vars, Outcome, Addressed, Needed, GenesisNode, Contract!vars
    <2> QED
      BY Zenon, <2>1, <2>2, <2>3, <2>4, <2>5, <2>6, <2>7, <2>8, <2>9, <2>10, <2>11,
         <2>12, <2>13, <2>14, <2>15, <2>16 DEF Next, Invocation
  <1> QED
    BY <1>1, <1>2, TypeCorrect, StageCorrect, PTL DEF Spec, ImplementsContract, Contract!Spec
=============================================================================
