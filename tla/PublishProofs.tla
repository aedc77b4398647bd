--------------------------- MODULE PublishProofs ---------------------------
(***************************************************************************)
(* Proofs about publication, for any number of commands, staging names and *)
(* power losses.  PublishInv of module Publish is the inductive invariant. *)
(***************************************************************************)
EXTENDS Publish, TLAPS

(* A command that is building or committing has a staging directory. *)
LEMMA StagingExists ==
    ASSUME TypeOK, PublishInv, NEW p \in Commands,
           stage[p] \in Building \cup {"commit", "rename"}
    PROVE  Owns(p) /\ temp[p] \in staged /\ temp[p] \in Names
           /\ dirs[temp[p]] \in Artifact
  BY Zenon DEF TypeOK, PublishInv, StagingIsOwn, Owns, ProgressSoFar, durable, Active, Building,
     Committing

(* A step that rewrites its own staging directory and goes on keeps the types,
   and keeps the invariant when it leaves the directory as the next step
   expects it. *)
LEMMA RewriteKeeps ==
    ASSUME TypeOK, PublishInv, NEW p \in Commands,
           stage[p] \in Building \cup {"commit"},
           NEW a \in Artifact, NEW s \in Building \cup {"commit", "rename"},
           Rewrite(p, a), Goto(p, s)
    PROVE  /\ TypeOK'
           /\ dirs'[temp'[p]] = a /\ stage'[p] = s /\ kind' = kind
           /\ StagedSoFar(p)' => PublishInv'
  <1> USE StagingExists DEF Rewrite, Goto, TypeOK
  <1>1. TypeOK'
    BY Zenon DEF Stages, Active, Building, Committing
  <1>2. dirs'[temp'[p]] = a /\ stage'[p] = s /\ kind' = kind
    OBVIOUS
  <1>3. ASSUME StagedSoFar(p)' PROVE PublishInv'
    <2>1. StagingIsOwn'
      BY DEF PublishInv, StagingIsOwn, Owns, Active, Building, Committing
    <2>2. \A q \in Commands : ProgressSoFar(q)'
      BY DEF PublishInv, ProgressSoFar, durable, Building
    <2>3. ASSUME NEW q \in Commands, q # p PROVE StagedSoFar(q)'
      <3>1. stage'[q] = stage[q] /\ temp'[q] = temp[q] /\ kind'[q] = kind[q]
        BY ZenonT(60), <2>3
      <3>2. CASE stage[q] \in Building \cup {"commit", "rename"}
        <4>1. temp[q] # temp[p]
          BY Zenon, <2>3, <3>2 DEF PublishInv, StagingIsOwn
        <4>2. dirs'[temp[q]] = dirs[temp[q]]
          BY Zenon, <3>2, <4>1
        <4> QED BY <3>1, <4>2 DEF PublishInv, StagedSoFar
      <3>3. CASE stage[q] \notin Building \cup {"commit", "rename"}
        BY Zenon, <3>1, <3>3 DEF StagedSoFar, Building
      <3> QED BY Zenon, <3>2, <3>3
    <2>4. final' \in Commands => committed'[final'] /\ Whole(output)' /\ output'.entries
      BY Zenon DEF PublishInv, Whole
    <2> QED BY Zenon, <1>3, <2>1, <2>2, <2>3, <2>4 DEF PublishInv
  <1> QED BY Zenon, <1>1, <1>2, <1>3

(* A step that only moves one command on, and touches no directory. *)
LEMMA MoveKeeps ==
    ASSUME TypeOK, PublishInv, NEW p \in Commands, NEW s \in Stages,
           Goto(p, s), err' \in [Commands -> {"none", "failed", "unknown", "uncleaned"}],
           \A q \in Commands \ {p} : err'[q] = err[q],
           UNCHANGED <<kind, temp, committed, canceled, late, revived, losses, disk>>,
           s \in Active /\ ~committed[p] => stage[p] \in Active,
           StagedSoFar(p)', ProgressSoFar(p)'
    PROVE  TypeOK' /\ PublishInv'
  <1> USE DEF Goto, TypeOK, disk
  <1>1. TypeOK'
    BY Zenon
  <1>2. StagingIsOwn'
    BY DEF PublishInv, StagingIsOwn, Owns
  <1>3. ASSUME NEW q \in Commands, q # p PROVE StagedSoFar(q)' /\ ProgressSoFar(q)'
    BY <1>3 DEF PublishInv, StagedSoFar, ProgressSoFar, durable, Whole
  <1> QED BY ZenonT(60), <1>1, <1>2, <1>3 DEF PublishInv, Whole

(* The steps that fill, seal, check and describe the artifact. *)
LEMMA BuildingKeeps ==
    ASSUME TypeOK, PublishInv, NEW p \in Commands,
           \/ Build(p) \/ Seal(p) \/ Verify(p) \/ Confirm(p) \/ Report(p)
           \/ CommitSync(p)
    PROVE  TypeOK' /\ PublishInv'
  <1> DEFINE d == dirs[temp[p]]
  <1>0. StagedSoFar(p)
    BY Zenon DEF PublishInv
  <1>1. CASE Build(p)
    <2> DEFINE a == [Empty EXCEPT !.data = "written", !.work = kind[p] = "ovm"]
    <2>1. a \in Artifact /\ (a.work <=> kind[p] = "ovm")
      BY Zenon DEF Artifact, Empty, File
    <2>2. AfterBuild(kind[p]) \in Building /\ stage[p] \in Building
      BY Zenon, <1>1 DEF Build, AfterBuild, Building
    <2>3. /\ TypeOK'
          /\ dirs'[temp'[p]] = a /\ stage'[p] = AfterBuild(kind[p]) /\ kind' = kind
          /\ StagedSoFar(p)' => PublishInv'
      BY <1>1, <2>1, <2>2, RewriteKeeps DEF Build
    <2>4. StagedSoFar(p)'
      BY Zenon, <1>0, <1>1, <2>1, <2>2, <2>3 DEF Build, StagedSoFar, AfterBuild
    <2> QED BY Zenon, <2>3, <2>4
  <1>2. CASE Seal(p)
    <2> DEFINE a == [d EXCEPT !.data = "synced", !.verified = kind[p] = "export"]
    <2>1. d \in Artifact /\ a \in Artifact /\ a.data = "synced"
          /\ (a.verified <=> kind[p] = "export") /\ a.work = d.work
      BY Zenon, <1>2, StagingExists DEF Seal, Building, Artifact, File
    <2>2. AfterSeal(kind[p]) \in Building /\ stage[p] \in Building
      BY Zenon, <1>2 DEF Seal, AfterSeal, Building
    <2>3. /\ TypeOK'
          /\ dirs'[temp'[p]] = a /\ stage'[p] = AfterSeal(kind[p]) /\ kind' = kind
          /\ StagedSoFar(p)' => PublishInv'
      BY <1>2, <2>1, <2>2, RewriteKeeps DEF Seal
    <2>4. StagedSoFar(p)'
      BY Zenon, <1>0, <1>2, <2>1, <2>2, <2>3 DEF Seal, StagedSoFar, AfterSeal
    <2> QED BY Zenon, <2>3, <2>4
  <1>3. CASE Verify(p)
    <2> DEFINE a == [d EXCEPT !.verified = TRUE]
    <2>1. d \in Artifact /\ a \in Artifact /\ a.data = d.data /\ a.verified
          /\ a.work = d.work
      BY Zenon, <1>3, StagingExists DEF Verify, Building, Artifact
    <2>2. AfterVerify(kind[p]) \in Building /\ stage[p] \in Building
      BY Zenon, <1>3 DEF Verify, AfterVerify, Building
    <2>3. /\ TypeOK'
          /\ dirs'[temp'[p]] = a /\ stage'[p] = AfterVerify(kind[p]) /\ kind' = kind
          /\ StagedSoFar(p)' => PublishInv'
      BY Zenon, <1>3, <2>1, <2>2, RewriteKeeps DEF Verify
    <2>4. StagedSoFar(p)'
      BY Zenon, <1>0, <1>3, <2>1, <2>2, <2>3 DEF Verify, StagedSoFar, AfterVerify, Artifact
    <2> QED BY Zenon, <2>3, <2>4
  <1>4. CASE Confirm(p)
    <2> DEFINE a == [d EXCEPT !.work = FALSE]
    <2>1. d \in Artifact /\ a \in Artifact /\ a.data = d.data
          /\ a.verified = d.verified /\ ~a.work
      BY Zenon, <1>4, StagingExists DEF Confirm, Building, Artifact
    <2>2. AfterConfirm(kind[p]) \in Building /\ stage[p] \in Building
      BY Zenon, <1>4 DEF Confirm, AfterConfirm, Building
    <2>3. /\ TypeOK'
          /\ dirs'[temp'[p]] = a /\ stage'[p] = AfterConfirm(kind[p]) /\ kind' = kind
          /\ StagedSoFar(p)' => PublishInv'
      BY Zenon, <1>4, <2>1, <2>2, RewriteKeeps DEF Confirm
    <2>4. StagedSoFar(p)'
      BY Zenon, <1>0, <1>4, <2>1, <2>2, <2>3 DEF Confirm, StagedSoFar, AfterConfirm
    <2> QED BY Zenon, <2>3, <2>4
  <1>5. CASE Report(p)
    <2> DEFINE a == [d EXCEPT !.report = "synced"]
    <2>1. d \in Artifact /\ a \in Artifact /\ a.data = d.data
          /\ a.verified = d.verified /\ a.work = d.work /\ a.report = "synced"
      BY Zenon, <1>5, StagingExists DEF Report, Building, Artifact, File
    <2>2. stage[p] \in Building /\ "check" \in Building
      BY Zenon, <1>5 DEF Report, Building
    <2>3. /\ TypeOK'
          /\ dirs'[temp'[p]] = a /\ stage'[p] = "check" /\ kind' = kind
          /\ StagedSoFar(p)' => PublishInv'
      BY Zenon, <1>5, <2>1, <2>2, RewriteKeeps DEF Report
    <2>4. StagedSoFar(p)'
      BY Zenon, <1>0, <1>5, <2>1, <2>2, <2>3 DEF Report, StagedSoFar, Whole
    <2> QED BY Zenon, <2>3, <2>4
  <1>6. CASE CommitSync(p)
    <2> DEFINE a == [d EXCEPT !.entries = TRUE]
    <2>1. d \in Artifact /\ a \in Artifact /\ (Whole(d) => Whole(a)) /\ a.entries
      BY Zenon, <1>6, StagingExists DEF CommitSync, Artifact, Whole
    <2>2. /\ TypeOK'
          /\ dirs'[temp'[p]] = a /\ stage'[p] = "rename" /\ kind' = kind
          /\ StagedSoFar(p)' => PublishInv'
      BY Zenon, <1>6, <2>1, RewriteKeeps DEF CommitSync
    <2>3. StagedSoFar(p)'
      BY Zenon, <1>0, <1>6, <2>1, <2>2 DEF CommitSync, StagedSoFar, Whole
    <2> QED BY Zenon, <2>2, <2>3
  <1> QED BY Zenon, <1>1, <1>2, <1>3, <1>4, <1>5, <1>6

(* The steps that only move a command on: the free output path is seen, the
   last look at the context, an error, a kill, a failed cleanup. *)
LEMMA MovingKeeps ==
    ASSUME TypeOK, PublishInv, NEW p \in Commands,
           \/ Inspect(p) \/ BeforeCommit(p) \/ SyncParentFails(p) \/ Fail(p)
           \/ ReturnUncleaned(p) \/ Kill(p)
    PROVE  TypeOK' /\ PublishInv'
  <1> USE DEF Stages, Active, Building, Committing
  <1>0. StagedSoFar(p) /\ ProgressSoFar(p)
    BY ZenonT(60) DEF PublishInv
  <1>1. CASE Inspect(p)
    <2>1. StagedSoFar(p)' /\ ProgressSoFar(p)'
      BY <1>0, <1>1 DEF Inspect, Goto, StagedSoFar, ProgressSoFar, durable, TypeOK, disk
    <2> QED BY <1>1, <2>1, MoveKeeps DEF Inspect, Goto, TypeOK
  <1>2. CASE BeforeCommit(p)
    <2>1. StagedSoFar(p)' /\ ProgressSoFar(p)'
      BY Zenon, <1>0, <1>2 DEF BeforeCommit, Goto, StagedSoFar, ProgressSoFar, durable,
         Whole, TypeOK, disk
    <2> QED BY Zenon, <1>2, <2>1, MoveKeeps DEF BeforeCommit, TypeOK
  <1>3. CASE SyncParentFails(p)
    <2>1. StagedSoFar(p)' /\ ProgressSoFar(p)'
      BY Zenon, <1>0, <1>3 DEF SyncParentFails, Failed, Goto, StagedSoFar, ProgressSoFar,
         durable,
         TypeOK, disk
    <2> QED BY Zenon, <1>3, <2>1, MoveKeeps DEF SyncParentFails, Failed, TypeOK
  <1>4. CASE Fail(p)
    <2>1. StagedSoFar(p)' /\ ProgressSoFar(p)'
      BY Zenon, <1>0, <1>4 DEF Fail, Failed, Goto, StagedSoFar, ProgressSoFar, durable,
         TypeOK, disk
    <2> QED BY Zenon, <1>4, <2>1, MoveKeeps DEF Fail, Failed, TypeOK
  <1>5. CASE ReturnUncleaned(p)
    <2>1. StagedSoFar(p)' /\ ProgressSoFar(p)'
      BY Zenon, <1>0, <1>5 DEF ReturnUncleaned, Goto, StagedSoFar, ProgressSoFar, durable,
         TypeOK, disk
    <2> QED BY Zenon, <1>5, <2>1, MoveKeeps DEF ReturnUncleaned, TypeOK
  <1>6. CASE Kill(p)
    <2>1. StagedSoFar(p)' /\ ProgressSoFar(p)'
      BY Zenon, <1>0, <1>6 DEF Kill, Goto, StagedSoFar, ProgressSoFar, durable, TypeOK, disk
    <2> QED BY Zenon, <1>6, <2>1, MoveKeeps DEF Kill, TypeOK
  <1> QED BY Zenon, <1>1, <1>2, <1>3, <1>4, <1>5, <1>6

(* os.MkdirTemp draws a name nobody else is using. *)
LEMMA CreatingKeeps ==
    ASSUME TypeOK, PublishInv, NEW p \in Commands, Create(p) \/ CreateFails(p)
    PROVE  TypeOK' /\ PublishInv'
  <1> USE DEF Stages, Active, Building, Committing, TypeOK, Goto
  <1>0. StagedSoFar(p) /\ ProgressSoFar(p)
    BY Zenon DEF PublishInv
  <1>1. CASE Create(p)
    <2>1. PICK n \in Names \ staged : temp' = [temp EXCEPT ![p] = n]
      BY Zenon, <1>1 DEF Create, MkdirTemp
    <2>2. /\ stage' = [stage EXCEPT ![p] = "build"]
          /\ staged' = staged \cup {n}
          /\ dirs' = [dirs EXCEPT ![n] = Empty]
      BY Zenon, <1>1, <2>1 DEF Create
    <2>3. TypeOK'
      BY <1>1, <2>1, <2>2 DEF Create, Empty, Artifact, File
    <2>4. StagingIsOwn'
      BY <1>1, <2>1, <2>2 DEF Create, PublishInv, StagingIsOwn, Owns
    <2>5. ASSUME NEW q \in Commands, q # p PROVE StagedSoFar(q)' /\ ProgressSoFar(q)'
      <3>1. /\ stage'[q] = stage[q] /\ temp'[q] = temp[q] /\ kind' = kind
            /\ committed' = committed /\ err' = err /\ final' = final /\ unsynced' = {}
        BY Zenon, <1>1, <2>1, <2>2, <2>5 DEF Create
      <3>2. ProgressSoFar(q)'
        BY Zenon, <3>1 DEF PublishInv, ProgressSoFar, durable
      <3>3. CASE stage[q] \in Building \cup {"commit", "rename"}
        <4>1. temp[q] \in staged
          BY Zenon, <3>3, StagingExists
        <4>2. dirs'[temp[q]] = dirs[temp[q]]
          BY Zenon, <2>2, <4>1
        <4> QED BY <3>1, <3>2, <4>2 DEF PublishInv, StagedSoFar
      <3>4. CASE stage[q] \notin Building \cup {"commit", "rename"}
        BY Zenon, <3>1, <3>2, <3>4 DEF StagedSoFar
      <3> QED BY Zenon, <3>3, <3>4
    <2>6. StagedSoFar(p)' /\ ProgressSoFar(p)'
      BY <1>0, <1>1, <2>2 DEF Create, StagedSoFar, ProgressSoFar, durable
    <2> QED BY <1>1, <2>3, <2>4, <2>5, <2>6 DEF Create, PublishInv, Whole
  <1>2. CASE CreateFails(p)
    <2>1. TypeOK'
      BY Zenon, <1>2 DEF CreateFails
    <2>2. StagingIsOwn'
      BY <1>2 DEF CreateFails, PublishInv, StagingIsOwn, Owns
    <2>3. ASSUME NEW q \in Commands PROVE StagedSoFar(q)' /\ ProgressSoFar(q)'
      <3>1. CASE q = p
        BY ZenonT(60), <1>0, <1>2, <3>1 DEF CreateFails, StagedSoFar, ProgressSoFar
      <3>2. CASE q # p
        <4>1. stage'[q] = stage[q] /\ err'[q] = err[q] /\ unsynced' \subseteq unsynced
          BY Zenon, <1>2, <3>2 DEF CreateFails
        <4>2. StagedSoFar(q)'
          BY <1>2, <4>1 DEF CreateFails, PublishInv, StagedSoFar, Whole
        <4>3. ProgressSoFar(q)'
          <5>1. ProgressSoFar(q) /\ (q \in unsynced' => q \in unsynced) /\ (durable => durable')
            BY Zenon, <1>2, <4>1 DEF CreateFails, PublishInv, durable
          <5>2. UNCHANGED <<temp, committed, final>>
            BY Zenon, <1>2 DEF CreateFails
          <5> QED BY Zenon, <4>1, <5>1, <5>2 DEF ProgressSoFar
        <4> QED BY Zenon, <4>2, <4>3
      <3> QED BY Zenon, <3>1, <3>2
    <2> QED BY Zenon, <1>2, <2>1, <2>2, <2>3 DEF CreateFails, PublishInv, Whole
  <1> QED BY Zenon, <1>1, <1>2

(* The rename puts a whole directory at a free output path, and the parent's
   sync makes it durable. *)
LEMMA RenamingKeeps ==
    ASSUME TypeOK, PublishInv, NEW p \in Commands, Rename(p) \/ SyncParent(p)
    PROVE  TypeOK' /\ PublishInv'
  <1> USE PublishAssumption DEF Stages, Active, Building, Committing, TypeOK, Goto
  <1>0. StagedSoFar(p) /\ ProgressSoFar(p)
    BY Zenon DEF PublishInv
  <1>1. CASE Rename(p)
    <2>1. /\ temp[p] \in staged /\ dirs[temp[p]] \in Artifact /\ temp[p] \in Names
          /\ Owns(p) /\ Whole(dirs[temp[p]]) /\ dirs[temp[p]].entries
      BY Zenon, <1>0, <1>1, StagingExists DEF Rename, StagedSoFar
    <2>2. TypeOK'
      BY ZenonT(60), <1>1, <2>1 DEF Rename, Empty, Artifact, File
    <2>3. \A q \in Commands : Owns(q)' => q # p /\ Owns(q)
      BY Zenon, <1>1 DEF Rename, Owns
    <2>4. StagingIsOwn'
      BY Zenon, <1>1, <2>1, <2>3 DEF Rename, PublishInv, StagingIsOwn
    <2>5. ASSUME NEW q \in Commands, q # p PROVE StagedSoFar(q)' /\ ProgressSoFar(q)'
      <3>1. /\ stage'[q] = stage[q] /\ temp'[q] = temp[q] /\ kind' = kind
            /\ committed'[q] = committed[q] /\ err' = err /\ unsynced' = unsynced \cup {p}
        BY Zenon, <1>1, <2>5 DEF Rename
      <3>2. final = "none" /\ final # q
        BY Zenon, <1>1 DEF Rename
      <3>3. ProgressSoFar(q)'
        BY ZenonT(60), <2>5, <3>1, <3>2 DEF PublishInv, ProgressSoFar, durable
      <3>4. CASE stage[q] \in Building \cup {"commit", "rename"}
        <4>1. temp[q] # temp[p]
          BY Zenon, <2>1, <2>5, <3>4, StagingExists DEF PublishInv, StagingIsOwn
        <4>2. dirs'[temp[q]] = dirs[temp[q]]
          BY Zenon, <1>1, <2>1, <3>4, <4>1, StagingExists DEF Rename
        <4> QED BY <3>1, <3>3, <4>2 DEF PublishInv, StagedSoFar
      <3>5. CASE stage[q] \notin Building \cup {"commit", "rename"}
        BY Zenon, <3>1, <3>3, <3>5 DEF StagedSoFar
      <3> QED BY Zenon, <3>4, <3>5
    <2>6. StagedSoFar(p)' /\ ProgressSoFar(p)'
      BY Zenon, <1>0, <1>1, <2>1 DEF Rename, StagedSoFar, ProgressSoFar
    <2>7. committed'[final'] /\ Whole(output)' /\ output'.entries
      BY Zenon, <1>1, <2>1 DEF Rename, Whole
    <2> QED BY <2>2, <2>4, <2>5, <2>6, <2>7 DEF PublishInv
  <1>2. CASE SyncParent(p)
    <2>1. TypeOK'
      BY Zenon, <1>2 DEF SyncParent
    <2>2. StagingIsOwn'
      BY <1>2 DEF SyncParent, PublishInv, StagingIsOwn, Owns
    <2>3. ASSUME NEW q \in Commands PROVE StagedSoFar(q)' /\ ProgressSoFar(q)'
      BY <1>0, <1>2 DEF SyncParent, PublishInv, StagedSoFar, ProgressSoFar, durable, Whole
    <2> QED BY Zenon, <1>2, <2>1, <2>2, <2>3 DEF SyncParent, PublishInv, Whole
  <1> QED BY Zenon, <1>1, <1>2

(* Abort removes the command's own directory, or nothing once it has published. *)
LEMMA ReturningKeeps ==
    ASSUME TypeOK, PublishInv, NEW p \in Commands, Return(p)
    PROVE  TypeOK' /\ PublishInv'
  <1> USE DEF Stages, Active, Building, Committing, TypeOK, Goto
  <1>1. TypeOK'
    BY DEF Return, Abort, Empty, Artifact, File
  <1>2. \A q \in Commands : Owns(q)' => q # p /\ Owns(q)
    BY Zenon DEF Return, Owns
  <1>3. ASSUME NEW q \in Commands, Owns(q), q # p PROVE temp[q] \in staged'
    BY Zenon, <1>3 DEF Return, Abort, PublishInv, StagingIsOwn, Owns
  <1>4. StagingIsOwn'
    BY Zenon, <1>2, <1>3 DEF Return, PublishInv, StagingIsOwn
  <1>5. ASSUME NEW q \in Commands, q # p PROVE StagedSoFar(q)' /\ ProgressSoFar(q)'
    <2>1. /\ stage'[q] = stage[q] /\ temp' = temp /\ kind' = kind
          /\ committed' = committed /\ err' = err /\ final' = final
          /\ q \in unsynced' => q \in unsynced
      BY Zenon, <1>5 DEF Return, Abort
    <2>2. ProgressSoFar(q)'
      BY ZenonT(60), <2>1 DEF PublishInv, ProgressSoFar, durable
    <2>3. CASE stage[q] \in Building \cup {"commit", "rename"}
      <3>1. dirs'[temp[q]] = dirs[temp[q]]
        BY Zenon, <1>3, <1>5, <2>3, StagingExists DEF Return
      <3> QED BY <2>1, <2>2, <3>1 DEF PublishInv, StagedSoFar
    <2>4. CASE stage[q] \notin Building \cup {"commit", "rename"}
      BY Zenon, <2>1, <2>2, <2>4 DEF StagedSoFar
    <2> QED BY Zenon, <2>3, <2>4
  <1>6. StagedSoFar(p)' /\ ProgressSoFar(p)'
    <2>1. ProgressSoFar(p) /\ (~committed[p] => temp[p] \in Names)
      BY Zenon DEF Return, PublishInv, StagingIsOwn, Owns
    <2>2. /\ stage'[p] = "done" /\ temp' = temp /\ err' = err
          /\ unsynced' = IF committed[p] THEN unsynced ELSE unsynced \cup {p}
      BY Zenon DEF Return, Abort
    <2>3. err[p] = "none" => p \notin unsynced'
      BY Zenon, <2>1, <2>2 DEF Return, ProgressSoFar, durable
    <2> QED BY Zenon, <2>1, <2>2, <2>3 DEF StagedSoFar, ProgressSoFar
  <1> QED BY <1>1, <1>4, <1>5, <1>6 DEF Return, PublishInv, Whole

(* A power loss takes nothing from a directory whose files and entries were
   synced. *)
LEMMA SyncedRemains ==
    ASSUME NEW a \in Artifact, Whole(a), a.entries, NEW b \in Remains(a)
    PROVE  b = a
  <1>1. PICK d \in {a.data}, r \in {a.report}, w \in {a.work} :
            b = [a EXCEPT !.data = d, !.report = r, !.work = w]
    BY DEF Remains, Whole
  <1> QED BY Zenon, <1>1 DEF Artifact

(* Cancellation, somebody else's path and a power loss. *)
LEMMA SurroundingsKeep ==
    ASSUME TypeOK, PublishInv,
           (\E p \in Commands : Cancel(p)) \/ Foreign \/ PowerLoss
    PROVE  TypeOK' /\ PublishInv'
  <1> USE PublishAssumption DEF Stages, Active, Building, Committing, TypeOK
  <1>1. ASSUME NEW p \in Commands, Cancel(p) PROVE TypeOK' /\ PublishInv'
    BY <1>1 DEF Cancel, PublishInv, StagingIsOwn, StagedSoFar, ProgressSoFar, durable, Owns,
       Whole, disk
  <1>2. CASE Foreign
    <2>1. TypeOK'
      BY Zenon, <1>2 DEF Foreign
    <2>2. StagingIsOwn'
      BY Zenon, <1>2 DEF Foreign, PublishInv, StagingIsOwn, Owns
    <2>3. ASSUME NEW q \in Commands PROVE StagedSoFar(q)' /\ ProgressSoFar(q)'
      BY Zenon, <1>2, <2>3 DEF Foreign, PublishInv, StagedSoFar, ProgressSoFar, durable, Whole
    <2> QED BY Zenon, <1>2, <2>1, <2>2, <2>3 DEF Foreign, PublishInv
  <1>3. CASE PowerLoss
    <2>1. \A q \in Commands : stage'[q] \in {"idle", "done", "killed"} /\
                (stage'[q] \in {"idle", "done"} => stage'[q] = stage[q])
      BY Zenon, <1>3 DEF PowerLoss
    <2>2. \/ final' = final /\ output' = output
          \/ final' = "none" /\ output' = Empty /\ ~durable
      BY Zenon, <1>3, SyncedRemains DEF PowerLoss, PublishInv
    <2>3. TypeOK'
      <3>1. Empty \in Artifact
        BY Zenon DEF Empty, Artifact, File
      <3>2. output' \in Artifact /\ final' \in Commands \cup {"none", "foreign"}
        BY Zenon, <2>2, <3>1
      <3>3. losses' \in 0..MaxLosses
        BY <1>3 DEF PowerLoss
      <3>4. stage' \in [Commands -> Stages]
        BY Zenon, <1>3 DEF PowerLoss
      <3>5. \A p \in unsynced : temp[p] \in Names
        BY Zenon DEF PublishInv, ProgressSoFar
      <3>6. staged' \subseteq Names /\ revived' \subseteq Commands
        <4>1. PICK back \in SUBSET unsynced, kept \in SUBSET staged :
                  /\ staged' = kept \cup {temp[p] : p \in back}
                  /\ revived' = revived \cup back
          BY ZenonT(60), <1>3 DEF PowerLoss, Undoable
        <4>2. ASSUME NEW n \in staged', n \notin staged PROVE n \in Names
          <5>1. PICK p \in back : n = temp[p]
            BY Zenon, <4>1, <4>2
          <5> QED BY Zenon, <3>5, <5>1
        <4> QED BY Zenon, <4>1, <4>2
      <3>7. \A n \in Names : Restored(n) \in Artifact
        BY Zenon, <3>1 DEF Restored
      <3>8. dirs' \in [Names -> Artifact]
        <4>1. dirs' = [n \in Names |-> IF n \in staged' THEN Restored(n) ELSE Empty]
          BY Zenon, <1>3 DEF PowerLoss
        <4> QED BY Zenon, <3>1, <3>7, <4>1
      <3> QED BY Zenon, <1>3, <3>2, <3>3, <3>4, <3>6, <3>8 DEF PowerLoss
    <2>4. StagingIsOwn'
      BY Zenon, <2>1 DEF StagingIsOwn, Owns
    <2>5. ASSUME NEW q \in Commands PROVE StagedSoFar(q)' /\ ProgressSoFar(q)'
      BY ZenonT(60), <1>3, <2>1 DEF PowerLoss, PublishInv, StagedSoFar, ProgressSoFar, durable
    <2>6. final' \in Commands => committed'[final'] /\ Whole(output)' /\ output'.entries
      BY Zenon, <1>3, <2>2 DEF PowerLoss, PublishInv, Whole
    <2> QED BY Zenon, <2>3, <2>4, <2>5, <2>6 DEF PublishInv
  <1> QED BY ZenonT(60), <1>1, <1>2, <1>3

(* The type and publication invariants hold throughout. *)
LEMMA Inductive == Spec => [](TypeOK /\ PublishInv)
  <1>1. Init => TypeOK /\ PublishInv
    <2> SUFFICES ASSUME Init PROVE TypeOK /\ PublishInv
      OBVIOUS
    <2> USE PublishAssumption DEF Init, Stages, Active, Building, Committing
    <2>1. TypeOK
      BY DEF TypeOK, Artifact, Empty, File, Kinds
    <2> QED BY Zenon, <2>1 DEF PublishInv, StagingIsOwn, StagedSoFar, ProgressSoFar, durable, Owns
  <1>2. TypeOK /\ PublishInv /\ [Next]_vars => TypeOK' /\ PublishInv'
    <2> SUFFICES ASSUME TypeOK, PublishInv, [Next]_vars PROVE TypeOK' /\ PublishInv'
      OBVIOUS
    <2>1. CASE UNCHANGED vars
      BY <2>1 DEF vars, TypeOK, PublishInv, StagingIsOwn, StagedSoFar, ProgressSoFar, durable,
         Owns, Whole
    <2> QED
      BY Zenon, <2>1, BuildingKeeps, MovingKeeps, CreatingKeeps, RenamingKeeps,
         ReturningKeeps, SurroundingsKeep DEF Next
  <1> QED BY <1>1, <1>2, PTL DEF Spec

(* Every step of a command keeps the types of the state (migrate, import,
   export and the OVM migration). *)
THEOREM TypeCorrect == Spec => []TypeOK
  BY Inductive, PTL

(* A running command's staging directory is its own (os.MkdirTemp, Abort). *)
THEOREM StagingCorrect == Spec => []StagingIsOwn
  <1>1. PublishInv => StagingIsOwn
    BY Zenon DEF PublishInv
  <1> QED BY <1>1, Inductive, PTL

(* What a command put at the output path is complete, power losses included
   (the order of the syncs and the rename in Commit). *)
THEOREM PublishedCorrect == Spec => []PublishedIsWhole
  <1>1. PublishInv => PublishedIsWhole
    BY Zenon DEF PublishInv, PublishedIsWhole
  <1> QED BY <1>1, Inductive, PTL

(* The invariant carries the steps to the contract: the rename is the
   publication, the parent's sync settles it, and what a command returns is
   what the contract lets it report. *)
LEMMA ContractStep ==
    ASSUME TypeOK, PublishInv, TypeOK', [Next]_vars
    PROVE  [Contract!Next]_(Contract!vars)
  <1> USE PublishAssumption DEF TypeOK, Stages, Active, Building, Committing
  <1> DEFINE same == UNCHANGED <<final, output, unsynced>>
  <1>0. ASSUME NEW p \in Commands, stage[p] # "done", stage'[p] # "done", same,
               \A q \in Commands \ {p} : stage'[q] = stage[q], 
               \A q \in Commands \ {p} : err'[q] = err[q]
        PROVE  UNCHANGED Contract!vars
    BY <1>0 DEF Contract!vars, Told, Whole, durable
  <1>1. ASSUME NEW p \in Commands, NEW result \in {"ok", "unknown", "failed"},
               stage[p] # "done", stage'[p] = "done", UNCHANGED <<final, output>>,
               durable' \in {durable, TRUE}, Told'[p] = result,
               \A q \in Commands \ {p} : stage'[q] = stage[q],
               \A q \in Commands \ {p} : err'[q] = err[q],
               result = "ok" => final = p /\ durable,
               result = "unknown" => final = p,
               result = "failed" => final # p
        PROVE  Contract!Next
    <2>1. Told[p] = "nothing" /\ Told' = [Told EXCEPT ![p] = result]
      <3>1. \A q \in Commands \ {p} : Told'[q] = Told[q]
        BY <1>1 DEF Told
      <3>2. Told[p] = "nothing"
        BY Zenon, <1>1 DEF Told
      <3>3. /\ Told' = [q \in Commands |-> Told'[q]]
            /\ Told = [q \in Commands |-> Told[q]]
        BY DEF Told
      <3> HIDE DEF Told
      <3> QED BY <1>1, <3>1, <3>2, <3>3
    <2>2. Contract!Report(p, result)
      BY Zenon, <1>1, <2>1 DEF Contract!Report, Whole
    <2> QED BY <2>2 DEF Contract!Next
  <1>2. CASE UNCHANGED vars
    <2>1. durable' = durable /\ Whole(output)' = Whole(output) /\ Told' = Told
      BY <1>2 DEF vars, Told, Whole, durable
    <2> QED BY Zenon, <1>2, <2>1 DEF vars, Contract!vars
  <1>3. ASSUME NEW p \in Commands,
               \/ Build(p) \/ Seal(p) \/ Verify(p) \/ Confirm(p) \/ Report(p)
               \/ BeforeCommit(p) \/ CommitSync(p) \/ SyncParentFails(p) \/ Fail(p)
               \/ Cancel(p) \/ Kill(p)
        PROVE  UNCHANGED Contract!vars
    BY <1>0, <1>3 DEF Build, Seal, Verify, Confirm, Report, BeforeCommit, CommitSync,
       SyncParentFails, Fail, Failed, Cancel, Kill, Rewrite, Goto, disk, AfterBuild,
       AfterSeal, AfterVerify, AfterConfirm
  <1>4. ASSUME NEW p \in Commands, Inspect(p) PROVE [Contract!Next]_(Contract!vars)
    <2>1. CASE final = "none"
      <3>1. stage[p] # "done" /\ stage'[p] # "done"
        BY ZenonT(60), <1>4, <2>1 DEF Inspect, Goto
      <3>2. /\ \A q \in Commands \ {p} : stage'[q] = stage[q]
            /\ \A q \in Commands \ {p} : err'[q] = err[q]
        <4>1. stage' = [stage EXCEPT ![p] = "create"] /\ err' = err
          BY Zenon, <1>4, <2>1 DEF Inspect, Goto
        <4> QED BY <4>1
      <3>3. same
        BY Zenon, <1>4 DEF Inspect, disk
      <3> HIDE DEF same
      <3> QED BY Zenon, <1>0, <3>1, <3>2, <3>3
    <2>2. CASE final # "none"
      <3>1. final # p
        BY Zenon, <1>4 DEF Inspect, PublishInv, ProgressSoFar
      <3>2. Told'[p] = "failed"
        BY <1>4, <2>2 DEF Inspect, Goto, Told
      <3> QED BY <1>1, <1>4, <2>2, <3>1, <3>2 DEF Inspect, Goto, disk, durable
    <2> QED BY Zenon, <2>1, <2>2
  <1>5. ASSUME NEW p \in Commands, Create(p) PROVE [Contract!Next]_(Contract!vars)
    <2>1. Told' = Told
      BY Zenon, <1>5 DEF Create, Goto, Told
    <2>2. Contract!Settle
      BY Zenon, <1>5, <2>1 DEF Create, Contract!Settle, Whole, durable
    <2> QED BY Zenon, <2>2 DEF Contract!Next
  <1>6. ASSUME NEW p \in Commands, CreateFails(p) PROVE Contract!Next
    <2>1. final # p
      BY <1>6 DEF CreateFails, PublishInv, ProgressSoFar
    <2>2. Told'[p] = "failed"
      BY <1>6 DEF CreateFails, Goto, Told
    <2>3. /\ stage[p] # "done" /\ stage'[p] = "done" /\ UNCHANGED <<final, output>>
          /\ \A q \in Commands \ {p} : stage'[q] = stage[q]
          /\ \A q \in Commands \ {p} : err'[q] = err[q]
      BY <1>6 DEF CreateFails, Goto
    <2>4. durable' \in {durable, TRUE}
      BY <1>6, Zenon DEF CreateFails, durable
    <2> QED BY ZenonT(60), <1>1, <2>1, <2>2, <2>3, <2>4
  <1>7. ASSUME NEW p \in Commands, Rename(p) PROVE Contract!Next
    <2>1. Told' = Told /\ Told[p] = "nothing"
      BY <1>7 DEF Rename, Goto, Told
    <2>2. Whole(output)'
      BY Zenon, <1>7 DEF Rename, PublishInv, StagedSoFar, Whole
    <2>3. Contract!Publish(p)
      BY Zenon, <1>7, <2>1, <2>2 DEF Rename, Contract!Publish, durable
    <2> QED BY Zenon, <2>3 DEF Contract!Next
  <1>8. ASSUME NEW p \in Commands, SyncParent(p) PROVE Contract!Next
    <2>1. Told' = Told
      BY Zenon, <1>8 DEF SyncParent, Goto, Told
    <2>2. Contract!Settle
      BY ZenonT(60), <1>8, <2>1 DEF SyncParent, Contract!Settle, Whole, durable
    <2> QED BY Zenon, <2>2 DEF Contract!Next
  <1>9. ASSUME NEW p \in Commands, Return(p) PROVE Contract!Next
    <2>1. ProgressSoFar(p) /\ (final \in Commands => committed[final])
      BY Zenon DEF PublishInv
    <2>2. Told'[p] = IF err[p] = "none" THEN "ok"
                     ELSE IF err[p] = "unknown" THEN "unknown" ELSE "failed"
      BY <1>9 DEF Return, Goto, Told
    <2>3. durable' = durable /\ UNCHANGED <<final, output>>
      BY <1>9, <2>1 DEF Return, Abort, ProgressSoFar, durable
    <2> QED BY <1>1, <1>9, <2>1, <2>2, <2>3 DEF Return, Goto, ProgressSoFar
  <1>10. ASSUME NEW p \in Commands, ReturnUncleaned(p) PROVE Contract!Next
    <2>1. final # p
      BY <1>10 DEF ReturnUncleaned, PublishInv
    <2>2. Told'[p] = "failed"
      BY <1>10 DEF ReturnUncleaned, Goto, Told
    <2>3. durable' = durable
      BY Zenon, <1>10 DEF ReturnUncleaned, disk, durable
    <2> QED BY <1>1, <1>10, <2>1, <2>2, <2>3 DEF ReturnUncleaned, Goto, disk
  <1>11. CASE Foreign
    BY Zenon, <1>11 DEF Foreign, Contract!Next, Contract!Foreign, Told, Whole, durable
  <1>12. CASE PowerLoss
    <2>1. Told' = Told
      BY Zenon, <1>12 DEF PowerLoss, Told
    <2>2. CASE final' = final /\ output' = output
      BY Zenon, <1>12, <2>1, <2>2 DEF PowerLoss, Contract!Next, Contract!Settle, Whole, durable
    <2>3. CASE final' = "none" /\ ~durable
      <3>1. Whole(output)' \in BOOLEAN
        BY Zenon DEF Whole
      <3> QED BY Zenon, <1>12, <2>1, <2>3, <3>1 DEF PowerLoss, Contract!Next, Contract!Undo, durable
    <2> QED BY Zenon, <1>12, <2>2, <2>3, SyncedRemains DEF PowerLoss, PublishInv
  <1> QED
    BY ZenonT(60), <1>2, <1>3, <1>4, <1>5, <1>6, <1>7, <1>8, <1>9, <1>10, <1>11, <1>12 DEF Next

(* The commands implement the contract of PublishContract: nothing is replaced,
   nothing half-built appears, and results are honest. *)
THEOREM ContractCorrect == Spec => ImplementsContract
  <1>1. Init => Contract!Init
    BY Zenon DEF Init, Contract!Init, Told, Whole, durable
  <1>2. TypeOK /\ PublishInv /\ TypeOK' /\ [Next]_vars => [Contract!Next]_(Contract!vars)
    BY Zenon, ContractStep
  <1> QED BY <1>1, <1>2, Inductive, PTL DEF Spec, ImplementsContract, Contract!Spec

-----------------------------------------------------------------------------
(* The steps of one command leave the others' cancellation and progress alone. *)
LEMMA CancelStep == TypeOK /\ PublishInv /\ CancelInv /\ [Next]_vars => CancelInv'
  <1> SUFFICES ASSUME TypeOK, PublishInv, CancelInv, [Next]_vars PROVE CancelInv'
    OBVIOUS
  <1> USE DEF TypeOK, CancelInv, Committing, Goto, disk
  <1>1. ASSUME NEW p \in Commands,
               \/ Build(p) \/ Seal(p) \/ Verify(p) \/ Confirm(p) \/ Report(p) \/ CommitSync(p)
        PROVE  CancelInv'
    BY <1>1 DEF Build, Seal, Verify, Confirm, Report, CommitSync, Rewrite,
       AfterBuild, AfterSeal, AfterVerify, AfterConfirm
  <1>2. ASSUME NEW p \in Commands, Inspect(p) PROVE CancelInv'
    BY <1>2 DEF Inspect
  <1>3. ASSUME NEW p \in Commands, Create(p) \/ CreateFails(p) PROVE CancelInv'
    <2>1. /\ UNCHANGED <<committed, canceled, late>>
          /\ stage' \in {[stage EXCEPT ![p] = "build"], [stage EXCEPT ![p] = "done"]}
      BY Zenon, <1>3 DEF Create, CreateFails
    <2> QED BY <2>1
  <1>4. ASSUME NEW p \in Commands, BeforeCommit(p) PROVE CancelInv'
    BY <1>4 DEF BeforeCommit, Live
  <1>5. ASSUME NEW p \in Commands, Rename(p) PROVE CancelInv'
    BY <1>5 DEF Rename
  <1>6. ASSUME NEW p \in Commands,
               \/ SyncParent(p) \/ SyncParentFails(p) \/ Fail(p) \/ Return(p)
               \/ ReturnUncleaned(p) \/ Kill(p)
        PROVE  CancelInv'
    BY <1>6 DEF SyncParent, SyncParentFails, Fail, Failed, Return, ReturnUncleaned, Kill
  <1>7. ASSUME NEW p \in Commands, Cancel(p) PROVE CancelInv'
    BY Zenon, <1>7 DEF Cancel, PublishInv, ProgressSoFar, durable, Building
  <1>8. CASE Foreign \/ PowerLoss
    BY <1>8 DEF Foreign, PowerLoss
  <1>9. CASE UNCHANGED vars
    BY Zenon, <1>9 DEF vars
  <1> QED  BY Zenon, <1>1, <1>2, <1>3, <1>4, <1>5, <1>6, <1>7, <1>8, <1>9 DEF Next

(* A command that was cancelled before Commit began never publishes. *)
THEOREM CanceledCorrect == Spec => []CanceledNeverPublishes
  <1>1. Init => CancelInv
    BY Zenon DEF Init, CancelInv
  <1>2. CancelInv => CanceledNeverPublishes
    BY Zenon DEF CancelInv, CanceledNeverPublishes
  <1> QED BY <1>1, <1>2, CancelStep, Inductive, PTL DEF Spec

(* A staging directory keeps its witness: the command that uses it, died with
   it or reports that it could not remove it. *)
LEMMA CleanStep == TypeOK /\ PublishInv /\ CleansUp /\ [Next]_vars => CleansUp'
  <1> SUFFICES ASSUME TypeOK, PublishInv, CleansUp, [Next]_vars,
                      NEW n \in staged'
               PROVE  \E q \in Commands :
                        /\ temp'[q] = n
                        /\ \/ Owns(q)' \/ stage'[q] = "killed" \/ err'[q] = "uncleaned"
                           \/ q \in revived' /\ err'[q] # "none"
    BY Zenon DEF CleansUp
  <1> DEFINE Has(q) == /\ temp[q] = n
                       /\ \/ Owns(q) \/ stage[q] = "killed" \/ err[q] = "uncleaned"
                          \/ q \in revived /\ err[q] # "none"
  <1>0. n \in staged => \E q \in Commands : Has(q)
    BY Zenon DEF CleansUp
  <1> USE DEF TypeOK, Owns, Goto, disk
  <1>1. ASSUME NEW p \in Commands,
               \/ Build(p) \/ Seal(p) \/ Verify(p) \/ Confirm(p) \/ Report(p) \/ CommitSync(p)
        PROVE  \E q \in Commands : Has(q)'
    BY <1>0, <1>1 DEF Build, Seal, Verify, Confirm, Report, CommitSync, Rewrite,
       AfterBuild, AfterSeal, AfterVerify, AfterConfirm, Active, Building, Committing
  <1>2. ASSUME NEW p \in Commands, Inspect(p) \/ CreateFails(p) \/ BeforeCommit(p)
        PROVE  \E q \in Commands : Has(q)'
    <2>1. CASE BeforeCommit(p)
      BY Zenon, <1>0, <2>1 DEF BeforeCommit, Active, Building, Committing
    <2>2. CASE Inspect(p) \/ CreateFails(p)
      <3>1. ~Has(p)
        BY Zenon, <2>2 DEF Inspect, CreateFails, PublishInv, ProgressSoFar, durable,
           Active, Building, Committing
      <3>2. /\ UNCHANGED <<temp, committed, staged, revived>>
            /\ \A q \in Commands \ {p} : stage'[q] = stage[q] /\ err'[q] = err[q]
        BY Zenon, <2>2 DEF Inspect, CreateFails
      <3> QED BY ZenonT(60), <1>0, <3>1, <3>2
    <2> QED BY Zenon, <1>2, <2>1, <2>2
  <1>3. ASSUME NEW p \in Commands, Create(p)
        PROVE  \E q \in Commands : Has(q)'
    <2>1. PICK m \in Names : temp' = [temp EXCEPT ![p] = m]
      BY Zenon, <1>3 DEF Create, MkdirTemp
    <2>2. CASE n = m
      BY ZenonT(60), <1>3, <2>1, <2>2 DEF Create, PublishInv, ProgressSoFar, durable,
         Active, Building
    <2>3. CASE n # m
      BY <1>0, <1>3, <2>1, <2>3 DEF Create, PublishInv, ProgressSoFar, durable, Active,
         Building, Committing
    <2> QED BY Zenon, <2>2, <2>3
  <1>4. ASSUME NEW p \in Commands, Rename(p)
        PROVE  \E q \in Commands : Has(q)'
    BY ZenonT(60), <1>0, <1>4 DEF Rename
  <1>5. ASSUME NEW p \in Commands,
               \/ SyncParent(p) \/ SyncParentFails(p) \/ Fail(p) \/ Kill(p)
        PROVE  \E q \in Commands : Has(q)'
    BY <1>0, <1>5 DEF SyncParent, SyncParentFails, Fail, Failed, Kill, PublishInv,
       ProgressSoFar, durable, Active, Building, Committing
  <1>6. ASSUME NEW p \in Commands, Return(p) \/ ReturnUncleaned(p)
        PROVE  \E q \in Commands : Has(q)'
    BY <1>0, <1>6 DEF Return, ReturnUncleaned, Abort, PublishInv, ProgressSoFar, durable
  <1>7. CASE (\E p \in Commands : Cancel(p)) \/ Foreign
    BY <1>0, <1>7 DEF Cancel, Foreign
  <1>8. CASE PowerLoss
    <2>1. PICK back \in SUBSET unsynced, kept \in SUBSET staged :
              /\ staged' = kept \cup {temp[q] : q \in back}
              /\ revived' = revived \cup back
      BY Zenon, <1>8 DEF PowerLoss, Undoable
    <2>2. n \in staged \/ \E q \in back : n = temp[q]
      BY Zenon, <2>1
    <2>3. /\ temp' = temp /\ committed' = committed /\ err' = err
          /\ \A q \in Commands : stage'[q] = IF stage[q] \in Active \cup {"create"}
                                             THEN "killed" ELSE stage[q]
      BY Zenon, <1>8 DEF PowerLoss
    <2>4. CASE n \in staged
      BY Zenon, <1>0, <2>1, <2>3, <2>4
    <2>5. ASSUME NEW q \in back, n = temp[q] PROVE \E r \in Commands : Has(r)'
      <3>1. q \in Commands /\ q \in unsynced /\ q \in revived'
        BY Zenon, <2>1, <2>5
      <3>2. err[q] = "none" => stage[q] \in {"syncParent", "killed"}
        BY Zenon, <3>1 DEF PublishInv, ProgressSoFar
      <3> QED BY Zenon, <2>3, <2>5, <3>1, <3>2 DEF Active, Committing
    <2> QED BY Zenon, <2>2, <2>4, <2>5
  <1>9. CASE UNCHANGED vars
    BY Zenon, <1>0, <1>9 DEF vars
  <1> QED BY Zenon, <1>1, <1>2, <1>3, <1>4, <1>5, <1>6, <1>7, <1>8, <1>9 DEF Next

(* A staging directory outlives its command only when the command was killed,
   or reports that it could not remove it (atomicDir.Abort). *)
THEOREM CleanupCorrect == Spec => []CleansUp
  <1>1. Init => CleansUp
    BY Zenon DEF Init, CleansUp
  <1> QED BY <1>1, CleanStep, Inductive, PTL DEF Spec

=============================================================================
