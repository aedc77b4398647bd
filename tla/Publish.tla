------------------------------- MODULE Publish -------------------------------
(***************************************************************************)
(* How migrate, import, export and the OVM migration build an output       *)
(* directory and publish it (atomicdir.go, publish_artifact.go and the     *)
(* command functions in migrate.go, import.go, export.go, ovm_migrate.go). *)
(* Several commands aim at one output path.  Each stages its work in a     *)
(* sibling directory of its own, seals and verifies it, writes the report  *)
(* and renames the directory into place without replacing anything.        *)
(*                                                                         *)
(* The file system is modelled down to what a power loss may undo: file    *)
(* contents and directory entries that were not synced may be lost, and    *)
(* until the parent directory is synced a rename may be undone, and a      *)
(* removed staging directory may come back.  A command may fail at any     *)
(* step, be cancelled, or be killed; somebody else may create the output   *)
(* path at any time.                                                       *)
(***************************************************************************)
EXTENDS Naturals, FiniteSets

CONSTANTS
    Commands,    \* concurrent or successive invocations with one output path
    Names,       \* the names os.MkdirTemp can draw for a staging directory
    MaxLosses    \* bound on power losses

ASSUME PublishAssumption ==
    /\ MaxLosses \in Nat
    /\ {"none", "foreign"} \cap Commands = {}
    /\ "none" \notin Names

VARIABLES
    kind,       \* what each command does
    stage,      \* the next step of each command
    temp,       \* atomicDir.temp
    committed,  \* atomicDir.committed
    canceled,   \* whether its context is cancelled
    err,        \* the error it returns, or carries to its deferred calls
    staged,     \* the staging directories that exist
    dirs,       \* their contents
    final,      \* what is at the output path: nothing, somebody's, a command's
    output,     \* its content, when a command published it
    unsynced,   \* commands whose staging directory was renamed or removed, and
                \* the parent directory was not synced since
    late,       \* commands cancelled only once Commit had begun
    revived,    \* commands whose staging directory a power loss brought back
    losses      \* power losses so far

vars == <<kind, stage, temp, committed, canceled, err, staged, dirs, final,
          output, unsynced, late, revived, losses>>

disk == <<staged, dirs, final, output, unsynced>>

\* Whether the entry at the output path survives a power loss.
durable == final \notin unsynced

Kinds == {"migrate", "import", "export", "ovm"}

\* The steps of a command, in no particular order.
Building == {"build", "confirm", "seal", "verify", "report", "check"}
Committing == {"commit", "rename", "syncParent"}
Active == Building \cup Committing \cup {"return"}
Stages == {"idle", "create", "done", "killed"} \cup Active

\* A staged directory: the state data (database or bundle stream), the report
\* (or manifest), the private workspace, whether the data was checked against
\* what was built, and whether the directory's entries are synced.
File == {"absent", "written", "synced", "lost"}
Artifact == [data : File, report : File, work : BOOLEAN, verified : BOOLEAN,
             entries : BOOLEAN]
Empty == [data |-> "absent", report |-> "absent", work |-> FALSE,
          verified |-> FALSE, entries |-> FALSE]

Init ==
    /\ kind \in [Commands -> Kinds]
    /\ stage = [p \in Commands |-> "idle"]
    /\ temp = [p \in Commands |-> "none"]
    /\ committed = [p \in Commands |-> FALSE]
    /\ canceled = [p \in Commands |-> FALSE]
    /\ err = [p \in Commands |-> "none"]
    /\ staged = {}
    /\ dirs = [n \in Names |-> Empty]
    /\ final = "none"
    /\ output = Empty
    /\ unsynced = {}
    /\ late = {}
    /\ revived = {}
    /\ losses = 0

-----------------------------------------------------------------------------
(* Sequencing.                                                             *)

Goto(p, s) == stage' = [stage EXCEPT ![p] = s]

\* The command returns e after its deferred calls.
Failed(p, e) ==
    /\ Goto(p, "return")
    /\ err' = [err EXCEPT ![p] = e]

\* A step that changes nothing but p's staging directory.
Rewrite(p, dir) ==
    /\ dirs' = [dirs EXCEPT ![temp[p]] = dir]
    /\ UNCHANGED <<kind, temp, committed, canceled, err, staged, final, output,
                   unsynced, late, revived, losses>>

\* ctx.Err() is nil.
Live(p) == ~canceled[p]

\* The order of the steps differs between the commands.
AfterBuild(k) == IF k = "migrate" THEN "confirm" ELSE "seal"
AfterSeal(k) == IF k = "export" THEN "confirm" ELSE "verify"
AfterVerify(k) == IF k = "ovm" THEN "confirm" ELSE "report"
AfterConfirm(k) == IF k = "migrate" THEN "seal" ELSE "report"

-----------------------------------------------------------------------------
(* newAtomicDirWithOps.                                                    *)

\* The output path must not exist.  An existing one ends the command.
Inspect(p) ==
    /\ stage[p] = "idle"
    /\ IF final = "none"
         THEN Goto(p, "create") /\ err' = err
         ELSE Goto(p, "done") /\ err' = [err EXCEPT ![p] = "failed"]
    /\ UNCHANGED <<kind, temp, committed, canceled, late, revived, losses, disk>>

\* os.MkdirTemp draws a name that is not taken.
MkdirTemp(p) == temp' \in {[temp EXCEPT ![p] = n] : n \in Names \ staged}

\* The parent is synced, which also settles earlier renames and removals in it,
\* the no-replace rename is probed on two directories of its own, and the
\* staging directory is created.
Create(p) ==
    /\ stage[p] = "create"
    /\ MkdirTemp(p)
    /\ staged' = staged \cup {temp'[p]}
    /\ dirs' = [dirs EXCEPT ![temp'[p]] = Empty]
    /\ unsynced' = {}
    /\ Goto(p, "build")
    /\ UNCHANGED <<kind, committed, canceled, err, final, output, late, revived, losses>>

\* Syncing the parent or probing the rename fails: nothing was staged.
CreateFails(p) ==
    /\ stage[p] = "create"
    /\ Goto(p, "done")
    /\ err' = [err EXCEPT ![p] = "failed"]
    /\ unsynced' \in {unsynced, {}}
    /\ UNCHANGED <<kind, temp, committed, canceled, staged, dirs, final, output,
                   late, revived, losses>>

-----------------------------------------------------------------------------
(* Building the artifact in the staging directory.                         *)

\* The database, or the bundle's state file, is created and filled.  The OVM
\* migration works in a subdirectory .ovm-work of its own.
Build(p) ==
    /\ stage[p] = "build"
    /\ Live(p)
    /\ Rewrite(p, [Empty EXCEPT !.data = "written", !.work = kind[p] = "ovm"])
    /\ Goto(p, AfterBuild(kind[p]))

\* finalizeTargetDatabase: sync, close, sync the files and their directory.
\* An export closes the record writer, which syncs the stream, and compares
\* its counts with the traversal's.
Seal(p) ==
    /\ stage[p] = "seal"
    /\ Live(p)
    /\ Rewrite(p, [dirs[temp[p]] EXCEPT !.data = "synced",
                                        !.verified = kind[p] = "export"])
    /\ Goto(p, AfterSeal(kind[p]))

\* verifyTargetDatabase on the closed database, and the comparison of its
\* result with the state that was written.  Its index workspace is removed
\* before it returns.
Verify(p) ==
    /\ stage[p] = "verify"
    /\ Live(p)
    /\ Rewrite(p, [dirs[temp[p]] EXCEPT !.verified = TRUE])
    /\ Goto(p, AfterVerify(kind[p]))

\* ConfirmStableAndClose: the source's head is unchanged.  Only an export looks
\* at the context first.  The OVM migration then removes its work directory.
Confirm(p) ==
    /\ stage[p] = "confirm"
    /\ kind[p] = "export" => Live(p)
    /\ Rewrite(p, [dirs[temp[p]] EXCEPT !.work = FALSE])
    /\ Goto(p, AfterConfirm(kind[p]))

\* The report, or the manifest, is written, synced, read back and compared.
\* publishArtifact looks at the context, finalizeExportBundle does not.
Report(p) ==
    /\ stage[p] = "report"
    /\ kind[p] # "export" => Live(p)
    /\ Rewrite(p, [dirs[temp[p]] EXCEPT !.report = "synced"])
    /\ Goto(p, "check")

\* beforeCommit (the output is still outside the inputs) and the last look at
\* the context.
M2_BeforeCommit(p) ==
    /\ stage[p] = "check"
    /\ Goto(p, "commit")
    /\ UNCHANGED <<kind, temp, committed, canceled, err, late, revived, losses, disk>>
BeforeCommit(p) ==
    /\ stage[p] = "check"
    /\ Live(p)
    /\ Goto(p, "commit")
    /\ UNCHANGED <<kind, temp, committed, canceled, err, late, revived, losses, disk>>

-----------------------------------------------------------------------------
(* atomicDir.Commit and atomicDir.Abort.                                   *)

\* The output path must still be free; the staging directory is synced.
M3_CommitSync(p) ==
    /\ stage[p] = "commit"
    /\ final = "none"
    /\ Rewrite(p, dirs[temp[p]])
    /\ Goto(p, "rename")
CommitSync(p) ==
    /\ stage[p] = "commit"
    /\ final = "none"
    /\ Rewrite(p, [dirs[temp[p]] EXCEPT !.entries = TRUE])
    /\ Goto(p, "rename")

\* The rename that never replaces.  It takes the directory with its content.
M4_Rename(p) ==
    /\ stage[p] = "rename"
    /\ final' = p
    /\ output' = dirs[temp[p]]
    /\ staged' = staged \ {temp[p]}
    /\ dirs' = [dirs EXCEPT ![temp[p]] = Empty]
    /\ unsynced' = unsynced \cup {p}
    /\ committed' = [committed EXCEPT ![p] = TRUE]
    /\ Goto(p, "syncParent")
    /\ UNCHANGED <<kind, temp, canceled, err, late, revived, losses>>
Rename(p) ==
    /\ stage[p] = "rename"
    /\ final = "none"
    /\ final' = p
    /\ output' = dirs[temp[p]]
    /\ staged' = staged \ {temp[p]}
    /\ dirs' = [dirs EXCEPT ![temp[p]] = Empty]
    /\ unsynced' = unsynced \cup {p}
    /\ committed' = [committed EXCEPT ![p] = TRUE]
    /\ Goto(p, "syncParent")
    /\ UNCHANGED <<kind, temp, canceled, err, late, revived, losses>>

\* The parent is synced: the publication is durable.
SyncParent(p) ==
    /\ stage[p] = "syncParent"
    /\ unsynced' = {}
    /\ Goto(p, "return")
    /\ UNCHANGED <<kind, temp, committed, canceled, err, staged, dirs, final,
                   output, late, revived, losses>>

\* Syncing the parent fails after the rename: a PublicationDurabilityError.
SyncParentFails(p) ==
    /\ stage[p] = "syncParent"
    /\ Failed(p, "unknown")
    /\ UNCHANGED <<kind, temp, committed, canceled, late, revived, losses, disk>>

\* Any other step fails: an I/O error, a mismatch, the cancelled context, or an
\* output path that appeared meanwhile.
Fail(p) ==
    /\ stage[p] \in Building \cup {"commit", "rename"}
    /\ Failed(p, "failed")
    /\ UNCHANGED <<kind, temp, committed, canceled, late, revived, losses, disk>>

\* Abort removes the staging directory unless it was published.  It does not
\* sync the parent.
M6_Abort(p) ==
    IF committed[p] \/ canceled[p]
      THEN UNCHANGED <<staged, unsynced>>
      ELSE staged' = staged \ {temp[p]} /\ unsynced' = unsynced \cup {p}
Abort(p) ==
    IF committed[p]
      THEN UNCHANGED <<staged, unsynced>>
      ELSE staged' = staged \ {temp[p]} /\ unsynced' = unsynced \cup {p}

\* The deferred calls, and the return of the command.
Return(p) ==
    /\ stage[p] = "return"
    /\ Abort(p)
    /\ dirs' = [n \in Names |-> IF n \in staged' THEN dirs[n] ELSE Empty]
    /\ Goto(p, "done")
    /\ UNCHANGED <<kind, temp, committed, canceled, err, final, output, late,
                   revived, losses>>

\* os.RemoveAll fails; its error is joined to the one being returned.
ReturnUncleaned(p) ==
    /\ stage[p] = "return"
    /\ ~committed[p]
    /\ err' = [err EXCEPT ![p] = "uncleaned"]
    /\ Goto(p, "done")
    /\ UNCHANGED <<kind, temp, committed, canceled, late, revived, losses, disk>>

-----------------------------------------------------------------------------
(* The surroundings.                                                       *)

\* A signal cancels the command's context.
Cancel(p) ==
    /\ stage[p] \in Building \cup Committing
    /\ Live(p)
    /\ canceled' = [canceled EXCEPT ![p] = TRUE]
    /\ late' = IF stage[p] \in Committing THEN late \cup {p} ELSE late
    /\ UNCHANGED <<kind, stage, temp, committed, err, revived, losses, disk>>

Kill(p) ==
    /\ stage[p] \in Active
    /\ Goto(p, "killed")
    /\ UNCHANGED <<kind, temp, committed, canceled, err, late, revived, losses, disk>>

\* Somebody else creates the output path.
Foreign ==
    /\ final = "none"
    /\ final' = "foreign"
    /\ UNCHANGED <<kind, stage, temp, committed, canceled, err, staged, dirs,
                   output, unsynced, late, revived, losses>>

\* What a power loss leaves of a directory.  A file keeps its content when both
\* the file and the directory entry that names it were synced; a removed
\* workspace may come back until the entries are synced.
Remains(a) ==
    {[a EXCEPT !.data = d, !.report = r, !.work = w] :
        d \in IF a.entries /\ a.data = "synced" THEN {"synced"} ELSE {a.data, "lost"},
        r \in IF a.entries /\ a.report = "synced" THEN {"synced"} ELSE {a.report, "lost"},
        w \in IF a.entries THEN {a.work} ELSE {a.work, TRUE}}

\* The commands whose staging directory a power loss may bring back: all that
\* are unsynced when the rename at the output path is undone, else the others.
Undoable(undone) == IF undone THEN unsynced ELSE unsynced \ {final}

\* What is in staging directory n after a power loss.  Nobody looks into it any
\* more.  One that was renamed has its content, one that Abort removed is empty.
Restored(n) ==
    IF n \in staged THEN dirs[n]
    ELSE IF ~durable /\ n = temp[final] THEN output ELSE Empty

\* Every command dies.  A staging directory may be gone, since nothing synced
\* its entry; a rename whose parent was not synced may be undone, and so may a
\* removal.  An undone one leaves the staging directory under its old name.
PowerLoss ==
    /\ losses < MaxLosses
    /\ losses' = losses + 1
    /\ stage' = [p \in Commands |->
                    IF stage[p] \in Active \cup {"create"} THEN "killed" ELSE stage[p]]
    /\ \E undone \in BOOLEAN :
          /\ undone => ~durable
          /\ \E back \in SUBSET Undoable(undone) :
                /\ staged' \in {kept \cup {temp[p] : p \in back} : kept \in SUBSET staged}
                /\ revived' = revived \cup back
          /\ dirs' = [n \in Names |-> IF n \in staged' THEN Restored(n) ELSE Empty]
          /\ final' = IF undone THEN "none" ELSE final
          /\ output' \in IF undone THEN {Empty}
                         ELSE IF final \in Commands THEN Remains(output) ELSE {output}
    /\ unsynced' = {}
    /\ UNCHANGED <<kind, temp, committed, canceled, err, late>>

Next ==
    \/ \E p \in Commands :
          \/ Inspect(p) \/ Create(p) \/ CreateFails(p)
          \/ Build(p) \/ Seal(p) \/ Verify(p) \/ Confirm(p) \/ Report(p)
          \/ BeforeCommit(p) \/ CommitSync(p) \/ Rename(p)
          \/ SyncParent(p) \/ SyncParentFails(p) \/ Fail(p)
          \/ Return(p) \/ ReturnUncleaned(p) \/ Cancel(p) \/ Kill(p)
    \/ Foreign
    \/ PowerLoss

Spec == Init /\ [][Next]_vars

-----------------------------------------------------------------------------
(* Properties.                                                             *)

\* The variables keep the types of the Go values they stand for.
TypeOK ==
    /\ kind \in [Commands -> Kinds]
    /\ stage \in [Commands -> Stages]
    /\ temp \in [Commands -> Names \cup {"none"}]
    /\ committed \in [Commands -> BOOLEAN]
    /\ canceled \in [Commands -> BOOLEAN]
    /\ err \in [Commands -> {"none", "failed", "unknown", "uncleaned"}]
    /\ staged \subseteq Names
    /\ dirs \in [Names -> Artifact]
    /\ final \in Commands \cup {"none", "foreign"}
    /\ output \in Artifact
    /\ unsynced \subseteq Commands
    /\ late \subseteq Commands
    /\ revived \subseteq Commands
    /\ losses \in 0..MaxLosses

\* A complete output: data and report on disk, the data verified, and none of
\* the private workspace left.
Whole(a) ==
    /\ a.data = "synced" /\ a.report = "synced"
    /\ a.verified
    /\ ~a.work

\* A command is using its staging directory.
Owns(p) == stage[p] \in Active /\ ~committed[p]

\* Whatever a command put at the output path is complete, at the moment it
\* appears and after any later power loss: data and report were synced, then
\* the staging directory's entries, and only then was it renamed (Commit).
PublishedIsWhole == final \in Commands => Whole(output)

\* A running command's staging directory exists and is no other command's:
\* neither os.MkdirTemp nor the Abort of a command that has failed, or has
\* already published, reaches into it.
StagingIsOwn ==
    /\ \A p \in Commands : Owns(p) => temp[p] \in staged
    /\ \A p, q \in Commands : Owns(p) /\ Owns(q) /\ p # q => temp[p] # temp[q]

\* The staging directory at each step of its command.
StagedSoFar(p) ==
    LET a == dirs[temp[p]] s == stage[p] IN
    /\ s = "confirm" /\ kind[p] # "migrate" => a.data = "synced" /\ a.verified
    /\ s \in {"seal", "verify"} /\ a.work => kind[p] = "ovm"
    /\ s = "verify" => a.data = "synced"
    /\ s = "report" => a.data = "synced" /\ a.verified /\ ~a.work
    /\ s \in {"check", "commit", "rename"} => Whole(a)
    /\ s = "rename" => a.entries

\* How far a command is, against what it has published and will report.
ProgressSoFar(p) ==
    /\ stage[p] \in {"idle", "create"} \cup Building \cup {"commit", "rename"}
          => ~committed[p] /\ err[p] = "none"
    /\ stage[p] = "syncParent" => committed[p] /\ err[p] = "none" /\ final = p
    /\ stage[p] = "return" =>
          /\ \/ err[p] = "failed" /\ ~committed[p]
             \/ err[p] \in {"none", "unknown"} /\ committed[p] /\ final = p
          /\ err[p] = "none" => durable
    /\ p \in unsynced =>
          /\ temp[p] \in Names
          /\ err[p] = "none" => stage[p] \in {"syncParent", "killed"}

\* The inductive form of the properties below and above: each step finds the
\* staging directory as the steps before it left it, and only a command whose
\* Commit renamed its directory is at the output path.
PublishInv ==
    /\ StagingIsOwn
    /\ \A p \in Commands : StagedSoFar(p) /\ ProgressSoFar(p)
    /\ final \in Commands => committed[final] /\ Whole(output) /\ output.entries

\* A staging directory outlives its command only when the command was killed,
\* could not remove it and says so, or had a power loss undo the removal or the
\* rename after it returned an error: Abort does not sync the parent, and a
\* PublicationDurabilityError means that Commit could not.  The staging directory
\* of a command that succeeded never comes back.
CleansUp ==
    \A n \in staged : \E p \in Commands :
        /\ temp[p] = n
        /\ \/ Owns(p) \/ stage[p] = "killed" \/ err[p] = "uncleaned"
           \/ p \in revived /\ err[p] # "none"

\* A command cancelled before Commit began publishes nothing: publishArtifact
\* and publishExportBundle look at the context once more just before it.
CanceledNeverPublishes ==
    \A p \in Commands : canceled[p] /\ p \notin late => ~committed[p]

\* Its inductive form: such a command never gets as far as Commit.
CancelInv ==
    \A p \in Commands : canceled[p] /\ p \notin late =>
        ~committed[p] /\ stage[p] \notin Committing

\* What a command has told its caller.
Told == [p \in Commands |->
            IF stage[p] # "done" THEN "nothing"
            ELSE IF err[p] = "none" THEN "ok"
            ELSE IF err[p] = "unknown" THEN "unknown" ELSE "failed"]

Contract == INSTANCE PublishContract WITH
                whole <- Whole(output), told <- Told

\* The commands implement the publication contract: the output path goes from
\* nothing to a whole artifact in one step and is never replaced or removed,
\* except that a power loss may undo it while it is not durable; success is
\* reported only for a durable publication, PublicationDurabilityError only
\* for one that took place, and any other error only when there was none.
ImplementsContract == Contract!Spec

=============================================================================
