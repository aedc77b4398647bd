---------------------------- MODULE OVMWorkflow ----------------------------
(***************************************************************************)
(* The OVM commands end to end (ovm_migrate.go, ovm_verify.go): migrate    *)
(* reads the operator's files, converts the source state, confirms that    *)
(* the files are what it read and publishes an artifact with a report;     *)
(* verify replays the conversion and compares.  Both call replayOVMState.  *)
(* The environment rewrites or replaces files while they are read, lets    *)
(* the node move on, and alters the artifact.                              *)
(*                                                                         *)
(* A file's bytes are its version, read in two parts, so a reading is a    *)
(* pair of versions; a digest is the pair it hashes.  What conversion      *)
(* computes (OVMHistory, OVMClassify, OVMBalance, OVMAlloc) is here a      *)
(* record of what it was computed from.  A command is the sequence of      *)
(* steps it still has to take; a failing step leaves only the deferred     *)
(* ones.                                                                   *)
(***************************************************************************)
EXTENDS Integers, Sequences, FiniteSets

CONSTANTS
    Options,         \* the inputs given to migrate and to verify
    MaxDisturbances  \* bound: changes, failures and cancellations together

Inputs == {"audit", "code", "retain", "alloc", "witness"}

ASSUME OVMWorkflowConstants ==
    /\ \A o \in Options : o.migrate \subseteq Inputs /\ o.verify \subseteq Inputs
                          /\ "code" \in o.migrate \cap o.verify
    /\ MaxDisturbances \in Nat

VARIABLES
    files,       \* files[i]: the version of input i on disk
    head,        \* the head of the source database
    artifact,    \* <<>>, or <<the published artifact>>
    options,
    cmd, todo,   \* the command, and its steps to come
    reader,      \* the input being read: what its handle shows
    inputs,      \* ovmInputs: what was parsed and the digest kept for the report
    source,      \* the head read when the source was opened
    open, dirs,  \* database handles, and directories of the command
    converted, recomputed, stored, \* state, replay's report, artifact's report
    err, cancelled,
    disturbances,
    tampered,    \* history: was the artifact altered, "before" or "during" verify?
    atConfirm    \* history: files when the last confirmation began

env == <<files, head, artifact, options, tampered>>
replay == <<inputs, source, open, dirs, converted, recomputed, stored>>
vars == <<env, cmd, todo, reader, replay, err, cancelled, disturbances, atConfirm>>

Given == options[cmd]
NoBytes == <<0, 0>>  \* an input that is not given; an absent witness hashes as empty
Closed == [open |-> FALSE, attached |-> FALSE, first |-> 0, view |-> 0]

-----------------------------------------------------------------------------
(* The steps of the commands, in the order of the code.  The deferred steps
   stand where they run. *)

Prepare == << <<"read", "audit">>, <<"read", "code">>, <<"open", "source">>,
              <<"open", "base">>, <<"open", "index">>, <<"read", "retain">>,
              <<"read", "alloc">>, <<"read", "witness">> >>

confirmOVMInputs(what) ==
    << <<what, "audit">>, <<what, "retain">>, <<what, "alloc">>, <<what, "code">>,
       <<what, "witness">> >>

FinishState(persistTarget) ==
    (IF persistTarget THEN << <<"open", "final">> >> ELSE <<>>) \o << <<"finish", "state">> >>

(* Deferred by replayOVMState: w.close() and then the removal of .ovm-work.  M4
   has them the other way round. *)
M4_CloseAndRemove == << <<"remove", "work">>, <<"close", "handles">> >>
CloseAndRemove == << <<"close", "handles">>, <<"remove", "work">> >>

replayOVMState(persistTarget) ==
    << <<"make", "work">> >> \o Prepare
      \o << <<"lanes", "original">>, <<"reopen", "base">>, <<"open", "base">>,
            <<"convert", "state">> >>
      \o FinishState(persistTarget)
      \o confirmOVMInputs("confirm")
      \o << <<"confirmSource", "source">>, <<"report", "report">> >>
      \o CloseAndRemove

(* publishArtifact with migrateOVM's beforeCommit.  M2 does without it. *)
M2_publishArtifact == << <<"write", "report">>, <<"commit", "output">> >>
publishArtifact ==
    << <<"write", "report">> >> \o confirmOVMInputs("confirmReport")
      \o << <<"commit", "output">> >>

migrateOVM ==
    << <<"make", "output">> >> \o replayOVMState(TRUE) \o publishArtifact
      \o << <<"remove", "output">> >>

VerifyOVM ==
    << <<"load", "report">>, <<"confirmReport", "audit">>, <<"confirmReport", "alloc">>,
       <<"confirmReport", "retain">>, <<"make", "scratch">> >>
      \o replayOVMState(FALSE)
      \o << <<"compare", "report">>, <<"inventory", "target">>, <<"reload", "report">> >>
      \o confirmOVMInputs("confirmReport")
      \o << <<"remove", "scratch">> >>

Deferred(s) == s[1] \in {"close", "remove"}

-----------------------------------------------------------------------------
At(op) == todo # <<>> /\ Head(todo)[1] = op
Arg == Head(todo)[2]

(* What may come out of a step: an I/O failure or a refused state, or the
   context's error where the step looks at the context. *)
Outcomes(checksContext) ==
    IF checksContext /\ cancelled THEN {"cancelled"}
    ELSE {"none"} \cup IF disturbances < MaxDisturbances THEN {"io"} ELSE {}

(* The step ends with error e: errors join the first one, and only deferred
   steps remain. *)
End(e) ==
    /\ err' = IF err = "none" THEN e ELSE err
    /\ todo' = IF e = "none" THEN Tail(todo) ELSE SelectSeq(Tail(todo), Deferred)
    /\ disturbances' = disturbances + IF e = "io" THEN 1 ELSE 0

Init ==
    /\ options \in Options
    /\ files = [i \in Inputs |-> 1] /\ head = 1 /\ artifact = <<>>
    /\ cmd = "migrate" /\ todo = migrateOVM
    /\ reader = Closed
    /\ inputs = [i \in Inputs |-> [content |-> NoBytes, digest |-> NoBytes]]
    /\ source = 0 /\ open = {} /\ dirs = {}
    /\ converted = <<>> /\ recomputed = <<>> /\ stored = <<>>
    /\ err = "none" /\ cancelled = FALSE /\ disturbances = 0
    /\ tampered = "no" /\ atConfirm = files

(* newAtomicDir, os.Mkdir of .ovm-work, verificationWorkspace.create. *)
MakeDirectory ==
    /\ At("make")
    /\ \E e \in Outcomes(Arg = "scratch") :
         /\ End(e)
         /\ dirs' = IF e = "none" THEN dirs \cup {Arg} ELSE dirs
    /\ UNCHANGED <<env, cmd, reader, inputs, source, open, converted, recomputed, stored,
                   cancelled, atConfirm>>

-----------------------------------------------------------------------------
(* The operator's files. *)

(* The digest an input is confirmed against: replay's own, or the report's. *)
recordedDigest(i) ==
    IF At("confirm") THEN inputs[i].digest
    ELSE (IF cmd = "migrate" THEN recomputed ELSE stored)[1].digests[i]

(* confirmOVMAuditEvidence, confirmOVMRetentionEvidence,
   confirmOVMAllocEvidence: an optional input is given exactly when recorded. *)
presenceDiffers(i) ==
    i \in {"audit", "retain", "alloc"} /\ (i \in Given) # (recordedDigest(i) # NoBytes)

Confirming == At("confirm") \/ At("confirmReport")

(* openOVMInput, and the first part of the bytes. *)
OpenInput ==
    /\ At("read") \/ (Confirming /\ ~presenceDiffers(Arg))
    /\ Arg \in Given /\ ~reader.open
    /\ \E e \in Outcomes(TRUE) :
         IF e = "none"
         THEN /\ reader' = [open |-> TRUE, attached |-> TRUE,
                            first |-> files[Arg], view |-> files[Arg]]
              /\ UNCHANGED <<todo, err, disturbances>>
         ELSE End(e) /\ UNCHANGED reader
    /\ UNCHANGED <<env, cmd, replay, cancelled, atConfirm>>

(* The digest kept for the report is that of the bytes that were parsed
   (readWrappedCode, the TeeReader of loadOVMWitness).  M1 hashes the file in a
   second reading. *)
M1_digestOf(i, bytes) == <<files[i], files[i]>>
digestOf(i, bytes) == bytes

(* readOVMAuditSummary, readWrappedCode, loadOVMERC20RetainList,
   loadOVMGenesisAlloc, loadOVMWitness: the rest of the bytes, parsed. *)
ReadInput ==
    LET bytes == IF Arg \in Given THEN <<reader.first, reader.view>> ELSE NoBytes
    IN  /\ At("read") /\ (Arg \in Given => reader.open)
        /\ \E e \in Outcomes(Arg \in Given) :
             /\ End(e)
             /\ inputs' = IF e = "none"
                          THEN [inputs EXCEPT ![Arg] =
                                  [content |-> bytes,
                                   digest |-> IF Arg \in Given THEN digestOf(Arg, bytes)
                                              ELSE NoBytes]]
                          ELSE inputs
        /\ reader' = Closed
        /\ UNCHANGED <<env, cmd, source, open, dirs, converted, recomputed, stored,
                       cancelled, atConfirm>>

(* One input of confirmOVMInputs, hashed (hashOVMInput) and compared. *)
ConfirmInput ==
    /\ Confirming
    /\ Arg \in Given /\ ~presenceDiffers(Arg) => reader.open
    /\ \E e \in IF presenceDiffers(Arg) THEN {"options"} ELSE Outcomes(TRUE) :
         End(IF /\ e = "none" /\ reader.open
                /\ <<reader.first, reader.view>> # recordedDigest(Arg)
             THEN "changed" ELSE e)
    /\ reader' = Closed
    /\ UNCHANGED <<env, cmd, replay, cancelled, atConfirm>>

-----------------------------------------------------------------------------
(* replayOVMState. *)

(* openLegacySource, temporaryStorage.create and open, openOVMDatabase. *)
OpenDatabase ==
    /\ At("open")
    /\ \E e \in Outcomes(FALSE) :
         /\ End(e)
         /\ open' = IF e = "none" THEN open \cup {Arg} ELSE open
         /\ source' = IF e = "none" /\ Arg = "source" THEN head ELSE source
    /\ UNCHANGED <<env, cmd, reader, inputs, dirs, converted, recomputed, stored,
                   cancelled, atConfirm>>

(* migrateOriginalAndHistory: the three lanes, see OVMHistory. *)
Lanes ==
    /\ At("lanes")
    /\ \E e \in Outcomes(TRUE) : End(e)
    /\ UNCHANGED <<env, cmd, reader, replay, cancelled, atConfirm>>

(* reopenOriginal: the original state is finalized, closed and verified before
   it is opened again; a failure may come before or after the closing. *)
CloseBase ==
    /\ At("reopen")
    /\ \E e \in Outcomes(TRUE) :
         /\ End(e)
         /\ open' \in {open \ {"base"}} \cup IF e = "none" THEN {} ELSE {open}
    /\ UNCHANGED <<env, cmd, reader, inputs, source, dirs, converted, recomputed, stored,
                   cancelled, atConfirm>>

(* transformOVMState, conversionEvidence, applyGenesisAlloc, ovmCheckpoint. *)
Convert ==
    /\ At("convert")
    /\ \E e \in Outcomes(TRUE) :
         /\ End(e)
         /\ converted' = IF e = "none"
                         THEN <<[head |-> source,
                                 inputs |-> [i \in Inputs |-> inputs[i].content]]>>
                         ELSE converted
    /\ UNCHANGED <<env, cmd, reader, inputs, source, open, dirs, recomputed, stored,
                   cancelled, atConfirm>>

(* finalTarget builds, closes and verifies the target, and closes it when it
   fails; verification only replays the traversal. *)
Finish ==
    /\ At("finish")
    /\ \E e \in Outcomes(TRUE) : End(e)
    /\ open' = open \ {"final"}
    /\ UNCHANGED <<env, cmd, reader, inputs, source, dirs, converted, recomputed, stored,
                   cancelled, atConfirm>>

(* ConfirmStableAndClose reads the head again through the same handle, whose
   lock keeps the node out, and closes it in any case. *)
ConfirmSource ==
    /\ At("confirmSource")
    /\ \E e \in Outcomes(FALSE) : End(e)
    /\ open' = open \ {"source"}
    /\ UNCHANGED <<env, cmd, reader, inputs, source, dirs, converted, recomputed, stored,
                   cancelled, atConfirm>>

(* newOVMReport and Validate. *)
MakeReport ==
    /\ At("report")
    /\ \E e \in Outcomes(FALSE) :
         /\ End(e)
         /\ recomputed' = IF e = "none"
                          THEN <<[head |-> source, state |-> converted[1],
                                  digests |-> [i \in Inputs |-> inputs[i].digest]]>>
                          ELSE recomputed
    /\ UNCHANGED <<env, cmd, reader, inputs, source, open, dirs, converted, stored,
                   cancelled, atConfirm>>

(* ovmWork.close: every handle is given up, an error of one does not keep the
   others open. *)
CloseHandles ==
    /\ At("close")
    /\ \E e \in IF open = {} THEN {"none"} ELSE Outcomes(FALSE) : End(e)
    /\ open' = {}
    /\ UNCHANGED <<env, cmd, reader, inputs, source, dirs, converted, recomputed, stored,
                   cancelled, atConfirm>>

(* storage.remove and os.RemoveAll, atomicDir.Abort, verificationWorkspace.Close. *)
RemoveDirectory ==
    /\ At("remove")
    /\ \E e \in IF Arg \in dirs THEN Outcomes(FALSE) ELSE {"none"} :
         /\ End(e)
         /\ dirs' = IF e = "none" THEN dirs \ {Arg} ELSE dirs
    /\ UNCHANGED <<env, cmd, reader, inputs, source, open, converted, recomputed, stored,
                   cancelled, atConfirm>>

-----------------------------------------------------------------------------
(* publishArtifact: the report is written, sealed and read back. *)
WriteReport ==
    /\ At("write")
    /\ \E e \in Outcomes(TRUE) : End(e)
    /\ atConfirm' = files
    /\ UNCHANGED <<env, cmd, reader, replay, cancelled>>

(* The commit of Publish: the staging directory becomes the artifact, and an
   error may still follow. *)
Commit ==
    /\ At("commit")
    /\ \E e \in Outcomes(TRUE) :
         /\ End(e)
         /\ \/ /\ e # "cancelled"
               /\ artifact' = <<[report |-> recomputed[1], state |-> converted[1]]>>
               /\ dirs' = dirs \ {"output"}
            \/ e # "none" /\ UNCHANGED <<artifact, dirs>>
    /\ UNCHANGED <<files, head, options, tampered, cmd, reader, inputs, source, open,
                   converted, recomputed, stored, cancelled, atConfirm>>

(* VerifyOVM starts on a published artifact, in a process of its own. *)
StartVerify ==
    /\ cmd = "migrate" /\ todo = <<>> /\ artifact # <<>>
    /\ cmd' = "verify" /\ todo' = VerifyOVM
    /\ err' = "none" /\ cancelled' = FALSE
    /\ inputs' = [i \in Inputs |-> [content |-> NoBytes, digest |-> NoBytes]]
    /\ source' = 0 /\ converted' = <<>> /\ recomputed' = <<>> /\ stored' = <<>>
    /\ UNCHANGED <<env, reader, open, dirs, disturbances, atConfirm>>

(* loadOVMReport at the beginning. *)
LoadReport ==
    /\ At("load")
    /\ \E e \in Outcomes(FALSE) :
         /\ End(e)
         /\ stored' = IF e = "none" THEN <<artifact[1].report>> ELSE stored
    /\ UNCHANGED <<env, cmd, reader, inputs, source, open, dirs, converted, recomputed,
                   cancelled, atConfirm>>

(* sameOVMReport of the replayed and the stored report. *)
Compare ==
    /\ At("compare")
    /\ End(IF recomputed = stored THEN "none" ELSE "evidence")
    /\ UNCHANGED <<env, cmd, reader, replay, cancelled, atConfirm>>

(* verifyTargetDatabase: the inventory of the artifact's database against the
   replayed state, see Verify.  M3 takes the state from the artifact's report
   without looking at the database. *)
M3_inventoried == stored[1].state
inventoried == artifact[1].state

Inventory ==
    /\ At("inventory")
    /\ \E e \in Outcomes(TRUE) :
         End(IF e = "none" /\ inventoried # recomputed[1].state THEN "target" ELSE e)
    /\ UNCHANGED <<env, cmd, reader, replay, cancelled, atConfirm>>

(* loadOVMReport again: the report must not have changed. *)
Reload ==
    /\ At("reload")
    /\ \E e \in Outcomes(FALSE) :
         End(IF e = "none" /\ artifact[1].report # stored[1] THEN "changed" ELSE e)
    /\ atConfirm' = files
    /\ UNCHANGED <<env, cmd, reader, replay, cancelled>>

-----------------------------------------------------------------------------
(* The environment. *)

Disturb == disturbances < MaxDisturbances /\ disturbances' = disturbances + 1

Reading(i) == reader.open /\ Arg = i

(* An input is rewritten in place: a handle opened before sees it. *)
Rewrite(i) ==
    /\ Disturb
    /\ files' = [files EXCEPT ![i] = @ + 1]
    /\ reader' = IF Reading(i) /\ reader.attached THEN [reader EXCEPT !.view = files'[i]]
                 ELSE reader
    /\ UNCHANGED <<head, artifact, options, tampered, cmd, todo, replay, err, cancelled,
                   atConfirm>>

(* An input is replaced by a rename: a handle opened before still has the old
   file. *)
Replace(i) ==
    /\ Disturb
    /\ files' = [files EXCEPT ![i] = @ + 1]
    /\ reader' = IF Reading(i) THEN [reader EXCEPT !.attached = FALSE] ELSE reader
    /\ UNCHANGED <<head, artifact, options, tampered, cmd, todo, replay, err, cancelled,
                   atConfirm>>

(* The node moves on: only while the source is not locked by an open handle. *)
HeadMoves ==
    /\ "source" \notin open
    /\ Disturb
    /\ head' = head + 1
    /\ UNCHANGED <<files, artifact, options, tampered, cmd, todo, reader, replay, err,
                   cancelled, atConfirm>>

(* The artifact's database or its report is altered. *)
Tamper ==
    /\ artifact # <<>>
    /\ Disturb
    /\ \/ artifact' = [artifact EXCEPT ![1].state.head = 0]
       \/ artifact' = [artifact EXCEPT ![1].report.head = 0]
    /\ tampered' = IF cmd = "migrate" THEN "before" ELSE "during"
    /\ UNCHANGED <<files, head, options, cmd, todo, reader, replay, err, cancelled,
                   atConfirm>>

Cancel ==
    /\ ~cancelled /\ todo # <<>>
    /\ Disturb
    /\ cancelled' = TRUE
    /\ UNCHANGED <<env, cmd, todo, reader, replay, err, atConfirm>>

Terminated ==
    /\ todo = <<>> /\ (cmd = "verify" \/ artifact = <<>>)
    /\ UNCHANGED vars

Next ==
    \/ MakeDirectory \/ OpenInput \/ ReadInput \/ ConfirmInput
    \/ OpenDatabase \/ Lanes \/ CloseBase \/ Convert \/ Finish \/ ConfirmSource
    \/ MakeReport \/ CloseHandles \/ RemoveDirectory
    \/ WriteReport \/ Commit \/ StartVerify \/ LoadReport \/ Compare \/ Inventory \/ Reload
    \/ \E i \in Given : Rewrite(i) \/ Replace(i)
    \/ HeadMoves \/ Tamper \/ Cancel \/ Terminated

Spec == Init /\ [][Next]_vars

-----------------------------------------------------------------------------
Bytes == Nat \X Nat
States == [head : Nat, inputs : [Inputs -> Bytes]]
Reports == [head : Nat, state : States, digests : [Inputs -> Bytes]]
Handles == {"source", "base", "index", "final"}
Directories == {"output", "scratch", "work"}
Errors == {"none", "io", "cancelled", "changed", "options", "evidence", "target"}
IsOptional(x, S) == x = <<>> \/ (Len(x) = 1 /\ x[1] \in S)

(* Types of the variables. *)
TypeOK ==
    /\ files \in [Inputs -> Nat] /\ head \in Nat /\ atConfirm \in [Inputs -> Nat]
    /\ IsOptional(artifact, [report : Reports, state : States])
    /\ options \in Options /\ cmd \in {"migrate", "verify"}
    /\ reader \in [open : BOOLEAN, attached : BOOLEAN, first : Nat, view : Nat]
    /\ inputs \in [Inputs -> [content : Bytes, digest : Bytes]]
    /\ source \in Nat /\ open \subseteq Handles /\ dirs \subseteq Directories
    /\ IsOptional(converted, States) /\ IsOptional(recomputed, Reports)
    /\ IsOptional(stored, Reports)
    /\ err \in Errors /\ cancelled \in BOOLEAN /\ disturbances \in 0..MaxDisturbances
    /\ tampered \in {"no", "before", "during"}

Returned == todo = <<>>

(* The state that a report's own evidence determines. *)
Determined(report) == [head |-> report.head, inputs |-> report.digests]

(* A published artifact can be reproduced from its report: its state is the one
   computed from the source head and the very bytes whose digests the report
   records, whatever happened to the files while they were read
   (readWrappedCode, loadOVMWitness, newOVMReport). *)
ReportIsReproducible ==
    artifact # <<>> /\ tampered = "no" =>
        /\ artifact[1].state = artifact[1].report.state
        /\ artifact[1].state = Determined(artifact[1].report)

(* An input that changed after it was read, for good, is never published and
   never verified: when the last confirmation began, every given file had the
   bytes of the report (confirmOVMReportInputs). *)
NoStaleInput ==
    \/ cmd = "migrate" /\ artifact # <<>>
    \/ cmd = "verify" /\ Returned /\ err = "none"
    => \A i \in Given : recomputed[1].digests[i] = <<atConfirm[i], atConfirm[i]>>

Untouched ==
    /\ files = [i \in Inputs |-> 1] /\ head = 1 /\ tampered = "no"
    /\ options.migrate = options.verify

(* The verdict of VerifyOVM is right in both ways: what it accepts is the state
   its report's evidence determines, unless the artifact was altered meanwhile;
   and neither command speaks of a change or a mismatch when there was none. *)
VerdictIsTruthful ==
    Returned =>
        /\ cmd = "verify" /\ err = "none" /\ tampered # "during" =>
             /\ artifact[1].state = Determined(artifact[1].report)
             /\ artifact[1].report.head = source
        /\ err \in {"changed", "options", "evidence", "target"} => ~Untouched

(* No database is open in a directory that is gone, nothing is published with
   the work directory in it, and a command that returns leaves no handle, and
   no directory unless its removal failed (replayOVMState's deferred function,
   verificationWorkspace). *)
LeavesNothing ==
    /\ TypeOK
    /\ open \cap {"base", "index"} # {} => "work" \in dirs
    /\ "final" \in open => "output" \in dirs
    /\ At("commit") => "work" \notin dirs
    /\ Returned => open = {} /\ (dirs # {} => err # "none")
=============================================================================
