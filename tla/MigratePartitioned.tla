------------------------- MODULE MigratePartitioned -------------------------
(***************************************************************************)
(* The partitioned state migration (migrate_partitioned.go and             *)
(* partition_*.go): one goroutine per trie partition walks its accounts in *)
(* hash order.  An account without storage and without new code is written *)
(* at once.  Any other opens a burst: account jobs run beside each other,  *)
(* their results come back in any order and are merged in account order.   *)
(* A large storage trie is split into tasks of its own.                    *)
(*                                                                         *)
(* Two bounded resources are shared by all partitions: the work limiter's  *)
(* tokens, held while a goroutine works, and the account window's slots,   *)
(* held from an account's admission to its merge.  Any step may fail, and  *)
(* the caller's context may be cancelled at any time.                      *)
(***************************************************************************)
EXTENDS Naturals, Sequences, FiniteSets, FiniteSetsExt

CONSTANTS
    Layouts,     \* the ways the accounts may lie: [partition -> sequence of accounts]
    Subs,        \* the partitions of a large storage trie
    Codes,       \* code hashes
    Workers,     \* the work limiter's tokens
    MaxFaults    \* bound on the steps that fail by themselves

Window == 2 * Workers
Account == [storage : {"none", "small", "large"}, code : Codes \cup {"none"}]

ASSUME MigrateAssumption ==
    /\ \A L \in Layouts : \A p \in DOMAIN L : L[p] \in Seq(Account)
    /\ \A L \in Layouts : IsFiniteSet(DOMAIN L)
    /\ "none" \notin Codes
    /\ Workers \in Nat \ {0} /\ MaxFaults \in Nat
    /\ IsFiniteSet(Subs)

VARIABLES
    Accounts,     \* the accounts of each partition, fixed during a run
    pc,           \* the step of each partition's goroutine
    at,           \* accounts its iterator has returned
    held,         \* whether it holds its account lease
    eof,          \* the burst met the end of the iterator
    failure,      \* the burst's first error (migratePipelineFailure)
    job,          \* the account jobs: [partition -> [index -> state]]
    jobErr,       \* the first error inside a job
    sub,          \* the storage tasks of each job
    results,      \* the burst's results channel
    pending,      \* results received and not merged
    merged,       \* accounts written, in order
    owner,        \* the account that claimed each code hash (codeHashes)
    written,      \* code records written, per code hash
    tokens,       \* tokens taken from the work limiter
    slots,        \* slots taken in the account window
    runErr,       \* the run's first error (migrateRunFailure)
    runCanceled,  \* cancelRun was called
    canceled,     \* the caller's context is cancelled
    result,       \* what run returned
    faults

vars == <<Accounts, pc, at, held, eof, failure, job, jobErr, sub, results, pending, merged,
          owner, written, tokens, slots, runErr, runCanceled, canceled, result,
          faults>>

burst == <<eof, failure>>
work == <<job, jobErr, sub, results>>
outputs == <<merged, written>>
run == <<runErr, runCanceled, canceled, result, faults>>

Partitions == DOMAIN Accounts
Index(p) == 1..Len(Accounts[p])

Errors == {"none", "io", "canceled"}
JobStates == {"none", "start", "hold", "split", "joined", "sent", "failed"}
SubStates == {"none", "start", "hold", "done", "failed"}

Init ==
    /\ Accounts \in Layouts
    /\ pc = [p \in Partitions |-> "open"]
    /\ at = [p \in Partitions |-> 0]
    /\ held = [p \in Partitions |-> FALSE]
    /\ eof = [p \in Partitions |-> FALSE]
    /\ failure = [p \in Partitions |-> "none"]
    /\ job = [p \in Partitions |-> [i \in Index(p) |-> "none"]]
    /\ jobErr = [p \in Partitions |-> [i \in Index(p) |-> "none"]]
    /\ sub = [p \in Partitions |-> [i \in Index(p) |-> [s \in Subs |-> "none"]]]
    /\ results = [p \in Partitions |-> {}]
    /\ pending = [p \in Partitions |-> {}]
    /\ merged = [p \in Partitions |-> <<>>]
    /\ owner = [c \in Codes |-> <<>>]
    /\ written = [c \in Codes |-> 0]
    /\ tokens = 0
    /\ slots = 0
    /\ runErr = "none"
    /\ runCanceled = FALSE
    /\ canceled = FALSE
    /\ result = "none"
    /\ faults = 0

-----------------------------------------------------------------------------
(* Contexts, errors and leases.                                            *)

RunDone == canceled \/ runCanceled
BurstDone(p) == RunDone \/ failure[p] # "none"

\* A token is free.  Work that cannot block between acquire and release is one
\* step here, enabled when a token is free.  acquire looks at the context and
\* then selects between a token and the context: when the context is cancelled
\* in between, both are ready and either may be taken.  So a step that waits
\* for a token may succeed, or fail as Errs allows, on a cancelled context.
Free == tokens < Workers

\* The errors a step can meet: a fault of its own while it holds a token (or
\* could), or the cancellation of its context.
Errs(busy, done) == (IF busy /\ faults < MaxFaults THEN {"io"} ELSE {})
                    \cup (IF done THEN {"canceled"} ELSE {})
Count(e) == faults' = IF e = "io" THEN faults + 1 ELSE faults

\* recordRunFailure: the first error is kept, then the run is cancelled.
recordRunFailure(e) ==
    /\ runErr' = IF runErr = "none" THEN e ELSE runErr
    /\ runCanceled' = TRUE

\* migratePipelineFailure.record: the burst's first error cancels the burst and
\* is reported to the run.
record(p, e) ==
    IF failure[p] = "none"
      THEN failure' = [failure EXCEPT ![p] = e] /\ recordRunFailure(e)
      ELSE UNCHANGED <<failure, runErr, runCanceled>>

Goto(p, s) == pc' = [pc EXCEPT ![p] = s]

\* The partition's goroutine returns e; run records it.
PartitionFails(p, e) ==
    /\ Goto(p, "failed")
    /\ recordRunFailure(e)
    /\ held' = [held EXCEPT ![p] = FALSE]
    /\ tokens' = IF held[p] THEN tokens - 1 ELSE tokens

-----------------------------------------------------------------------------
(* The partition's goroutine: migrateAccountPartition.                     *)

Open(p) ==
    /\ pc[p] = "open"
    /\ Free
    /\ Goto(p, "scan")
    /\ UNCHANGED <<Accounts, at, held, burst, work, pending, outputs, owner, tokens, slots, run>>

\* prepareMigrateAccount claims a code hash for the first account that has it.
account(p) == Accounts[p][at[p] + 1]
M5_writeCode(p) == account(p).code # "none"
writeCode(p) == account(p).code # "none" /\ owner[account(p).code] = <<>>
async(p) == account(p).storage # "none" \/ writeCode(p)
Claim(p) ==
    owner' = IF writeCode(p) THEN [owner EXCEPT ![account(p).code] = <<p, at[p] + 1>>]
                             ELSE owner

\* One turn of the loop under the account lease.  A plain account is written on
\* the spot, and the lease is kept unless other accounts are in the window
\* (yieldAccountLeaseForPendingBurst).
Scan(p) ==
    /\ pc[p] = "scan"
    /\ IF held[p] THEN ~RunDone ELSE Free
    /\ IF at[p] = Len(Accounts[p])
         THEN /\ Goto(p, "finish")
              /\ held' = [held EXCEPT ![p] = FALSE]
              /\ UNCHANGED <<at, owner, merged>>
         ELSE /\ at' = [at EXCEPT ![p] = @ + 1]
              /\ Claim(p)
              /\ IF async(p)
                   THEN /\ Goto(p, "admit")
                        /\ held' = [held EXCEPT ![p] = FALSE]
                        /\ UNCHANGED merged
                   ELSE /\ merged' = [merged EXCEPT ![p] = Append(@, at[p] + 1)]
                        /\ held' = [held EXCEPT ![p] = slots = 0]
                        /\ UNCHANGED pc
    /\ tokens' = (IF held[p] THEN tokens - 1 ELSE tokens)
                 + (IF held'[p] THEN 1 ELSE 0)
    /\ UNCHANGED <<Accounts, burst, work, pending, written, slots, run>>

\* runMigrateAccountBurst waits for a slot, without a lease, and starts the
\* first job.
Admit(p) ==
    /\ pc[p] = "admit"
    /\ slots < Window
    /\ slots' = slots + 1
    /\ job' = [job EXCEPT ![p][at[p]] = "start"]
    /\ failure' = [failure EXCEPT ![p] = "none"]
    /\ eof' = [eof EXCEPT ![p] = FALSE]
    /\ Goto(p, "burst")
    /\ UNCHANGED <<Accounts, at, held, jobErr, sub, results, pending, outputs, owner, tokens, run>>

\* finishMigrateAccountPartition.
Finish(p) ==
    /\ pc[p] = "finish"
    /\ Free
    /\ Goto(p, "done")
    /\ UNCHANGED <<Accounts, at, held, burst, work, pending, outputs, owner, tokens, slots, run>>

\* The iterator, a decoding, a write or a check fails, or the context is
\* cancelled.
PartitionStops(p) ==
    /\ pc[p] \in {"open", "scan", "admit", "finish"}
    /\ \E e \in Errs(pc[p] # "admit" /\ (held[p] \/ Free), RunDone) :
          PartitionFails(p, e) /\ Count(e)
    /\ UNCHANGED <<Accounts, at, burst, work, pending, outputs, owner, slots, canceled, result>>

-----------------------------------------------------------------------------
(* The burst: reading ahead while slots last.                              *)

Burst(p) ==
    /\ pc[p] = "burst"
    /\ IF slots < Window THEN slots' = slots + 1 /\ Goto(p, "read")
                         ELSE UNCHANGED slots /\ Goto(p, "merge")
    /\ UNCHANGED <<Accounts, at, held, burst, work, pending, outputs, owner, tokens, run>>

\* With a slot and a token: the end of the iterator gives the slot back; an
\* account becomes a job, or at once a result.
Read(p) ==
    /\ pc[p] = "read"
    /\ Free
    /\ IF at[p] = Len(Accounts[p])
         THEN /\ slots' = slots - 1
              /\ eof' = [eof EXCEPT ![p] = TRUE]
              /\ Goto(p, "merge")
              /\ UNCHANGED <<at, owner, job, results>>
         ELSE /\ at' = [at EXCEPT ![p] = @ + 1]
              /\ Claim(p)
              /\ job' = [job EXCEPT ![p][at[p] + 1] = IF async(p) THEN "start" ELSE "sent"]
              /\ results' = IF async(p) THEN results
                            ELSE [results EXCEPT ![p] = @ \cup {at[p] + 1}]
              /\ Goto(p, "burst")
              /\ UNCHANGED <<slots, eof>>
    /\ UNCHANGED <<Accounts, held, failure, jobErr, sub, pending, outputs, tokens, run>>

ReadFails(p) ==
    /\ pc[p] = "read"
    /\ \E e \in Errs(Free, BurstDone(p)) : record(p, e) /\ Count(e)
    /\ slots' = slots - 1
    /\ Goto(p, "merge")
    /\ UNCHANGED <<Accounts, at, held, eof, work, pending, outputs, owner, tokens, canceled, result>>

-----------------------------------------------------------------------------
(* The account jobs: submitMigrateAccountTask and processMigrateAccount.   *)

JobGoto(p, i, s) == job' = [job EXCEPT ![p][i] = s]
large(p, i) == Accounts[p][i].storage = "large"
partition == <<pc, at, held, pending, outputs, owner, slots>>

JobStart(p, i) ==
    /\ job[p][i] = "start"
    /\ Free
    /\ tokens' = tokens + 1
    /\ JobGoto(p, i, "hold")
    /\ UNCHANGED <<Accounts, partition, burst, jobErr, sub, results, run>>

\* The probe has seen more than the threshold: the job gives its token back
\* and starts one task per storage partition.
M2_JobSplit(p, i) ==
    /\ job[p][i] = "hold" /\ large(p, i)
    /\ tokens' = tokens
    /\ JobGoto(p, i, "split")
    /\ sub' = [sub EXCEPT ![p][i] = [s \in Subs |-> "start"]]
    /\ UNCHANGED <<Accounts, partition, burst, jobErr, results, run>>
JobSplit(p, i) ==
    /\ job[p][i] = "hold" /\ large(p, i)
    /\ tokens' = tokens - 1
    /\ JobGoto(p, i, "split")
    /\ sub' = [sub EXCEPT ![p][i] = [s \in Subs |-> "start"]]
    /\ UNCHANGED <<Accounts, partition, burst, jobErr, results, run>>

\* runMigratePartitionTasks: the first error cancels the other tasks.
SubDone(p, i) == BurstDone(p) \/ jobErr[p][i] # "none"
SubGoto(p, i, s, t) == sub' = [sub EXCEPT ![p][i][s] = t]

SubStart(p, i, s) ==
    /\ sub[p][i][s] = "start"
    /\ Free
    /\ tokens' = tokens + 1
    /\ SubGoto(p, i, s, "hold")
    /\ UNCHANGED <<Accounts, partition, burst, job, jobErr, results, run>>

SubFinish(p, i, s) ==
    /\ sub[p][i][s] = "hold"
    /\ tokens' = tokens - 1
    /\ SubGoto(p, i, s, "done")
    /\ UNCHANGED <<Accounts, partition, burst, job, jobErr, results, run>>

SubFails(p, i, s) ==
    /\ sub[p][i][s] \in {"start", "hold"}
    /\ \E e \in Errs(sub[p][i][s] = "hold", SubDone(p, i)) :
          /\ jobErr' = [jobErr EXCEPT ![p][i] = IF @ = "none" THEN e ELSE @]
          /\ Count(e)
    /\ tokens' = IF sub[p][i][s] = "hold" THEN tokens - 1 ELSE tokens
    /\ SubGoto(p, i, s, "failed")
    /\ UNCHANGED <<Accounts, partition, burst, job, results, runErr, runCanceled, canceled, result>>

\* All tasks have returned without an error: the job takes a token again.
JobJoin(p, i) ==
    /\ job[p][i] = "split"
    /\ \A s \in Subs : sub[p][i][s] = "done"
    /\ Free
    /\ tokens' = tokens + 1
    /\ JobGoto(p, i, "joined")
    /\ UNCHANGED <<Accounts, partition, burst, jobErr, sub, results, run>>

\* The storage is written and the claimed code read: the result is sent.
Send(p, i) == results' = [results EXCEPT ![p] = @ \cup {i}]

JobSend(p, i) ==
    /\ \/ job[p][i] = "hold" /\ ~large(p, i)
       \/ job[p][i] = "joined"
    /\ tokens' = tokens - 1
    /\ JobGoto(p, i, "sent")
    /\ Send(p, i)
    /\ UNCHANGED <<Accounts, partition, burst, jobErr, sub, run>>

\* The errors of a job: its storage, a code that is missing or does not have
\* its hash (readMigrateCode), or the cancellation of the burst.
jobErrs(p, i) ==
    IF job[p][i] = "split"
      THEN IF jobErr[p][i] # "none" THEN {jobErr[p][i]} ELSE Errs(FALSE, BurstDone(p))
      ELSE Errs(job[p][i] # "start", BurstDone(p))

\* The job fails: its error is recorded before its result is sent.
JobFails(p, i) ==
    /\ job[p][i] \in {"start", "hold", "split", "joined"}
    /\ job[p][i] = "split" => \A s \in Subs : sub[p][i][s] \in {"done", "failed"}
    /\ \E e \in jobErrs(p, i) :
          /\ record(p, e)
          /\ jobErr' = [jobErr EXCEPT ![p][i] = e]
          /\ IF job[p][i] = "split" THEN UNCHANGED faults ELSE Count(e)
    /\ tokens' = IF job[p][i] \in {"hold", "joined"} THEN tokens - 1 ELSE tokens
    /\ JobGoto(p, i, "failed")
    /\ Send(p, i)
    /\ UNCHANGED <<Accounts, partition, eof, sub, canceled, result>>

-----------------------------------------------------------------------------
(* mergeMigrateAccounts.                                                   *)

\* The received result that is next in account order.
M3_Ready(p) == pending[p]
Ready(p) == pending[p] \cap {Len(merged[p]) + 1}

merging == <<at, held, eof, job, jobErr, sub, owner, tokens, canceled, result>>

\* After a failure a received result only gives slots back: its own and those
\* of the results still pending.
M4_Receive(p) ==
    /\ pc[p] = "merge" /\ Ready(p) = {}
    /\ \E i \in results[p] :
          /\ results' = [results EXCEPT ![p] = @ \ {i}]
          /\ IF failure[p] # "none"
               THEN /\ slots' = slots - 1
                    /\ pending' = [pending EXCEPT ![p] = {}]
               ELSE /\ UNCHANGED slots
                    /\ pending' = [pending EXCEPT ![p] = @ \cup {i}]
    /\ UNCHANGED <<Accounts, merging, pc, failure, outputs, runErr, runCanceled, faults>>
Receive(p) ==
    /\ pc[p] = "merge" /\ Ready(p) = {}
    /\ \E i \in results[p] :
          /\ results' = [results EXCEPT ![p] = @ \ {i}]
          /\ IF failure[p] # "none"
               THEN /\ slots' = slots - 1 - Cardinality(pending[p])
                    /\ pending' = [pending EXCEPT ![p] = {}]
               ELSE /\ UNCHANGED slots
                    /\ pending' = [pending EXCEPT ![p] = @ \cup {i}]
    /\ UNCHANGED <<Accounts, merging, pc, failure, outputs, runErr, runCanceled, faults>>

\* mergeMigrateAccount writes the account, and the code it claimed.
Merge(p) ==
    /\ pc[p] = "merge"
    /\ \E i \in Ready(p) :
          /\ job[p][i] # "failed"
          /\ Free
          /\ pending' = [pending EXCEPT ![p] = @ \ {i}]
          /\ merged' = [merged EXCEPT ![p] = Append(@, i)]
          /\ written' = [c \in Codes |-> IF owner[c] = <<p, i>> THEN written[c] + 1
                                                                ELSE written[c]]
    /\ slots' = slots - 1
    /\ UNCHANGED <<Accounts, merging, pc, failure, results, runErr, runCanceled, faults>>

\* The merge fails: its slot and the pending ones are given back.
MergeFails(p) ==
    /\ pc[p] = "merge"
    /\ \E i \in Ready(p) :
       \E e \in IF job[p][i] = "failed" THEN {jobErr[p][i]} ELSE Errs(Free, BurstDone(p)) :
          record(p, e) /\ Count(e)
    /\ slots' = slots - Cardinality(pending[p])
    /\ pending' = [pending EXCEPT ![p] = {}]
    /\ UNCHANGED <<Accounts, merging, pc, results, outputs>>

\* All jobs have returned and the channel is drained.
MergeEnd(p) ==
    /\ pc[p] = "merge" /\ Ready(p) = {} /\ results[p] = {}
    /\ \A i \in Index(p) : job[p][i] \in {"none", "sent", "failed"}
    /\ IF failure[p] # "none" \/ pending[p] # {} \/ RunDone
         THEN PartitionFails(p, IF failure[p] # "none" THEN failure[p]
                                ELSE IF pending[p] # {} THEN "io" ELSE "canceled")
         ELSE /\ Goto(p, IF eof[p] THEN "finish" ELSE "scan")
              /\ UNCHANGED <<held, tokens, runErr, runCanceled>>
    /\ UNCHANGED <<Accounts, at, burst, work, pending, outputs, owner, slots, canceled, result,
                   faults>>

-----------------------------------------------------------------------------
(* run.                                                                    *)

\* All partitions have returned.  Without an error their roots are assembled
\* and compared with the head's state root.
Return ==
    /\ result = "none"
    /\ \A p \in Partitions : pc[p] \in {"done", "failed"}
    /\ result' \in IF runErr # "none" THEN {runErr}
                   ELSE IF canceled THEN {"canceled"} ELSE {"ok", "io"}
    /\ UNCHANGED <<Accounts, pc, at, held, burst, work, pending, outputs, owner, tokens, slots,
                   runErr, runCanceled, canceled, faults>>

Cancel ==
    /\ ~canceled /\ result = "none"
    /\ canceled' = TRUE
    /\ UNCHANGED <<Accounts, pc, at, held, burst, work, pending, outputs, owner, tokens, slots,
                   runErr, runCanceled, result, faults>>

Returned == result # "none" /\ UNCHANGED vars

\* Everything but the caller's cancellation.
Step ==
    \/ \E p \in Partitions :
          \/ Open(p) \/ Scan(p) \/ Admit(p) \/ Finish(p) \/ PartitionStops(p)
          \/ Burst(p) \/ Read(p) \/ ReadFails(p)
          \/ Receive(p) \/ Merge(p) \/ MergeFails(p) \/ MergeEnd(p)
          \/ \E i \in Index(p) :
                \/ JobStart(p, i) \/ JobSplit(p, i) \/ JobJoin(p, i) \/ JobSend(p, i)
                \/ JobFails(p, i)
                \/ \E s \in Subs :
                      SubStart(p, i, s) \/ SubFinish(p, i, s) \/ SubFails(p, i, s)
    \/ Return

Next == Step \/ Cancel \/ Returned

Spec == Init /\ [][Next]_vars

\* The Go scheduler runs every goroutine that can run; blocked goroutines are
\* woken by the channel operations that unblock them.
FairSpec == Spec /\ WF_vars(Step)

-----------------------------------------------------------------------------
(* Properties.                                                             *)

\* The types of what decides the order and the outcome of a run.
OutcomeType ==
    /\ Accounts \in Layouts
    /\ pc \in [Partitions -> {"open", "scan", "admit", "burst", "read", "merge", "finish",
                              "done", "failed"}]
    /\ at \in [Partitions -> Nat] /\ eof \in [Partitions -> BOOLEAN]
    /\ failure \in [Partitions -> Errors]
    /\ DOMAIN job = Partitions /\ \A p \in Partitions : job[p] \in [Index(p) -> JobStates]
    /\ DOMAIN jobErr = Partitions /\ \A p \in Partitions : jobErr[p] \in [Index(p) -> Errors]
    /\ DOMAIN results = Partitions /\ \A p \in Partitions : results[p] \subseteq Index(p)
    /\ DOMAIN pending = Partitions /\ \A p \in Partitions : pending[p] \subseteq Index(p)
    /\ DOMAIN merged = Partitions /\ \A p \in Partitions : merged[p] \in Seq(Index(p))
    /\ DOMAIN owner = Codes /\ written \in [Codes -> Nat]
    /\ runErr \in Errors /\ result \in Errors \cup {"ok"}
    /\ runCanceled \in BOOLEAN /\ canceled \in BOOLEAN

\* The variables keep the types of the Go values they stand for.
TypeOK ==
    /\ OutcomeType
    /\ held \in [Partitions -> BOOLEAN]
    /\ \A p \in Partitions : sub[p] \in [Index(p) -> [Subs -> SubStates]]
    /\ tokens \in 0..Workers /\ slots \in 0..Window
    /\ faults \in 0..MaxFaults

\* The work limiter's tokens are exactly those that goroutines hold: no error
\* path keeps one or gives one back twice, so a run's concurrency stays within
\* the worker allowance (migrateWorkLease).
LeasesBalanced ==
    tokens = MapThenSumSet(LAMBDA p :
                 (IF held[p] THEN 1 ELSE 0)
                 + Cardinality({i \in Index(p) : job[p][i] \in {"hold", "joined"}})
                 + Cardinality({t \in Index(p) \X Subs : sub[p][t[1]][t[2]] = "hold"}),
               Partitions)

\* Every slot of the account window belongs to one admitted account that is not
\* merged yet: failing, cancelling or merging gives each slot back exactly once
\* (runMigrateAccountBurst, mergeMigrateAccounts).
SlotsBalanced ==
    slots = MapThenSumSet(LAMBDA p :
                (IF pc[p] = "read" THEN 1 ELSE 0)
                + Cardinality({i \in Index(p) : job[p][i] \in {"start", "hold", "split", "joined"}})
                + Cardinality(results[p]) + Cardinality(pending[p]),
              Partitions)

\* When run returns no goroutine of it is working.
ReturnsClean ==
    result # "none" =>
        \A p \in Partitions : \A i \in Index(p) :
            /\ job[p][i] \in {"none", "sent", "failed"}
            /\ \A s \in Subs : sub[p][i][s] # "hold"

\* Both resources balance at every moment, whatever fails or is cancelled, and
\* nothing of the run is left working when it returns.
ResourcesBalanced == TypeOK /\ LeasesBalanced /\ SlotsBalanced /\ ReturnsClean

\* Accounts reach the partition's stack trie and batch in hash order, none
\* twice and none skipped, whatever the order the jobs finish in.
MergedInOrder ==
    \A p \in Partitions : \A k \in 1..Len(merged[p]) : merged[p][k] = k

\* Success means that every account of every partition was merged and every
\* referenced code was written, by one account only, although the code set is
\* shared and claimed before the code is read.
SuccessIsComplete ==
    /\ \A c \in Codes : written[c] <= 1
    /\ result = "ok" =>
          /\ \A p \in Partitions : Len(merged[p]) = Len(Accounts[p])
          /\ \A p \in Partitions : \A i \in Index(p) :
                Accounts[p][i].code # "none" => written[Accounts[p][i].code] = 1

\* The run reports the error that stopped it, never the cancellation that error
\* caused elsewhere: "canceled" is returned only if the caller cancelled.
ErrorIsRootCause == result = "canceled" => canceled

\* The run's result can be relied on, in both ways.
OutcomeIsTruthful == SuccessIsComplete /\ ErrorIsRootCause

\* An account between its admission and its merge.
Outstanding(p, i) ==
    \/ job[p][i] \in {"start", "hold", "split", "joined"}
    \/ i \in results[p] \cup pending[p]

\* How far a partition is: what it has merged are the first accounts, and until
\* the burst fails the ones it has read beyond them are outstanding.
PartitionInv(p) ==
    LET n == Len(merged[p]) IN
    /\ n <= at[p] /\ at[p] <= Len(Accounts[p])
    /\ \A k \in 1..n : merged[p][k] = k
    /\ eof[p] => at[p] = Len(Accounts[p])
    /\ results[p] \cup pending[p] \subseteq 1..at[p]
    /\ \A i \in Index(p) : job[p][i] # "none" => i <= at[p]
    /\ pc[p] \in {"open", "scan", "finish", "done"} => n = at[p]
    /\ pc[p] = "admit" => n + 1 = at[p]
    /\ pc[p] \in {"finish", "done"} => at[p] = Len(Accounts[p])
    /\ pc[p] \in {"burst", "read", "merge"} /\ failure[p] = "none" =>
          \A i \in Index(p) : n < i /\ i <= at[p] => Outstanding(p, i)

\* A claimed code is written with the account that claimed it.
CodeInv ==
    /\ \A c \in Codes :
          \/ owner[c] = <<>> /\ written[c] = 0
          \/ \E p \in Partitions : \E i \in 1..at[p] :
                /\ owner[c] = <<p, i>>
                /\ written[c] = IF i <= Len(merged[p]) THEN 1 ELSE 0
    /\ \A p \in Partitions : \A i \in 1..at[p] :
          Accounts[p][i].code # "none" => owner[Accounts[p][i].code] # <<>>

\* Where an error is found, the run already knows of its cause.
ErrorInv ==
    /\ runCanceled => runErr # "none"
    /\ \A p \in Partitions :
          /\ failure[p] # "none" \/ pc[p] = "failed" => runErr # "none"
          /\ \A i \in Index(p) :
                /\ jobErr[p][i] = "canceled" => canceled \/ runErr # "none"
                /\ job[p][i] = "failed" => jobErr[p][i] # "none"
    /\ runErr = "canceled" \/ result = "canceled" => canceled
    /\ result = "ok" => \A p \in Partitions : pc[p] = "done"

\* The inductive form of MergedInOrder and OutcomeIsTruthful.
MigrateInv ==
    /\ OutcomeType
    /\ \A p \in Partitions : PartitionInv(p)
    /\ CodeInv
    /\ ErrorInv

\* The run always returns: goroutines waiting for tokens, slots, results and
\* storage tasks never wait for each other in a circle.
RunReturns == <>(result # "none")

=============================================================================
