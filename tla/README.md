# A verification of l2state

`l2state` moves the state of a stopped l2geth node into databases a current
geth can open, converts OVM balances on the way, and prunes a legacy database
in place. This directory models the program in TLA+: TLC checks the models on
small instances, TLAPS proves the main results for every instance.

## The system and its parts

| part | source (`src/internal/...`) | state it changes |
|---|---|---|
| prune | `migration/prune*.go`, `hashset.go` | the node's LevelDB, in place; a temporary keep database |
| partitioned migration | `migration/partition_*.go`, `migrate_partitioned.go`, `direct_writer.go` | the target database being written |
| serial traversal | `migration/state*.go`, `trienode_index.go` | export records, node index |
| publication | `migration/atomicdir.go`, `publish_artifact.go`, `migrate.go`, `import.go`, `export.go`, `target.go` | the final output directory |
| legacy source | `migration/legacy.go`, `readonlydb/` | none (reads, stability check) |
| OVM conversion | `migration/ovm_*.go` | temporary original target, indexes, final target |
| bundle format | `bundle/`, `migration/bundle.go` | record file with a hash chain |
| verification | `migration/verify*.go`, `direct_verify.go`, `ovm_verify.go` | none (temporary workspace) |
| support | `tempdb*.go`, `progress.go`, `strictio/`, `cmd/l2state` | temporary directories, log output |

The commands share pieces: prune, migration and OVM conversion all walk the
state with the partitioned migrator, which splits the account trie into 16
ranges and shares one limiter of running work; every command that produces an
artifact publishes it with the same no-replace rename; every artifact is
checked again by the independent verifier before or after publication.

## What is modelled

### Prune (`Prune`, `PruneContract`, `PruneProofs`, `MCPrune`)

`Prune` is the life of one LevelDB under repeated invocations of the command
(`pruneWithHooks`). One action per stage: `Open`, `Collect`, `VerifyKeep`,
`Preflight`, `Reopen` and `FlushBatch` / `DeleteDone` (the delete stage),
`Verify` (both verifications), `Compact`. `FlushFails` is a synced batch write
that returns an error and may or may not have been applied. `Interrupt` is an
I/O error or cancellation at any stage, `Kill` a process kill, which leaves the
temporary directory behind and, if the database was open for writing, possibly
an unfinished `CURRENT.N`. `NodeStart`, `NodeBlock`, `NodeStop` are the node
(external), which holds the same file lock and moves the head.

A record is its key, because values never change while stored; the shape of a
key (content-addressed, 32-byte but not content-addressed, foreign, other) says
what the code would compute from its bytes. The head is identified with the set
of keys a walk of its state reads (`reach`). Inventories are sets of keys: the
counts in the code are their sizes, and the digest of the protected records
identifies the set. Key order is left open, so a batch is any small enough
subset of what is left. A check is the set of errors it may end with, since
which one is met first depends on key order.

Initial databases are arbitrary: records missing, misfiled or foreign, genesis
root node shared with the head's state, absent, damaged or not needed.

Checked (`prune`), and what is behind each property:

- `OnlyGarbageDeleted`: no sequence of failed, killed and repeated invocations,
  with blocks executed in between, removes a record other than a
  content-addressed one that neither the current head nor the genesis root uses.
- `ReportsAreTruthful`, the conjunction of three: complaints about the data are
  raised before the first deletion, and in particular the verification after
  deletion never fails because of what deletion did (`RejectsBeforeDeleting`);
  `deletion_started` and the deletion counters are truthful, also after an
  ambiguous write error (`ReportsCommittedDeletions`); a verified run removed and
  reported exactly the garbage of the database it opened (`VerifiedIsExact`).
- `ImplementsContract`: refinement of `PruneContract`, the promise to the
  operator: garbage may leave at any time, nothing else does, and "clean" means
  that none is left.
- `PruningConverges` (liveness): whoever keeps rerunning gets rid of the
  garbage. Fairness: a started invocation runs on (weak fairness of its
  stages), and the operator reruns the command as its error message says
  (strong fairness, since other invocations may come in between). A pending
  manifest and a running node are the two ways out, both of which the code
  refuses to work on.

Bounds: three records, batches of two, one fault or kill, one block. Three
records allow every mix of retained, genesis, garbage, unknown and foreign
records, and three candidates need two batches. One fault can fall at any step
of any invocation and is followed by any number of reruns; the proofs have no
bound on faults.

### Prune scan (`PruneScan`, `MCPruneScan`)

`walkPruneDifference` with its coordinator, merge cursor, slot ring, job channel
and classifier goroutines. The coordinator's program counter follows `push`:
`read`, `room`, `send`, `drainDirect`, `direct`, `drain`, `close`, `join`. A
classifier takes a job, classifies (reading the context), reports (latch and
done signal). One coordinator action holds at most one read of shared state;
`drainOne` is one action because nothing it does after its context check is
visible to a classifier except the latch.

- `ConsumesInOrder`: `consume` sees a prefix of the source in key order, each
  record once, with the role that plain set difference gives it.
- `StopsAtRejected`: nothing beyond a foreign record, a conflicting value or a
  missing keep key is consumed, although classifiers run ahead.
- `SlotsExclusive`: queue and bytes stay within their limits and a slot has one
  owner, so the sends on its channel of capacity one never block.
- `ErrorIsRootCause`: success means everything was consumed, "cancelled" that
  the caller cancelled, any other error that the database has that fault.
- `ScanReturns`: it always ends, with its goroutines gone (weak fairness of
  every goroutine: the Go scheduler).

The run `prune_scan` chooses between two set-ups: three records of ten kinds with
one classifier and a ring of two slots, so that it wraps, and four records of four
kinds with two classifiers, where results really overtake each other.

### Prune keep writer (`PruneKeep`, `PruneKeepProofs`, `MCPruneKeep`)

`collectPruneState` through `pruneRecordingDB`: goroutines read records (`Get`),
each of which is put into the batch of its shard (`Put`); `Latch` is the failure
latch, `CloseShard` and `CloseDone` the closing of the writer, `CheckLatch` the
end of the collection. A reader may discard the error of a read, as geth's trie
readers do.

- `ReturnedIsPending`: a record that a goroutine was given is in the keep
  database or in its shard's batch, whoever flushes or fails to flush meanwhile.
- `OutcomeIsTruthful`: a successful collection leaves exactly the records read and
  the genesis node (`KeepIsExact`); a failed write or a record that does not hash
  to its key fails the collection, and as itself rather than as a cancellation
  (`FailureIsReported`).

Bounds: two readers of three reads, two shards, batches of two, two failing
writes, one misfiled record. Two keys share a shard, so that one goroutine's
failing flush can meet the other's put. The proofs lift all bounds.

### Publication (`Publish`, `PublishContract`, `PublishProofs`, `MCPublish`)

The life of an output directory in migrate, import, export and the OVM
migration: `Inspect` and `Create` (`newAtomicDir`), `Build`, `Seal`, `Verify`,
`Confirm`, `Report` in the order of each command, `BeforeCommit`, `CommitSync`,
`Rename`, `SyncParent` (`Commit`), `Abort` and `Return`. The file system knows
which contents and entries are synced; `PowerLoss` loses what is not. Until the
parent is synced it may also undo a rename, which puts the directory back under
its staging name, and the removal of a staging directory, after which `Abort` does
not sync (`unsynced`). `Foreign` is another process creating the path.

- `PublishedIsWhole`: what appears at the path is complete, verified and synced,
  also after a power loss.
- `CleansUp`: a staging directory survives its command only after a kill, with an
  error that says so, or because a power loss brought it back (`revived`) after the
  command had returned an error. That of a command that succeeded never comes back:
  success is reported only after the sync of the parent.
- `CanceledNeverPublishes`: a cancellation before `Commit` began prevents it.
- `ImplementsContract`: refinement of `PublishContract`, which has one variable
  for what is at the path and one for what each caller was told: nothing is
  replaced, success means durable, `PublicationDurabilityError` means that it
  took place, any other error that it did not.

Bounds: two commands of any kind, two staging names, one power loss. Two
commands are what a race takes, and names can be drawn again. Commands and names
are interchangeable, so the run uses their symmetry. The proofs lift all bounds.

### Partitioned migration (`MigratePartitioned`, four proof modules, `MCMigratePartitioned`)

One goroutine per partition walks its accounts (`Scan`); an account with storage
or new code opens a burst (`Admit`, `Burst`, `Read`) of jobs (`JobStart`,
`JobSplit`, `JobJoin`, `JobSend`), with storage tasks of their own (`SubStart`,
`SubFinish`), merged in order (`Receive`, `Merge`). Tokens of the work limiter
and slots of the account window are counted. Every acquisition that selects
between a resource and the context may take either when both are ready.

- `ResourcesBalanced`: tokens and slots are exactly those in use, on every error
  path.
- `MergedInOrder`: accounts are merged in hash order, none twice and none skipped.
- `OutcomeIsTruthful`: success means that all of them are merged, and each code
  written by one account (`SuccessIsComplete`); a cancellation is reported only
  when the caller cancelled (`ErrorIsRootCause`).
- `RunReturns`: it always returns; nothing runs afterwards (`ResourcesBalanced`).

Bounds: two partitions and two workers (the fewest the command allows), one
fault, a cancellation. The run `migrate` has two layouts: two large storages that
compete for the tokens their jobs hold; and three accounts in one partition, which
with the slot of the read-ahead fill the window of four while the other partition
waits for a slot, with a code in both. Order and outcome are proved without bounds.

### OVM evidence (`OVMHistory`, `MCOVMHistory`)

`migrateOriginalAndHistory`: the lanes of preimages (`Visit`, `PreimagesEnd`),
history and original state (abstract: `MigratePartitioned`) on one limiter. The
history lane reads blocks (`Read`, `NextBlock`), queues them (`submit`), decodes
them in jobs and drains a full batch in order (`Accept`, `Refill`); a block over
the budget is decoded alone (`Direct`). Receipts may exist hot, frozen or both,
in encodings that match their header or not.

- `HistoryIsExact`: the digest takes blocks in chain order, each once, and only
  receipts that match; of two copies both must match and the frozen one counts.
- `EvidenceIsComplete`: success means the whole chain and an index with exactly
  what preimages and events disclose.
- `StageIsClean`: batches stay within their blocks and bytes (`QueueBounded`), and
  a stage that returned has nothing running and names the cause (`JoinIsClean`).
- `StageReturns`: the stage returns.

Bounds: four blocks, one of them over the budget, one frozen; two workers, one
fault or cancellation. A batch is here filled by its bytes; with two workers the limit
on its blocks takes a chain of six, which is too large to explore with everything else.

### OVM balance conversion (`OVMClassify`, `OVMBalance`, `OVMPatch`)

The three stages of `transformOVMState`, which meet in the temporary index:
`OVMClassify` queues balance slots, `OVMBalance` turns the queue into patches,
`OVMPatch` applies patches to a trie.

`OVMClassify` gives each slot of the token to one namespace of the evidence,
with iterators that stay open from slot to slot and seek after a few steps.
`NothingSkipped`: an iterator never passes evidence of a later slot.
`ClassifiedExactly`: a slot is refused exactly when it has no owner or several. All storages and evidence sets over four slots, one step
before a seek: with four slots a walk, a seek and a hit past the slot occur in
every order.

`OVMBalance` reads the queue in account order (`NextRecord`, `submit`), inspects
accounts in jobs that hold a token and borrow a reader, and applies each batch in
order (`applyBalance`, `Drained`). Amounts are words. `BatchInv`: at every moment
the sums are those of a prefix of the order, and readers are bounded by workers.
`BalancesConserved`: what converts and what remains add up to what there was, and
the token's native balance and supply are what remains; a supply that differs from
the balances is accepted only as an audit explains it (`DifferenceIsExplained`).
`ConversionReturns`: it ends. Five holders for a batch of four, one of each kind,
in two orders; sums of which one overflows the word (9 in the model).

`OVMPatch` is the merge of leaves and patches in `rebuildPatchedTriePrefix`.
`RebuiltExactly`: a root is returned only for the patched trie, although a failing
iterator looks exhausted. It is checked in the run of `OVMAlloc`, which extends
`OVMPatch` and merges both storages and accounts with it, and proved in general.

### Operator's lists (`OVMAlloc`, `MCOVMAlloc`)

The retain list (`RetainLine`, `RetainEnd`) and the genesis allocation, token by
token (`LoadAddress`, `LoadField`, `LoadSlot`, `LoadAccount`, `LoadEnd`), are
streamed into the index, whose batch is flushed when it is full; `unique` looks for
a slot in the keys of the batch and in the database. After conversion the listed
contracts are checked (`Validate`), each allocated account is laid over the state
(`ApplyAccount`, `StorageRebuilt`) and the account trie is rebuilt (`ApplyEnd`,
`Rebuilt`). Both rebuilds are runs of `OVMPatch`, with its failing iterators.

- `RefusesAmbiguous`: the lists are refused exactly when they say two things about
  one address, field or slot, list the token, or retain something without code,
  wherever the flushes fall.
- `AllocIsExact`: the result is the converted state with what the file gives and
  nothing else changed.

Bounds: three addresses of which one is the token, lists of up to three addresses,
allocations of up to two accounts with eleven choices of fields each (repeated names,
slots set and deleted in either order), batches of one to three records, so that a
flush falls between any two writes of a slot.

### OVM commands (`OVMWorkflow`, `MCOVMWorkflow`)

`migrateOVM` and `VerifyOVM` end to end, in the order of the code with the deferred
steps where they run. A command is the sequence of steps left; a failing step leaves
only the deferred ones. Inputs are opened and read in two parts (`OpenInput`,
`ReadInput`), so that `Rewrite` in place can fall in between, while `Replace` leaves
the open handle at the old bytes; `ConfirmInput` reads and hashes them again.
`Lanes`, `Convert` and `Inventory` are abstract: a state is a record of what it was
computed from. `HeadMoves` is the node, `Tamper` somebody altering the artifact.

- `ReportIsReproducible`: a published state is the one computed from the head and the
  very bytes whose digests its report records, also when a file was rewritten while
  it was read.
- `NoStaleInput`: when the last confirmation began every given file had the bytes of
  the report. What changes later is not noticed, nor could it be.
- `VerdictIsTruthful`: what verification accepts is the state its report determines,
  unless the artifact is altered meanwhile; no change or mismatch is reported when
  there was none.
- `LeavesNothing`: no database is open in a removed directory, nothing is published
  with the work directory in it, no handle or directory is left unless removal failed.

Bounds: five choices of inputs, the same or different for both commands; three
disturbances, each a change, a failure or a cancellation at any step.

### Bundles (`Bundle`, `MCBundle`)

Export and scan as the two ends of a record stream. The export reads a source
that may be damaged and rebuilds every root; the scan reads the exported stream
or any other one. A trie is the map it commits to, a hash what it is the hash of;
digests, lengths and the zstd form fit or do not.

- `BundleIsCanonical`: a finished export has written the one canonical stream of
  the committed state, and the scan accepts no other stream. For a foreign bundle
  counts and digests are unconstrained: grammar and roots alone establish it.
- `RoundTrip`: an intact database is exported and the result accepted, unless I/O
  or the context fails; the counts of both ends agree.

Every state over two accounts, two slots each, a value and a code that may be
shared: enough for records out of order, repeated, misplaced or missing.

### Verification (`Verify`, `MCVerify`)

`Verify` and `VerifyDirect`, which differ in where the evidence comes from (`Scan`,
one step): `Load` and `Reread` of the report, the workspace (`Scratch`,
`MakeScratch`, `Leave`), `Open` with head and path metadata, the traversal, the
flat iterators (`compareNext`, `Finish`) and the `Inventory`. The traversal is
concurrent: `Produce` and `Send` are the producers of `state_stream.go`, one for the
accounts and one for what a storage trie has beyond `Threshold`; the consumer
(`TakeAccount`, `Prefix`, `First`, `TakeSlot`, `ProcessCode`) may give up at any leaf
(`Fail`) and then cancels and joins them, innermost first. A database is a map from
keys to good or bad records; one node stands for those on the way to a leaf. In the
hash scheme equal storage tries share their nodes, and a damaged node is noticed
only by the root rebuilt from it.

- `VerdictIsExact`: an artifact is accepted only if its database is, record for
  record, the one that stands for the state, and refused only if something
  differs. The inventory only counts; what makes that enough is that the traversal
  has seen every expected record before.
- `LeavesNothing`: the index is never closed under a producer, nothing runs or
  remains afterwards, except a directory whose removal failed with an error.
- `VerifyReturns`: it ends, also when a producer is blocked on a full channel.

Bounds: the empty state, an account with three slots (one past the one that starts
the stream), three accounts of which two share storage and code; channels of one
leaf; at most two things that go wrong, among them missing, damaged and stray
records, so that a stray one can stand in for a missing one. Not modelled: changes
of the database itself while it is read, and of the report after its last reading.

## Fairness

`WF_vars(Step)`, or weak fairness per goroutine in `PruneScan`: the Go scheduler
runs every goroutine that can proceed, and calls into databases and files return.
`WF_vars(Step)` asks only that some goroutine goes on while one can, which fairness
of each implies. A call that fails is a call that returns, so failing steps belong to
`Step`; their number is bounded, hence a wait that only a failure could end would show
in the behaviours whose failures are used up. The caller's cancellation, kills, power
losses and outside changes are never fair. `PruningConverges` also needs an operator
who reruns.

## What is proved

`PruneProofs` proves, for every set of keys, batch size and number of faults:
`TypeOK`, `StageInv`, `OnlyGarbageDeleted`, the three report properties, and
the refinement of `PruneContract`. None of the properties is inductive alone.
`StageInv` is: while an invocation holds the lock the head it read is the
current one; after collection the keep set is exactly what the head and genesis
need, and all of it is in the database; after preflight the inventory is that
of the database as opened, and no foreign record is there; during deletion the
candidates left are the inventory's minus what was removed. `VerifyPasses` is
the lemma that deleting exactly the candidates makes the second inventory agree
with the first. Assumption: `PruneConstants` only.

`PublishProofs` proves, for any number of commands, names and power losses,
`TypeOK`, `StagingIsOwn` (no command works in another's staging directory),
`PublishedIsWhole` and the refinement of `PublishContract`. The inductive
invariant is `PublishInv`: at each step the staging directory is as the steps
before it left it (`StagedSoFar`), and what a command has published agrees with
what it will report (`ProgressSoFar`). It is needed because the rename moves a
directory whose completeness was established many steps before. `RewriteKeeps`
and `MoveKeeps` say when another command's directory is left alone;
`SyncedRemains` is the lemma about power loss.

It also proves `CanceledNeverPublishes`, by `CancelInv` (a command cancelled in
time never reaches `Commit`), and `CleansUp`. The latter needs from `ProgressSoFar`
that a command whose rename or removal is unsynced is still committing, was killed, or
returns an error, so that a power loss brings back no directory of a successful one.

`PruneKeepProofs` proves, for any shards, readers, batch sizes and failing writes,
`ReturnedIsPending` and `OutcomeIsTruthful`, from the inductive invariant `KeepInv`.
A goroutine's key is in its shard or its error on the way to the latch, so a failure
is never forgotten (`hurt` exactly when it is latched or about to be); until one
occurs, batches and keep database hold nothing that was not read; and closing leaves
empty batches behind it. `FlushMoves` and `PutMoves` are the lemmas about a shard,
the only place where keys move.

`MigratePartitionedProofs`, with its parts `MigrateJobsProofs` (jobs and storage
tasks), `MigrateMergeProofs` (failing, receiving, returning) and `MigrateScanProofs`
(reading and merging), proves `MergedInOrder` and `OutcomeIsTruthful` for any
accounts, partitions, storage tasks, workers and number of failures. The inductive
invariant `MigrateInv` has three parts besides types. `PartitionInv`: what is merged
is a prefix of what is read, and until the burst fails every account in between is
with a job, in the channel or pending, so none can be skipped. `CodeInv`: a code that
an account read so far refers to is claimed by one account, and written exactly when
that account is merged; claiming is done before the code is read, so this needs all
partitions at once. `ErrorInv`: wherever an error is found the run already holds an
error, and a cancellation is found only if the caller cancelled or the run holds its
cause. Tokens and slots do not occur: they bound a run, they do not order it.

`OVMPatchProofs` proves the loop invariant `MergeInv` and `RebuiltExactly` for
every set of keys: keys behind both iterators have their final value, keys ahead
have none, and the next key is always above the last one given to the stack trie.

Assumptions are the named ASSUMEs of the five component modules; nothing else is
assumed.

Only model-checked: liveness, since the prover has no fairness reasoning;
`ResourcesBalanced`, whose sums over partitions and jobs are defined by recursion over
sets, on which the prover has no induction; `PruneScan`, `OVMHistory`, `OVMBalance`,
`OVMClassify`, `OVMAlloc`, `OVMWorkflow` and `Verify`; and `Bundle`, whose canonical
stream is a recursive definition.

## What is not modelled

- Encodings: RLP, JSON, zstd, LevelDB and freezer files. They appear as fitting or
  not. Hashes are injective.
- Progress reporting, logging, flags, exit codes, the fixture generator.
- Strict file opening (`strictio`) and option validation: checks of single calls.
- Trie assembly: joining the roots of partitions into one (`migrate_partitioned.go`)
  is a computation on trie nodes; the models have a trie as the map it commits to, in
  which joining partitions is union.
- The read-write lock of the in-memory database handle (`tempdb*.go`): each operation is
  one library call under the lock, and handles are modelled as open or closed.
- `ovmAllocReader`, which filters white space of the allocation file, and the decoding
  of numbers and addresses: conversions of single bytes and values.
- Comparison of report fields (`report.go`), versions and key prefixes.
- Walks that sync or validate directory entries (`prune_db.go`): no state of their own.

## Plan

1. `Assembly`: trie nodes and the joining of partition roots, as a pure function
   against plain trie construction.
2. Refinement of the state lane of `OVMHistory` by `MigratePartitioned`, and of the
   conversion step of `OVMWorkflow` by `OVMBalance` and `OVMAlloc`.
3. Proofs: `NothingSkipped` of `OVMClassify`; `VerdictIsExact` of `Verify`, whose core
   is that a subset of equal size is the whole set; `BatchInv` and `BalancesConserved`
   of `OVMBalance`; `ReportIsReproducible` of `OVMWorkflow`.
