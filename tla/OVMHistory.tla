----------------------------- MODULE OVMHistory -----------------------------
(***************************************************************************)
(* The evidence stage of an OVM migration (migrateOriginalAndHistory): the *)
(* preimage scan, the canonical history scan and the migration of the      *)
(* original state run beside each other on one work limiter, and the first *)
(* lane that fails cancels the others.                                     *)
(*                                                                         *)
(* The history scan reads the blocks in order, decodes their receipts in   *)
(* jobs of their own, and digests the blocks in order again, one batch at  *)
(* a time.  A batch is bounded in blocks and in bytes; a block larger than *)
(* the whole budget is decoded alone.  Receipts may be kept twice, in the  *)
(* database (hot) and in the freezer (cold), in different encodings: both  *)
(* must match the header, and the cold one enters the digest.              *)
(*                                                                         *)
(* The lane of the original state is abstract here: MigratePartitioned.    *)
(***************************************************************************)
EXTENDS Naturals, Sequences, FiniteSets, FiniteSetsExt, SequencesExt

CONSTANTS
    Size,        \* [block -> the bytes its header and receipts take]
    Frozen,      \* the blocks below Frozen are in the freezer (ancient.count)
    Events,      \* [block -> the token's events in its receipts]
    Preimages,   \* the addresses of the secure-key records
    Addresses,
    Token,       \* ovmETHAddress
    Budget,      \* bytes a batch may hold
    Workers,     \* the work limiter's tokens
    MaxFaults    \* bound on the steps that fail by themselves

Blocks == DOMAIN Size
LastBlock == Max(Blocks)
Capacity == 2 * Workers
Event == [topic : {"Transfer", "Approval"}, from : Addresses, to : Addresses,
          positive : BOOLEAN]

ASSUME HistoryAssumption ==
    /\ LastBlock \in Nat /\ Blocks = 0..LastBlock /\ Size \in [Blocks -> Nat]
    /\ Frozen \in Nat /\ Budget \in Nat /\ MaxFaults \in Nat
    /\ Workers \in Nat \ {0}
    /\ Events \in [Blocks -> SUBSET Event]
    /\ Preimages \subseteq Addresses /\ Token \in Addresses

VARIABLES
    pc,        \* the step of the history coordinator (scanParallel)
    number,    \* the block it is at
    copies,    \* the receipt copies read for each block
    queue,     \* the batch: blocks in order
    bytes,     \* the bytes it accounts for
    job,       \* the decode job of each block
    jobErr,    \* block.err
    failure,   \* the batch's first failure (migrateRunFailure)
    stopped,   \* the scan's own context is cancelled
    accepted,  \* blocks of the queue already accepted by the current drain
    history,   \* what the history digest has absorbed
    retErr,    \* the errors the scan is returning
    index,     \* the evidence database
    batch,     \* the pending index writes of each lane
    lane,      \* the state of each lane
    laneErr,   \* the errors each lane returned
    tokens,    \* tokens taken from the work limiter
    laneStop,  \* the lanes' context is cancelled
    canceled,  \* the caller's context is cancelled
    joined,    \* migrateOriginalAndHistory has returned
    outcome,   \* the errors it returned
    todo,      \* preimages not visited
    faults

scan == <<pc, number, copies, queue, bytes, job, jobErr, failure, stopped, accepted,
          history, retErr>>
vars == <<scan, index, batch, lane, laneErr, tokens, laneStop, canceled, joined,
          outcome, todo, faults>>

Lanes == {"preimage", "history", "state"}
Errors == {"fault", "canceled"}

\* A receipt record: "x" and "y" are encodings that match the header, "bad" does
\* not, "empty" is a record without bytes and "none" no record.
Authentic == {"x", "y"}
Copy == Authentic \cup {"bad", "empty", "none"}

Init ==
    /\ pc = "read"
    /\ number = 0
    /\ copies = [b \in Blocks |-> [hot |-> "none", cold |-> "none"]]
    /\ queue = <<>>
    /\ bytes = 0
    /\ job = [b \in Blocks |-> "none"]
    /\ jobErr = [b \in Blocks |-> {}]
    /\ failure = {}
    /\ stopped = FALSE
    /\ accepted = 0
    /\ history = <<>>
    /\ retErr = {}
    /\ index = {}
    \* Without a witness file the token's own address is still unflushed (prepare).
    /\ batch = [l \in Lanes |-> IF l = "history" THEN {<<"b", Token>>} ELSE {}]
    /\ lane = [l \in Lanes |-> "run"]
    /\ laneErr = [l \in Lanes |-> {}]
    /\ tokens = 0
    /\ laneStop = FALSE
    /\ canceled = FALSE
    /\ joined = FALSE
    /\ outcome = {}
    /\ todo = Preimages
    /\ faults = 0

-----------------------------------------------------------------------------
(* Contexts, faults and the index.                                         *)

LaneDone == canceled \/ laneStop
ScanDone == LaneDone \/ stopped

\* A token is free.  acquire selects between a token and the context, so on a
\* cancelled context it may do either.
Free == tokens < Workers

Errs(busy, done) == (IF busy /\ faults < MaxFaults THEN {"fault"} ELSE {})
                    \cup (IF done THEN {"canceled"} ELSE {})
Count(e) == faults' = IF e = "fault" THEN faults + 1 ELSE faults

\* ovmIndex.put: the batch is written when it is large enough, which depends on
\* the bytes of all earlier puts.
Put(l, entries) ==
    \/ batch' = [batch EXCEPT ![l] = @ \cup entries] /\ UNCHANGED index
    \/ index' = index \cup batch[l] \cup entries /\ batch' = [batch EXCEPT ![l] = {}]
flush(l) ==
    /\ index' = index \cup batch[l]
    /\ batch' = [batch EXCEPT ![l] = {}]

\* event: what one Transfer or Approval adds to the index.
event(e) == {<<"b", e.from>>, <<"b", e.to>>}
            \cup (IF e.topic # "Transfer" THEN {<<"a", e.from, e.to>>}
                  ELSE IF e.positive THEN {<<"f", e.from>>} ELSE {})
Discovered(b) == UNION {event(e) : e \in Events[b]}

LaneReturns(l, errs) ==
    /\ lane' = [lane EXCEPT ![l] = "done"]
    /\ laneErr' = [laneErr EXCEPT ![l] = errs]
    /\ laneStop' = (laneStop \/ errs # {})

-----------------------------------------------------------------------------
(* readBlock.                                                              *)

\* The copies a source can hold for block b.  By convention "x" is the encoding
\* of the record that is selected, "y" that of another hot one.
Stored(b) ==
    IF b < Frozen THEN [hot : Copy, cold : {"x", "bad", "empty"}]
                  ELSE [hot : Copy \ {"y"}, cold : {"none"}]

\* optionalHistoryKV and readCopies: an empty record is an error, not an absence.
\* mergeLegacyHistoryValue: there must be one.
Readable(c) == "empty" \notin {c.hot, c.cold} /\ {c.hot, c.cold} # {"none"}

\* readReceipts: the record for the digest, and the other one when they differ.
Both(c) == c.hot # "none" /\ c.cold # "none" /\ c.hot # c.cold
selected(c) == IF c.cold # "none" THEN c.cold ELSE c.hot
alternate(c) == IF Both(c) THEN {c.hot} ELSE {}

\* decode: both copies must decode and match the header's commitments.
M2_decodes(c) == selected(c) \in Authentic
decodes(c) == {selected(c)} \cup alternate(c) \subseteq Authentic

-----------------------------------------------------------------------------
(* The history coordinator: scanParallel.                                  *)

NoRoom == Len(queue) = Capacity \/ Size[number] + bytes > Budget

ending == <<canceled, joined, outcome>>
others == <<lane, laneErr, tokens, laneStop, ending, todo>>
NextBlock == IF number = LastBlock THEN pc' = "last" /\ UNCHANGED number
                              ELSE pc' = "read" /\ number' = number + 1

\* The block joins the batch and gets a job, unless it exceeds the budget.
submit ==
    /\ queue' = Append(queue, number)
    /\ bytes' = bytes + Size[number]
    /\ job' = [job EXCEPT ![number] = "start"]
    /\ NextBlock
Place ==
    IF Size[number] > Budget
      THEN pc' = "direct" /\ UNCHANGED <<queue, bytes, job, number>>
      ELSE submit

\* The scan is about to return errs: it cancels its context and waits for jobs.
Close(errs) ==
    /\ pc' = "close"
    /\ retErr' = errs
    /\ stopped' = TRUE

\* readBlock finds the header and its parent link in order, and one or two
\* receipt records.
Read ==
    /\ pc = "read" /\ Free
    /\ \E c \in Stored(number) :
          IF Readable(c)
            THEN /\ copies' = [copies EXCEPT ![number] = c]
                 /\ IF NoRoom THEN pc' = "room" /\ UNCHANGED <<queue, bytes, job, number>>
                              ELSE Place
                 /\ UNCHANGED <<stopped, retErr>>
            ELSE /\ Close({"fault"})
                 /\ UNCHANGED <<copies, queue, bytes, job, number>>
    /\ UNCHANGED <<jobErr, failure, accepted, history, index, batch, others, faults>>

\* drainHistory: every job of the batch has ended; their errors are joined.
Drained == \A k \in DOMAIN queue : job[queue[k]] = "done"
queueErr == UNION {jobErr[queue[k]] : k \in DOMAIN queue}

drains == {"room", "last"}

DrainFails ==
    /\ pc \in drains /\ Drained /\ queueErr # {}
    /\ Close(queueErr)
    /\ UNCHANGED <<number, copies, queue, bytes, job, jobErr, failure, accepted,
                   history, index, batch, others, faults>>

\* acceptBlock: the block enters the digest, its events the index.
Digest(b) ==
    /\ history' = Append(history, <<b, selected(copies[b])>>)
    /\ Put("history", Discovered(b))

\* The next block of the drained batch.
Accept ==
    /\ pc \in drains /\ Drained /\ queueErr = {} /\ accepted < Len(queue)
    /\ Free
    /\ Digest(queue[accepted + 1])
    /\ accepted' = accepted + 1
    /\ UNCHANGED <<pc, number, copies, queue, bytes, job, jobErr, failure, stopped,
                   retErr, others, faults>>

\* The batch is empty again; the block that did not fit is placed.
Refill ==
    /\ pc = "room" /\ Drained /\ queueErr = {} /\ accepted = Len(queue)
    /\ accepted' = 0
    /\ IF Size[number] > Budget
         THEN /\ pc' = "direct"
              /\ queue' = <<>> /\ bytes' = 0
              /\ UNCHANGED <<job, number>>
         ELSE /\ queue' = <<number>> /\ bytes' = Size[number]
              /\ job' = [job EXCEPT ![number] = "start"]
              /\ NextBlock
    /\ UNCHANGED <<copies, jobErr, failure, stopped, history, retErr, index, batch,
                   others, faults>>

\* A block larger than the budget: decoded by the coordinator itself.
Direct ==
    /\ pc = "direct" /\ Free
    /\ IF decodes(copies[number])
         THEN pc' = "single" /\ UNCHANGED <<stopped, retErr>>
         ELSE Close({"fault"})
    /\ UNCHANGED <<number, copies, queue, bytes, job, jobErr, failure, accepted,
                   history, index, batch, others, faults>>
AcceptDirect ==
    /\ pc = "single" /\ Free
    /\ Digest(number)
    /\ NextBlock
    /\ UNCHANGED <<copies, queue, bytes, job, jobErr, failure, stopped, accepted,
                   retErr, others, faults>>

\* A read, a malformed event or an index write fails, or the context is done.
ScanFails ==
    /\ \/ pc \in {"read", "direct", "single"}
       \/ pc \in drains /\ Drained /\ queueErr = {} /\ accepted < Len(queue)
    /\ \E e \in Errs(Free, ScanDone) : Close({e}) /\ Count(e)
    /\ UNCHANGED <<number, copies, queue, bytes, job, jobErr, failure, accepted,
                   history, index, batch, others>>

\* The last batch is accepted: the head is reached and the index is flushed.
ScanEnds ==
    /\ pc = "last" /\ Drained /\ queueErr = {} /\ accepted = Len(queue)
    /\ pc' = "close" /\ stopped' = TRUE
    /\ UNCHANGED <<number, copies, queue, bytes, job, jobErr, failure, accepted,
                   history, retErr, index, batch, others, faults>>

\* M5: the scan returns while jobs still run.
M5_HistoryReturns ==
    /\ pc = "close"
    /\ pc' = "returned"
    /\ \E e \in {{}} \cup {{f} : f \in Errs(TRUE, FALSE)} :
          /\ LaneReturns("history", retErr \cup failure \cup e)
          /\ faults' = faults + Cardinality(e)
    /\ IF retErr \cup failure = {} THEN flush("history") ELSE UNCHANGED <<index, batch>>
    /\ UNCHANGED <<number, copies, queue, bytes, job, jobErr, failure, stopped,
                   accepted, history, retErr, tokens, ending, todo>>

\* No job runs any more.  The batch's first failure is joined, the index is
\* flushed on success, and the freezer files are confirmed and closed.
HistoryReturns ==
    /\ pc = "close" /\ \A b \in Blocks : job[b] \in {"none", "done"}
    /\ pc' = "returned"
    /\ \E e \in {{}} \cup {{f} : f \in Errs(TRUE, FALSE)} :
          /\ LaneReturns("history", retErr \cup failure \cup e)
          /\ faults' = faults + Cardinality(e)
    /\ IF retErr \cup failure = {} THEN flush("history") ELSE UNCHANGED <<index, batch>>
    /\ UNCHANGED <<number, copies, queue, bytes, job, jobErr, failure, stopped,
                   accepted, history, retErr, tokens, ending, todo>>

-----------------------------------------------------------------------------
(* The decode jobs: submit and process.                                    *)

coordinator == <<pc, number, copies, queue, bytes, accepted, history, retErr>>

JobStart(b) ==
    /\ job[b] = "start" /\ Free
    /\ tokens' = tokens + 1
    /\ job' = [job EXCEPT ![b] = "hold"]
    /\ UNCHANGED <<coordinator, jobErr, failure, stopped, index, batch, lane, laneErr,
                   laneStop, ending, todo, faults>>

\* What process may return: a decode error, the context's, or none when the
\* context is still live after a successful decode.
jobErrs(b) ==
    (IF ScanDone THEN {{"canceled"}} ELSE {})
    \cup (IF job[b] # "hold" THEN {}
          ELSE IF ~decodes(copies[b]) THEN {{"fault"}}
          ELSE IF ScanDone THEN {} ELSE {{}})

\* The job ends: a failure is recorded, and then the scan is cancelled.
M7_JobEnd(b) ==
    /\ job[b] \in {"start", "hold"}
    /\ \E errs \in jobErrs(b) :
          /\ jobErr' = [jobErr EXCEPT ![b] = errs]
          /\ failure' = IF failure = {} THEN errs ELSE failure
          /\ stopped' = (stopped \/ errs # {})
    /\ UNCHANGED tokens
    /\ job' = [job EXCEPT ![b] = "done"]
    /\ UNCHANGED <<coordinator, index, batch, lane, laneErr, laneStop, ending,
                   todo, faults>>
JobEnd(b) ==
    /\ job[b] \in {"start", "hold"}
    /\ \E errs \in jobErrs(b) :
          /\ jobErr' = [jobErr EXCEPT ![b] = errs]
          /\ failure' = IF failure = {} THEN errs ELSE failure
          /\ stopped' = (stopped \/ errs # {})
    /\ tokens' = IF job[b] = "hold" THEN tokens - 1 ELSE tokens
    /\ job' = [job EXCEPT ![b] = "done"]
    /\ UNCHANGED <<coordinator, index, batch, lane, laneErr, laneStop, ending,
                   todo, faults>>

-----------------------------------------------------------------------------
(* The other lanes, and the join.                                          *)

\* collectOVMPreimages: one record under the lease.
Visit(a) ==
    /\ lane["preimage"] = "run" /\ a \in todo /\ Free
    /\ Put("preimage", {<<"b", a>>})
    /\ todo' = todo \ {a}
    /\ UNCHANGED <<scan, lane, laneErr, tokens, laneStop, ending, faults>>

M8_PreimagesEnd ==
    /\ lane["preimage"] = "run" /\ todo = {} /\ Free /\ ~LaneDone
    /\ LaneReturns("preimage", {})
    /\ UNCHANGED <<scan, tokens, ending, todo, faults, index, batch>>
PreimagesEnd ==
    /\ lane["preimage"] = "run" /\ todo = {} /\ Free /\ ~LaneDone
    /\ flush("preimage")
    /\ LaneReturns("preimage", {})
    /\ UNCHANGED <<scan, tokens, ending, todo, faults>>

PreimagesFail ==
    /\ lane["preimage"] = "run"
    /\ \E e \in Errs(Free, LaneDone) : LaneReturns("preimage", {e}) /\ Count(e)
    /\ UNCHANGED <<scan, index, batch, tokens, ending, todo>>

\* runOVMPartitioned takes tokens and gives them back on every path.
StateWorks ==
    /\ lane["state"] = "run" /\ Free
    /\ lane' = [lane EXCEPT !["state"] = "hold"]
    /\ tokens' = tokens + 1
    /\ UNCHANGED <<scan, index, batch, laneErr, laneStop, ending, todo, faults>>
StateReturns ==
    /\ lane["state"] \in {"run", "hold"}
    /\ \E errs \in {{e} : e \in Errs(lane["state"] = "hold", LaneDone)}
                   \cup (IF lane["state"] = "hold" THEN {{}} ELSE {}) :
          /\ LaneReturns("state", errs)
          /\ faults' = faults + Cardinality(errs \ {"canceled"})
    /\ tokens' = IF lane["state"] = "hold" THEN tokens - 1 ELSE tokens
    /\ UNCHANGED <<scan, index, batch, ending, todo>>

\* All lanes have returned: their errors are joined, and without one the
\* original state is finalized and opened again (reopenOriginal).
Join ==
    /\ ~joined /\ \A l \in Lanes : lane[l] = "done"
    /\ joined' = TRUE
    /\ LET errs == UNION {laneErr[l] : l \in Lanes}
       IN  outcome' \in IF errs # {} THEN {errs}
                        ELSE {{}, {"fault"}} \cup (IF canceled THEN {{"canceled"}} ELSE {})
    /\ UNCHANGED <<scan, index, batch, lane, laneErr, tokens, laneStop, canceled, todo,
                   faults>>

Cancel ==
    /\ ~canceled /\ ~joined
    /\ canceled' = TRUE
    /\ UNCHANGED <<scan, index, batch, lane, laneErr, tokens, laneStop, joined, outcome,
                   todo, faults>>

Returned == joined /\ UNCHANGED vars

\* Everything but the caller's cancellation.
Step ==
    \/ Read \/ DrainFails \/ Accept \/ Refill \/ Direct \/ AcceptDirect
    \/ ScanFails \/ ScanEnds \/ HistoryReturns
    \/ \E b \in Blocks : JobStart(b) \/ JobEnd(b)
    \/ \E a \in Preimages : Visit(a)
    \/ PreimagesEnd \/ PreimagesFail \/ StateWorks \/ StateReturns \/ Join

Next == Step \/ Cancel \/ Returned

Spec == Init /\ [][Next]_vars

\* The Go scheduler runs every goroutine that can run.
FairSpec == Spec /\ WF_vars(Step)

-----------------------------------------------------------------------------
(* Properties.                                                             *)

\* The variables keep the types of the Go values they stand for.
TypeOK ==
    /\ pc \in {"read", "room", "last", "direct", "single", "close", "returned"}
    /\ number \in Blocks /\ accepted \in 0..Len(queue)
    /\ copies \in [Blocks -> [hot : Copy, cold : Copy]]
    /\ queue \in Seq(Blocks) /\ bytes \in Nat
    /\ job \in [Blocks -> {"none", "start", "hold", "done"}]
    /\ jobErr \in [Blocks -> SUBSET Errors]
    /\ failure \subseteq Errors /\ retErr \subseteq Errors /\ outcome \subseteq Errors
    /\ lane \in [Lanes -> {"run", "hold", "done"}]
    /\ laneErr \in [Lanes -> SUBSET Errors]
    /\ tokens \in 0..Workers /\ todo \subseteq Preimages
    /\ {stopped, laneStop, canceled, joined} \subseteq BOOLEAN

\* The digest absorbs the blocks in chain order, none twice and none skipped,
\* whatever the order the decode jobs end in and wherever oversized blocks fall
\* (scanParallel, drainHistory).  Only receipts that match their header are
\* digested, and where the two stores differ both match; the digest takes the
\* frozen encoding (readReceipts, decode).
HistoryIsExact ==
    \A k \in DOMAIN history :
        LET c == copies[history[k][1]]
        IN  /\ history[k][1] = k - 1
            /\ {c.hot, c.cold} \ {"none"} \subseteq Authentic
            /\ history[k][2] = IF c.cold # "none" THEN c.cold ELSE c.hot

\* The queue holds at most two blocks per worker and no more bytes than the
\* budget; a block that exceeds the budget is handled with an empty queue.
QueueBounded ==
    /\ TypeOK
    /\ Len(queue) <= Capacity
    /\ bytes <= Budget
    /\ bytes = MapThenSumSet(LAMBDA k : Size[queue[k]], DOMAIN queue)
    /\ pc \in {"direct", "single"} => queue = <<>>

\* Success means that the whole chain was digested and that the index holds
\* exactly the token's address, the preimages and what the events disclose, with
\* retention eligibility only for senders of a positive transfer: nothing stays
\* behind in a lane's batch.
EvidenceIsComplete ==
    (joined /\ outcome = {}) =>
        /\ Len(history) = LastBlock + 1
        /\ index = {<<"b", Token>>} \cup {<<"b", a>> : a \in Preimages}
                   \cup {<<"b", e.from>> : e \in UNION {Events[b] : b \in Blocks}}
                   \cup {<<"b", e.to>> : e \in UNION {Events[b] : b \in Blocks}}
                   \cup UNION {{<<"f", e.from>> : e \in {x \in Events[b] :
                                   x.topic = "Transfer" /\ x.positive}} : b \in Blocks}
                   \cup UNION {{<<"a", e.from, e.to>> : e \in {x \in Events[b] :
                                   x.topic = "Approval"}} : b \in Blocks}

\* The stage returns only after every job and lane has ended and given its token
\* back, and reports the error of the one that failed: cancellation alone is
\* reported only when the caller cancelled.
JoinIsClean ==
    /\ lane["history"] = "done" => \A b \in Blocks : job[b] \in {"none", "done"}
    /\ joined => tokens = 0
    /\ joined /\ outcome = {"canceled"} => canceled

\* Memory, tokens and goroutines of the stage stay accounted for.
StageIsClean == QueueBounded /\ JoinIsClean

\* The stage always returns: lanes, jobs and coordinator never wait for each
\* other in a circle, also when one fails while others wait for tokens.
StageReturns == <>joined

=============================================================================
