----------------------------- MODULE PruneScan -----------------------------
(***************************************************************************)
(* The scan shared by preflight, deletion and verification of the prune    *)
(* command (src/internal/migration/prune_pipeline.go): a coordinator       *)
(* merges the source iterator with the keep iterator, hands records to     *)
(* classifier goroutines through a ring of slots and a channel, and        *)
(* consumes them in key order.                                             *)
(*                                                                         *)
(* Keys are 1..N in byte order.  What the scan can tell about key k is     *)
(* input[k]:                                                               *)
(*   src    is it in the source database?                                  *)
(*   keep   is it in the keep database: "no", "same" or "differs" (in      *)
(*          value)                                                         *)
(*   hash32 is the key 32 bytes long?                                      *)
(*   match  does the key hash the value?                                   *)
(*   foreign does rejectPruneForeignKey refuse it?                         *)
(*   size   the bytes of key and value                                     *)
(***************************************************************************)
EXTENDS Integers, Sequences, FiniteSetsExt, SequencesExt

CONSTANTS
    Scans,        \* the scans to examine: an execution, and the keys and kinds of records
    ParallelSize  \* a 32-byte record of this size is worth a dispatch

ASSUME PruneScanConstants ==
    \A s \in Scans :
        /\ s.execution \in [workers : Nat \ {0}, scanBytes : Nat]
        /\ s.keys \in Nat
        /\ s.kinds \subseteq [src : BOOLEAN, keep : {"no", "same", "differs"},
                             hash32 : BOOLEAN, match : BOOLEAN, foreign : BOOLEAN,
                             size : Nat \ {0}]

VARIABLES
    execution,  \* pruneExecution: workers and scanBytes
    input,
    pos, role,  \* the source record read last, and its role from the cursor
    cursor,     \* pruneMergeCursor: the current keep key, N + 1 when exhausted
    pc,         \* the coordinator
    slots, first, pending, bytes,
    jobs,       \* the channel of slots to classify
    closed,     \* close(jobs) was called
    worker,     \* the classifiers, "off" before startWorkers
    cancelled,  \* the pipeline's context
    userCancelled, \* the caller's context
    failure,    \* migrateRunFailure
    retErr,
    consumed    \* history: records passed to consume, with their roles

ring == <<slots, first, pending, bytes>>
vars == <<execution, input, pos, role, cursor, pc, slots, first, pending, bytes, jobs, closed, worker,
          cancelled, userCancelled, failure, retErr, consumed>>

N == Len(input)
Slots == 0 .. 2 * execution.workers - 1
JobsCap == IF execution.workers > 2 THEN execution.workers - 1 ELSE 1
Classifiers == 1 .. JobsCap

Source == {k \in 1..N : input[k].src}
Keep == {k \in 1..N : input[k].keep # "no"}
NextKey(S, k) == Min({j \in S : j > k} \cup {N + 1})

-----------------------------------------------------------------------------
(* pruneMergeCursor.role: an error, "RetainState", "Unclassified" or "Protect".
   M1 advances past a keep key that the source lacks. *)
M1_cursorRole(k) ==
    CASE cursor = k /\ input[k].keep = "differs" -> "conflict"
      [] cursor = k                              -> "RetainState"
      [] cursor # k /\ input[k].hash32           -> "Unclassified"
      [] OTHER                                   -> "Protect"
cursorRole(k) ==
    CASE cursor < k                              -> "missing"
      [] cursor = k /\ input[k].keep = "differs" -> "conflict"
      [] cursor = k                              -> "RetainState"
      [] cursor > k /\ input[k].hash32           -> "Unclassified"
      [] OTHER                                   -> "Protect"

(* classifyPruneRecord without the context check: the final role, and the
   error. *)
finalRole(k, r) ==
    IF r # "Unclassified" THEN r
    ELSE IF input[k].match THEN "Delete" ELSE "Unknown"

classifyError(k, r) ==
    IF finalRole(k, r) \notin {"Delete", "RetainState"} /\ input[k].foreign
    THEN "foreign" ELSE "none"

contextError == IF cancelled THEN "cancelled" ELSE "none"

(* fail(err): the first error that is not a cancellation is kept, and cancels
   the pipeline.  M2 also keeps cancellations. *)
M2_recorded(e) == IF failure = "none" THEN e ELSE failure
recorded(e) == IF failure = "none" /\ e # "cancelled" THEN e ELSE failure

fail(e) ==
    /\ failure' = recorded(e)
    /\ cancelled' = (cancelled \/ failure' # failure)

Return(e) ==
    /\ retErr' = e
    /\ pc' = "close"

(* push: small records are not worth a dispatch when nothing is queued, and an
   oversize record is never queued. *)
Direct(k, r) ==
    \/ input[k].size > execution.scanBytes
    \/ ~(r = "Unclassified" /\ input[k].size >= ParallelSize) /\ pending = 0

(* push: does record k fit in the ring and in the byte allowance?  M3 forgets
   the record itself. *)
M3_HasRoom(k) == pending < Cardinality(Slots) /\ bytes < execution.scanBytes
HasRoom(k) == pending < Cardinality(Slots) /\ bytes + input[k].size <= execution.scanBytes

-----------------------------------------------------------------------------
(* The coordinator: walkPruneDifference and push. *)

Init ==
    /\ \E s \in Scans : execution = s.execution /\ input \in [1..s.keys -> s.kinds]
    /\ pos = 0 /\ role = "Protect" /\ cursor = NextKey(Keep, 0) /\ pc = "read"
    /\ slots = [s \in Slots |-> [key |-> 0, role |-> "Protect", err |-> "none",
                                 done |-> FALSE]]
    /\ first = 0 /\ pending = 0 /\ bytes = 0
    /\ jobs = <<>> /\ closed = FALSE
    /\ worker = [w \in Classifiers |-> [state |-> "off", slot |-> 0]]
    /\ cancelled = FALSE /\ userCancelled = FALSE
    /\ failure = "none" /\ retErr = "none" /\ consumed = <<>>

(* source.Next(), cursor.role and the context check at the head of push. *)
Read ==
    LET k == NextKey(Source, pos)
        r == cursorRole(k)
    IN  /\ pc = "read" /\ k <= N
        /\ pos' = k
        /\ IF r \in {"missing", "conflict"}
           THEN Return(r) /\ UNCHANGED <<role, cursor>>
           ELSE /\ role' = r
                /\ cursor' = IF r = "RetainState" THEN NextKey(Keep, cursor) ELSE cursor
                /\ IF cancelled THEN Return("cancelled")
                   ELSE /\ pc' = IF Direct(k, r) THEN "drainDirect" ELSE "room"
                        /\ UNCHANGED retErr
        /\ UNCHANGED <<execution, input, ring, jobs, closed, worker, cancelled, userCancelled,
                       failure, consumed>>

(* The source is exhausted: a keep key left over is an error, otherwise what
   is queued is drained. *)
ReadEnd ==
    /\ pc = "read" /\ NextKey(Source, pos) > N
    /\ IF cursor <= N THEN Return("missing")
       ELSE pc' = "drain" /\ UNCHANGED retErr
    /\ UNCHANGED <<execution, input, pos, role, cursor, ring, jobs, closed, worker, cancelled,
                   userCancelled, failure, consumed>>

(* The source or the keep iterator reports an I/O error. *)
IteratorFails ==
    /\ pc = "read"
    /\ Return("io")
    /\ UNCHANGED <<execution, input, pos, role, cursor, ring, jobs, closed, worker, cancelled,
                   userCancelled, failure, consumed>>

(* drainOne: wait for the oldest slot, then consume it unless it or the
   pipeline failed; consume itself may fail.  The slot is free again. *)
DrainOne ==
    LET r == slots[first]
        skip == IF r.err # "none" THEN r.err ELSE contextError
    IN  /\ \/ pc \in {"drain", "drainDirect"} /\ pending > 0
           \/ pc = "room" /\ ~HasRoom(pos)
        /\ r.done
        /\ \E e \in IF skip # "none" THEN {skip} ELSE {"none", "write"} :
             /\ consumed' = IF e = "none" THEN Append(consumed, <<r.key, r.role>>)
                            ELSE consumed
             /\ fail(e)
             /\ IF e = "none" THEN UNCHANGED <<pc, retErr>> ELSE Return(e)
        /\ slots' = [slots EXCEPT ![first].key = 0, ![first].err = "none",
                                  ![first].done = FALSE]
        /\ first' = (first + 1) % Cardinality(Slots)
        /\ pending' = pending - 1
        /\ bytes' = bytes - input[r.key].size
        /\ UNCHANGED <<execution, input, pos, role, cursor, jobs, closed, worker, userCancelled>>

(* drain returns the context's error once nothing is queued.  M7 consumes an
   oversize record without draining. *)
M7_Drained ==
    /\ pc \in {"drain", "drainDirect"} /\ (pending = 0 \/ pc = "drainDirect")
    /\ IF pc = "drain" \/ cancelled THEN Return(contextError)
       ELSE pc' = "direct" /\ UNCHANGED retErr
    /\ UNCHANGED <<execution, input, pos, role, cursor, ring, jobs, closed, worker, cancelled,
                   userCancelled, failure, consumed>>
Drained ==
    /\ pc \in {"drain", "drainDirect"} /\ pending = 0
    /\ IF pc = "drain" \/ cancelled THEN Return(contextError)
       ELSE pc' = "direct" /\ UNCHANGED retErr
    /\ UNCHANGED <<execution, input, pos, role, cursor, ring, jobs, closed, worker, cancelled,
                   userCancelled, failure, consumed>>

(* consumeDirect: classify and consume on the coordinator; its error is
   returned without fail. *)
ConsumeDirect ==
    LET skip == IF cancelled THEN "cancelled" ELSE classifyError(pos, role)
    IN  /\ pc = "direct"
        /\ \E e \in IF skip # "none" THEN {skip} ELSE {"none", "write"} :
             IF e = "none"
             THEN /\ consumed' = Append(consumed, <<pos, finalRole(pos, role)>>)
                  /\ pc' = "read" /\ UNCHANGED retErr
             ELSE Return(e) /\ UNCHANGED consumed
        /\ UNCHANGED <<execution, input, pos, role, cursor, ring, jobs, closed, worker, cancelled,
                       userCancelled, failure>>

(* push: fill the next slot, and start the classifiers if this is the first. *)
Enqueue ==
    LET s == (first + pending) % Cardinality(Slots)
    IN  /\ pc = "room" /\ HasRoom(pos)
        /\ slots' = [slots EXCEPT ![s].key = pos, ![s].role = role]
        /\ pending' = pending + 1
        /\ bytes' = bytes + input[pos].size
        /\ worker' = [w \in Classifiers |-> IF worker[w].state = "off"
                         THEN [state |-> "idle", slot |-> 0] ELSE worker[w]]
        /\ pc' = "send"
        /\ UNCHANGED <<execution, input, pos, role, cursor, first, jobs, closed, cancelled,
                       userCancelled, failure, retErr, consumed>>

(* push: jobs <- r blocks while the channel is full. *)
Send ==
    LET s == (first + pending - 1) % Cardinality(Slots)
    IN  /\ pc = "send" /\ Len(jobs) < JobsCap
        /\ jobs' = Append(jobs, s)
        /\ pc' = "read"
        /\ UNCHANGED <<execution, input, pos, role, cursor, ring, closed, worker, cancelled,
                       userCancelled, failure, retErr, consumed>>

(* The deferred function: cancel, close the channel ... *)
Close ==
    /\ pc = "close"
    /\ cancelled' = TRUE /\ closed' = TRUE
    /\ pc' = "join"
    /\ UNCHANGED <<execution, input, pos, role, cursor, ring, jobs, worker, userCancelled,
                   failure, retErr, consumed>>

(* ... wait for the classifiers, and let a recorded failure replace the error
   of the coordinator, which may be a cancellation it caused. *)
result == IF failure # "none" THEN failure ELSE retErr

Join ==
    /\ pc = "join"
    /\ \A w \in Classifiers : worker[w].state \in {"off", "exited"}
    /\ retErr' = result
    /\ pc' = "returned"
    /\ UNCHANGED <<execution, input, pos, role, cursor, ring, jobs, closed, worker, cancelled,
                   userCancelled, failure, consumed>>

-----------------------------------------------------------------------------
(* A classifier goroutine of startWorkers. *)

Take(w) ==
    /\ worker[w].state = "idle" /\ jobs # <<>>
    /\ worker' = [worker EXCEPT ![w] = [state |-> "classify", slot |-> Head(jobs)]]
    /\ jobs' = Tail(jobs)
    /\ UNCHANGED <<execution, input, pos, role, cursor, pc, ring, closed, cancelled,
                   userCancelled, failure, retErr, consumed>>

Classify(w) ==
    LET s == worker[w].slot
        r == slots[s]
        e == IF cancelled THEN "cancelled" ELSE classifyError(r.key, r.role)
    IN  /\ worker[w].state = "classify"
        /\ slots' = [slots EXCEPT ![s].err = e,
                        ![s].role = IF cancelled THEN r.role ELSE finalRole(r.key, r.role)]
        /\ worker' = [worker EXCEPT ![w].state = "report"]
        /\ UNCHANGED <<execution, input, pos, role, cursor, pc, first, pending, bytes, jobs, closed,
                       cancelled, userCancelled, failure, retErr, consumed>>

(* fail(r.err), then r.done <- struct{}{}: the buffer of one is empty, see
   SlotsExclusive.  M6 leaves without signalling a cancelled record. *)
M6_signals(e) == e # "cancelled"
signals(e) == TRUE

Report(w) ==
    LET s == worker[w].slot
    IN  /\ worker[w].state = "report"
        /\ fail(slots[s].err)
        /\ slots' = [slots EXCEPT ![s].done = signals(slots[s].err)]
        /\ worker' = [worker EXCEPT ![w].state = "idle"]
        /\ UNCHANGED <<execution, input, pos, role, cursor, pc, first, pending, bytes, jobs, closed,
                       userCancelled, retErr, consumed>>

Exit(w) ==
    /\ worker[w].state = "idle" /\ closed /\ jobs = <<>>
    /\ worker' = [worker EXCEPT ![w].state = "exited"]
    /\ UNCHANGED <<execution, input, pos, role, cursor, pc, ring, jobs, closed, cancelled,
                   userCancelled, failure, retErr, consumed>>

-----------------------------------------------------------------------------
(* The caller's context is cancelled. *)
UserCancel ==
    /\ ~userCancelled /\ pc # "returned"
    /\ userCancelled' = TRUE /\ cancelled' = TRUE
    /\ UNCHANGED <<execution, input, pos, role, cursor, pc, ring, jobs, closed, worker, failure,
                   retErr, consumed>>

Coordinator ==
    \/ Read \/ ReadEnd \/ DrainOne \/ Drained \/ ConsumeDirect \/ Enqueue \/ Send
    \/ Close \/ Join

Classifier(w) == Take(w) \/ Classify(w) \/ Report(w) \/ Exit(w)

Terminated == pc = "returned" /\ UNCHANGED vars

Next ==
    \/ Coordinator
    \/ \E w \in Classifiers : Classifier(w)
    \/ IteratorFails \/ UserCancel \/ Terminated

Spec == Init /\ [][Next]_vars

(* Go schedules every goroutine that can run. *)
FairSpec ==
    /\ Spec
    /\ WF_vars(Coordinator)
    /\ \A w \in 1 .. Max({s.execution.workers : s \in Scans}) :
         WF_vars(w \in Classifiers /\ Classifier(w))

-----------------------------------------------------------------------------
Roles == {"RetainState", "Unclassified", "Protect", "Delete", "Unknown"}
ScanErrors == {"none", "missing", "conflict", "foreign", "cancelled", "io", "write"}

(* Types of the variables. *)
TypeOK ==
    /\ \E s \in Scans : execution = s.execution /\ input \in [1..s.keys -> s.kinds]
    /\ pos \in 0..N /\ role \in Roles /\ cursor \in 1..(N + 1)
    /\ pc \in {"read", "room", "send", "drain", "drainDirect", "direct", "close",
               "join", "returned"}
    /\ slots \in [Slots -> [key : 0..N, role : Roles, err : ScanErrors, done : BOOLEAN]]
    /\ first \in Slots /\ pending \in 0..Cardinality(Slots) /\ bytes \in Int
    /\ jobs \in Seq(Slots) /\ Len(jobs) <= JobsCap
    /\ worker \in [Classifiers -> [state : {"off", "idle", "classify", "report", "exited"},
                                   slot : Slots]]
    /\ closed \in BOOLEAN /\ cancelled \in BOOLEAN /\ userCancelled \in BOOLEAN
    /\ failure \in ScanErrors /\ retErr \in ScanErrors
    /\ consumed \in Seq((1..N) \X Roles)

(* What the scan is for: the role of a source record as a set difference with
   the keep database. *)
RoleOf(k) ==
    CASE input[k].keep # "no"                   -> "RetainState"
      [] input[k].keep = "no" /\ input[k].hash32 ->
            IF input[k].match THEN "Delete" ELSE "Unknown"
      [] OTHER                                  -> "Protect"

(* Classification runs in parallel and out of order, but consume sees a prefix
   of the source in key order, every record once and with the role the set
   difference gives it (drainOne, consumeDirect). *)
ConsumesInOrder ==
    /\ \A i \in 1..Len(consumed) :
         LET k == consumed[i][1]
         IN  /\ k \in Source /\ Cardinality({j \in Source : j < k}) = i - 1
             /\ consumed[i][2] = RoleOf(k)

(* Nothing at or beyond a record that must stop the scan is ever consumed: a
   foreign record, a conflicting value, a keep key the source lacks
   (pruneMergeCursor.role, rejectPruneForeignKey). *)
StopsAtRejected ==
    \A i \in 1..Len(consumed) :
        \A k \in 1..consumed[i][1] :
            /\ k \in Keep => k \in Source /\ input[k].keep = "same"
            /\ k \in Source /\ input[k].foreign => RoleOf(k) \in {"Delete", "RetainState"}

(* The queue's bytes stay within the allowance, and the counter is the size of
   what the slots hold (push, drainOne). *)
WithinAllowance ==
    /\ bytes <= execution.scanBytes
    /\ bytes = FoldFunction(+, 0, [s \in Slots |->
                   IF slots[s].key = 0 THEN 0 ELSE input[slots[s].key].size])

(* A slot is handed to at most one classifier at a time, and neither rewritten
   nor signalled again before the coordinator took its result: the sends on its
   channel of capacity one never block (push, startWorkers).  The bytes stay
   within their allowance. *)
Handed(s) ==
    Cardinality({i \in 1..Len(jobs) : jobs[i] = s})
        + Cardinality({w \in Classifiers : worker[w].state \in {"classify", "report"}
                                           /\ worker[w].slot = s})
SlotsExclusive ==
    /\ TypeOK
    /\ WithinAllowance
    /\ \A s \in Slots :
        LET unsent == pc = "send" /\ s = (first + pending - 1) % Cardinality(Slots)
        IN  Handed(s) + (IF slots[s].done THEN 1 ELSE 0) + (IF unsent THEN 1 ELSE 0)
              = IF slots[s].key = 0 THEN 0 ELSE 1

(* The error returned is a cause: success means that all of the source was
   consumed, a cancellation is reported only when the caller cancelled, and
   each other error only for a database that has the fault
   (walkPruneDifference's deferred function). *)
ErrorIsRootCause ==
    pc = "returned" =>
        /\ retErr = "none" => /\ Len(consumed) = Cardinality(Source)
                              /\ Keep \subseteq Source
        /\ retErr = "cancelled" => userCancelled
        /\ retErr = "missing" => ~(Keep \subseteq Source)
        /\ retErr = "conflict" => \E k \in Source : input[k].keep = "differs"
        /\ retErr = "foreign" => \E k \in Source : input[k].foreign

(* The scan returns, with its goroutines gone, whatever fails or is cancelled
   in between. *)
ScanReturns == <>(pc = "returned")
=============================================================================
