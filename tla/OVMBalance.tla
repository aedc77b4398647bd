----------------------------- MODULE OVMBalance -----------------------------
(***************************************************************************)
(* The conversion of token balances into native balances                   *)
(* (transformOVMState): the balance slots that OVMClassify queued are read *)
(* in account order, their accounts are inspected by jobs beside each      *)
(* other, and each batch of jobs is applied in order.  A holder without    *)
(* code, and a contract that is neither listed nor ever sent a positive    *)
(* transfer, gets its balance as native balance and loses its slot; other  *)
(* contracts and the token itself keep theirs, backed by the native        *)
(* balance of the token's account.                                         *)
(*                                                                         *)
(* Amounts are words that overflow.  OVMPatch shows how the collected      *)
(* patches become the new tries.                                           *)
(***************************************************************************)
EXTENDS Integers, Sequences, FiniteSets, FiniteSetsExt

CONSTANTS
    Holders,    \* the queued records: addresses in the order of their hashes
    Token,      \* ovmETHAddress
    Word,       \* amounts are 0 .. Word - 1 (2^256)
    Balances,   \* the token balances that the slots may hold; none is zero
    Supplies,   \* the total supplies that the token may record
    Audits,     \* the audit summaries that may be given
    Kinds,      \* what the holders may be; the token is a contract
    Workers,    \* the work limiter's tokens
    MaxFaults   \* bound on failing steps and cancellations

Records == DOMAIN Holders
Addresses == {Holders[r] : r \in Records}
Capacity == 2 * Workers

ASSUME BalanceAssumption ==
    /\ Word \in Nat \ {0} /\ Supplies \subseteq 0..Word - 1
    /\ \A r, q \in Records : Holders[r] = Holders[q] => r = q
    /\ Token \in Addresses
    /\ Balances \subseteq [Addresses -> 1..Word - 1]
    /\ Kinds \subseteq [Addresses -> {"eoa", "contract", "listed", "sender"}]
    /\ \A k \in Kinds : k[Token] = "contract"
    /\ Audits \subseteq [atHead : BOOLEAN, slots : Nat, sum : Nat, supply : Nat]
    /\ \A u \in Audits : u.sum >= u.supply   \* validate: causes never lower the difference
    /\ Workers \in Nat \ {0} /\ MaxFaults \in Nat

VARIABLES
    balance,   \* [address -> the token balance of its slot]
    kind,      \* [address -> its kind]; "sender" has an 'f' record, "listed" an 'R' one
    supply,    \* the token's totalSupply slot
    audits,    \* the audit summary, if one is given
    pc,        \* the step of the coordinator
    at,        \* records its iterator has returned
    queue,     \* the records of the batch
    applied,   \* how many of them are applied
    job,       \* the inspection of each record
    account,   \* [record -> what its inspection found]
    failure,   \* the first failure (migrateRunFailure)
    stopped,   \* the batch's own context is cancelled
    retErr,    \* the errors being returned
    tokens,    \* tokens taken from the work limiter
    idle,      \* account readers in the pool
    active,    \* account readers in use
    slots,     \* balanceSlots
    total, migrated, remaining,   \* the evidence's sums
    native,    \* patches of accounts: [address -> balance], 0 where there is none
    deleted,   \* patches of storage: addresses whose slot is removed
    newSupply, \* the patch of the totalSupply slot
    canceled,  \* the caller's context is cancelled
    faults

source == <<balance, kind, supply, audits>>
batch == <<queue, applied, job, account>>
pool == <<tokens, idle, active>>
sums == <<slots, total, migrated, remaining>>
patches == <<native, deleted, newSupply>>
vars == <<source, pc, at, batch, failure, stopped, retErr, pool, sums, patches,
          canceled, faults>>

Found == {"none", "self", "eoa", "convert", "retain"}

Init ==
    /\ balance \in Balances /\ kind \in Kinds
    /\ supply \in Supplies
    /\ audits \in {{}} \cup {{u} : u \in Audits}
    /\ pc = "next"
    /\ at = 0
    /\ queue = <<>> /\ applied = 0
    /\ job = [r \in Records |-> "none"]
    /\ account = [r \in Records |-> "none"]
    /\ failure = {}
    /\ stopped = FALSE
    /\ retErr = {}
    /\ tokens = 0 /\ idle = 0 /\ active = 0
    /\ slots = 0 /\ total = 0 /\ migrated = 0 /\ remaining = 0
    /\ native = [a \in Addresses |-> 0]
    /\ deleted = {}
    /\ newSupply = supply
    /\ canceled = FALSE
    /\ faults = 0

-----------------------------------------------------------------------------
(* Contexts and errors.                                                    *)

Done == canceled \/ stopped

\* acquire selects between a token and the context, so when both are ready it may
\* do either.
Free == tokens < Workers

Errs(busy, done) == (IF busy /\ faults < MaxFaults THEN {"fault"} ELSE {})
                    \cup (IF done THEN {"canceled"} ELSE {})
Count(e) == faults' = IF e = "fault" THEN faults + 1 ELSE faults

\* classifyStorage is about to return errs: it cancels and waits for the jobs.
Close(errs) == pc' = "close" /\ retErr' = errs /\ stopped' = TRUE

-----------------------------------------------------------------------------
(* inspectOrderedBalances and submit.                                      *)

NextRecord ==
    /\ pc = "next" /\ Free
    /\ IF at = Len(Holders) THEN pc' = "last" /\ UNCHANGED at
                            ELSE ~Done /\ pc' = "submit" /\ at' = at + 1
    /\ UNCHANGED <<source, batch, failure, stopped, retErr, pool, sums, patches,
                   canceled, faults>>

\* A full batch is drained before the record joins it.
submit ==
    /\ pc = "submit" /\ ~Done
    /\ IF Len(queue) = Capacity
         THEN pc' = "full" /\ UNCHANGED <<queue, job>>
         ELSE /\ queue' = Append(queue, at)
              /\ job' = [job EXCEPT ![at] = "start"]
              /\ pc' = "next"
    /\ UNCHANGED <<source, at, applied, account, failure, stopped, retErr, pool, sums,
                   patches, canceled, faults>>

\* The iterator fails, or the context is done; submit adds the cause.
NextFails ==
    /\ pc \in {"next", "submit"}
    /\ \E e \in Errs(pc = "next" /\ Free, Done) :
          /\ Close({e} \cup (IF pc = "submit" THEN failure ELSE {}))
          /\ Count(e)
    /\ UNCHANGED <<source, at, batch, failure, pool, sums, patches, canceled>>

-----------------------------------------------------------------------------
(* The inspection jobs.                                                    *)

coordinator == <<pc, at, queue, applied, retErr>>

\* A job takes a token.  The token's own slot needs no account.
JobStart(r) ==
    /\ job[r] = "start" /\ Free
    /\ tokens' = tokens + 1
    /\ job' = [job EXCEPT ![r] = IF Holders[r] = Token THEN "inspected" ELSE "hold"]
    /\ account' = IF Holders[r] = Token THEN [account EXCEPT ![r] = "self"] ELSE account
    /\ UNCHANGED <<source, coordinator, failure, stopped, idle, active, sums, patches,
                   canceled, faults>>

\* borrowReader takes an idle reader, or makes one.
borrowReader(r) ==
    /\ job[r] = "hold"
    /\ job' = [job EXCEPT ![r] = "read"]
    /\ idle' = IF idle > 0 THEN idle - 1 ELSE 0
    /\ active' = active + 1
    /\ UNCHANGED <<source, coordinator, account, failure, stopped, tokens, sums,
                   patches, canceled, faults>>

\* What the account and the index say of a holder.  A source with a native
\* balance was refused before (requireZeroOVMNative).
M1_inspect(a) == CASE kind[a] = "eoa" -> "eoa"
                   [] kind[a] = "contract" -> "convert"
                   [] kind[a] = "listed" -> "convert"
                   [] kind[a] = "sender" -> "retain"
inspect(a) == CASE kind[a] = "eoa" -> "eoa"
                [] kind[a] = "contract" -> "convert"
                [] kind[a] \in {"listed", "sender"} -> "retain"

\* returnReader: back to the pool, whose channel holds one reader per worker.
returnReader ==
    /\ active' = active - 1
    /\ idle' = IF idle < Workers THEN idle + 1 ELSE idle

Inspected(r) ==
    /\ job[r] = "read"
    /\ returnReader
    /\ account' = [account EXCEPT ![r] = inspect(Holders[r])]
    /\ job' = [job EXCEPT ![r] = "inspected"]
    /\ UNCHANGED <<source, coordinator, failure, stopped, tokens, sums, patches,
                   canceled, faults>>

M2_JobEnd(r) ==
    /\ job[r] = "inspected"
    /\ job' = [job EXCEPT ![r] = "done"]
    /\ UNCHANGED <<source, coordinator, account, failure, stopped, pool, sums,
                   patches, canceled, faults>>
JobEnd(r) ==
    /\ job[r] = "inspected"
    /\ job' = [job EXCEPT ![r] = "done"]
    /\ tokens' = tokens - 1
    /\ UNCHANGED <<source, coordinator, account, failure, stopped, idle, active, sums,
                   patches, canceled, faults>>

\* The token is not to be had, the account does not read or decode, or an index
\* record does not: recorded first, then the batch is cancelled.
JobFails(r) ==
    /\ job[r] \in {"start", "read"}
    /\ \E e \in Errs(job[r] = "read", Done /\ job[r] = "start") :
          /\ failure' = IF failure = {} THEN {e} ELSE failure
          /\ Count(e)
    /\ stopped' = TRUE
    /\ job' = [job EXCEPT ![r] = "done"]
    /\ IF job[r] = "read" THEN returnReader /\ tokens' = tokens - 1
                          ELSE UNCHANGED pool
    /\ UNCHANGED <<source, coordinator, account, sums, patches, canceled>>

-----------------------------------------------------------------------------
(* drain: wait for every job, then apply the batch in its order.           *)

Idle == \A r \in Records : job[r] \in {"none", "done"}
Draining == pc \in {"full", "last"} /\ Idle /\ failure = {}

\* applyBalance.  Only the total is checked: the other sums stay below it.
applyBalance ==
    /\ Draining /\ applied < Len(queue) /\ ~Done
    /\ LET r == queue[applied + 1]
           a == Holders[r]
           v == balance[a]
           Keeps == account[r] \in {"self", "retain"}
       IN  /\ total + v < Word
           /\ total' = total + v
           /\ slots' = slots + 1
           /\ remaining' = IF Keeps THEN (remaining + v) % Word ELSE remaining
           /\ migrated' = IF Keeps THEN migrated ELSE (migrated + v) % Word
           /\ native' = IF Keeps THEN native ELSE [native EXCEPT ![a] = v]
           /\ deleted' = IF Keeps THEN deleted ELSE deleted \cup {a}
    /\ applied' = applied + 1
    /\ UNCHANGED <<source, pc, at, queue, job, account, failure, stopped, retErr, pool,
                   newSupply, canceled, faults>>

\* The batch is empty again; a full one takes the record that waits.
M3_Drained ==
    /\ Draining /\ applied = Len(queue)
    /\ applied' = 0
    /\ IF pc = "full"
         THEN /\ queue' = Append(queue, at)
              /\ job' = [job EXCEPT ![at] = "start"]
              /\ pc' = "next" /\ UNCHANGED <<stopped, retErr>>
         ELSE queue' = <<>> /\ UNCHANGED job /\ Close({})
    /\ UNCHANGED <<source, at, account, failure, pool, sums, patches, canceled, faults>>
Drained ==
    /\ Draining /\ applied = Len(queue)
    /\ applied' = 0
    /\ IF pc = "full"
         THEN /\ queue' = <<at>>
              /\ job' = [job EXCEPT ![at] = "start"]
              /\ pc' = "next" /\ UNCHANGED <<stopped, retErr>>
         ELSE queue' = <<>> /\ UNCHANGED job /\ Close({})
    /\ UNCHANGED <<source, at, account, failure, pool, sums, patches, canceled, faults>>

\* A job failed, the context is done, the sum overflows, or a patch is not stored.
DrainFails ==
    /\ pc \in {"full", "last"} /\ Idle
    /\ IF failure # {}
         THEN Close(failure) /\ UNCHANGED faults
         ELSE /\ applied < Len(queue)
              /\ \E e \in Errs(TRUE, Done)
                      \cup (IF total + balance[Holders[queue[applied + 1]]] >= Word
                            THEN {"overflow"} ELSE {}) :
                    Close({e}) /\ Count(e)
    /\ UNCHANGED <<source, at, batch, failure, pool, sums, patches, canceled>>

-----------------------------------------------------------------------------
(* classifyStorage returns; the accounting, and the last patches.          *)

Joined ==
    /\ pc = "close" /\ Idle
    /\ retErr' = retErr \cup failure
    /\ pc' = IF retErr' = {} THEN "account" ELSE "failed"
    /\ UNCHANGED <<source, at, batch, failure, stopped, pool, sums, patches, canceled,
                   faults>>

\* The total matches the supply, or differs by what the audit explains; an audit
\* of this very head must agree on every amount.
Accounted ==
    IF audits = {} THEN total = supply
    ELSE \A u \in audits :
            /\ u.sum - u.supply = total - supply
            /\ u.atHead => u.slots = slots /\ u.sum = total /\ u.supply = supply

\* The token's account backs what remains, and its supply records it.
Convert ==
    /\ pc = "account" /\ ~canceled
    /\ Accounted
    /\ total >= migrated /\ total - migrated = remaining
    /\ newSupply' = remaining
    /\ native' = [native EXCEPT ![Token] = remaining]
    /\ pc' = "done"
    /\ UNCHANGED <<source, at, batch, failure, stopped, retErr, pool, sums, deleted,
                   canceled, faults>>

ConvertFails ==
    /\ pc = "account"
    /\ \E e \in Errs(TRUE, canceled) \cup (IF Accounted THEN {} ELSE {"mismatch"}) :
          retErr' = {e} /\ Count(e)
    /\ pc' = "failed"
    /\ UNCHANGED <<source, at, batch, failure, stopped, pool, sums, patches, canceled>>

Cancel ==
    /\ ~canceled /\ pc \notin {"done", "failed"} /\ faults < MaxFaults
    /\ canceled' = TRUE /\ faults' = faults + 1
    /\ UNCHANGED <<source, pc, at, batch, failure, stopped, retErr, pool, sums, patches>>

Step ==
    \/ NextRecord \/ submit \/ NextFails
    \/ \E r \in Records :
          JobStart(r) \/ borrowReader(r) \/ Inspected(r) \/ JobEnd(r) \/ JobFails(r)
    \/ applyBalance \/ Drained \/ DrainFails
    \/ Joined \/ Convert \/ ConvertFails

Next == Step \/ Cancel
Spec == Init /\ [][Next]_vars

\* The Go scheduler runs every goroutine that can proceed.
FairSpec == Spec /\ WF_vars(Step)

-----------------------------------------------------------------------------
(* Properties.                                                             *)

Converts(a) == a # Token /\ kind[a] \in {"eoa", "contract"}
Kept(a) == IF a \in deleted THEN 0 ELSE balance[a]
SumOver(S, F(_)) == MapThenSumSet(F, S)
Balance(a) == balance[a]
BalanceAt(r) == balance[Holders[r]]

\* The variables keep the types of the Go values they stand for; the limiter
\* never holds more tokens than workers, nor fewer than none.
TypeOK ==
    /\ pc \in {"next", "submit", "full", "last", "close", "account", "done", "failed"}
    /\ at \in 0..Len(Holders) /\ applied \in 0..Len(queue) /\ Len(queue) <= Capacity
    /\ job \in [Records -> {"none", "start", "hold", "read", "inspected", "done"}]
    /\ account \in [Records -> Found]
    /\ tokens \in 0..Workers /\ idle \in 0..Workers
    /\ {slots, total, migrated, remaining} \subseteq 0..Word - 1
    /\ native \in [Addresses -> 0..Word - 1] /\ deleted \subseteq Addresses

\* The comment on borrowReader: readers are borrowed only under a lease, so the
\* readers in use and the idle ones together never exceed the workers.
ReadersBounded == active + idle <= Workers

\* Whatever jobs overtake each other and whatever fails, the sums are at every
\* moment those of a prefix of the account order, each record counted once; the
\* limiter and the pool stay within the workers; and nothing of the batch runs
\* once classifyStorage has returned.
BatchInv ==
    /\ TypeOK
    /\ ReadersBounded
    /\ pc \notin {"close", "failed"} =>
        LET n == at - Len(queue) + applied - (IF pc \in {"submit", "full"} THEN 1 ELSE 0)
        IN  /\ total = SumOver(1..n, BalanceAt) /\ migrated + remaining = total
            /\ deleted = {Holders[r] : r \in {q \in 1..n : Converts(Holders[q])}}
    /\ pc \in {"account", "done", "failed"} => Idle /\ tokens = 0 /\ active = 0

\* The balances sum to the recorded supply, or differ from it by exactly what an
\* audit explains; an audit of this very head has the same sum.
DifferenceIsExplained ==
    LET sum == SumOver(Addresses, Balance)
    IN  /\ sum - supply \in {0} \cup {u.sum - u.supply : u \in audits}
        /\ \A u \in audits : sum - supply = u.sum - u.supply
        /\ \A u \in audits : u.atHead => sum = u.sum

\* A conversion that succeeds loses and creates nothing: a holder that converts
\* has its balance as native balance and no slot, any other keeps its slot, and
\* the token's native balance and recorded supply are what the slots still hold.
\* No sum wrapped, and the supply that was recorded before is accounted for.
BalancesConserved ==
    pc = "done" =>
        /\ \A a \in Addresses \ {Token} :
              /\ native[a] = IF Converts(a) THEN balance[a] ELSE 0
              /\ Kept(a) = balance[a] - native[a]
        /\ native[Token] = SumOver(Addresses, Kept)
        /\ newSupply = native[Token]
        /\ SumOver(Addresses, Balance) < Word
        /\ DifferenceIsExplained

\* The conversion returns, whatever fails and whenever it is cancelled.
ConversionReturns == <>(pc \in {"done", "failed"})

=============================================================================
