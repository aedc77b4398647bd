------------------------- MODULE MigrateScanProofs --------------------------
(***************************************************************************)
(* Proofs about the partitioned migration, third part: an account claims   *)
(* its code when it is read, is written on the spot or merged later, and   *)
(* both keep MigrateInv.                                                   *)
(***************************************************************************)
EXTENDS MigrateJobsProofs

(* What an appended account does to the partition's sequence. *)
LEMMA AppendNext ==
    ASSUME OutcomeType, NEW p \in Partitions, PartitionInv(p), Len(merged[p]) + 1 \in Index(p),
           merged' = [merged EXCEPT ![p] = Append(@, Len(merged[p]) + 1)]
    PROVE  /\ DOMAIN merged' = Partitions
           /\ \A q \in Partitions : merged'[q] \in Seq(Index(q))
           /\ \A q \in Partitions \ {p} : merged'[q] = merged[q]
           /\ Len(merged'[p]) = Len(merged[p]) + 1
           /\ \A k \in 1..Len(merged'[p]) : merged'[p][k] = k
<1>. DEFINE m == merged[p]
            n == Len(m)
<1>0. m \in Seq(Index(p))  BY Zenon DEF OutcomeType
<1>1. n \in Nat /\ \A k \in 1..n : m[k] = k  BY <1>0 DEF PartitionInv
<1>2. merged'[p] = Append(m, n + 1)  BY Zenon DEF OutcomeType
<1>3. /\ Append(m, n + 1) \in Seq(Index(p)) /\ Len(Append(m, n + 1)) = n + 1
      /\ \A k \in 1..n+1 : Append(m, n + 1)[k] = k
  BY <1>0, <1>1
<1>. QED  BY Zenon, <1>2, <1>3 DEF OutcomeType

(* An account is merged, and with it the code it claimed. *)
LEMMA MergeKeeps == ASSUME MigrateInv, NEW p \in Partitions, Merge(p) PROVE MigrateInv'
<1>1. OutcomeType /\ PartitionInv(p)  BY Zenon DEF MigrateInv
<1>2. UNCHANGED <<Accounts, pc, at, eof, failure, job, jobErr, results, owner, runErr,
                  runCanceled, canceled, result>>
  BY Zenon DEF Merge, merging
<1>. DEFINE n == Len(merged[p])
<1>3. /\ n + 1 \in pending[p]
      /\ pending' = [pending EXCEPT ![p] = @ \ {n + 1}]
      /\ merged' = [merged EXCEPT ![p] = Append(@, n + 1)]
      /\ written' = [c \in Codes |-> IF owner[c] = <<p, n + 1>> THEN written[c] + 1
                                                               ELSE written[c]]
      /\ pc[p] = "merge"
  BY Zenon DEF Merge, Ready
<1>4. n + 1 \in Index(p) /\ n + 1 <= at[p] /\ n \in Nat /\ at[p] \in Nat
  BY <1>1, <1>3 DEF OutcomeType, PartitionInv
<1>5. /\ DOMAIN merged' = Partitions
      /\ \A q \in Partitions : merged'[q] \in Seq(Index(q))
      /\ \A q \in Partitions \ {p} : merged'[q] = merged[q]
      /\ Len(merged'[p]) = n + 1
      /\ \A k \in 1..Len(merged'[p]) : merged'[p][k] = k
  BY <1>1, <1>3, <1>4, AppendNext, Zenon
<1>6. /\ DOMAIN pending' = Partitions /\ pending'[p] = pending[p] \ {n + 1}
      /\ \A q \in Partitions \ {p} : pending'[q] = pending[q]
  BY Zenon, <1>1, <1>3 DEF OutcomeType
<1>7. OutcomeType'
  <2>1. written' \in [Codes -> Nat]  BY <1>1, <1>3 DEF OutcomeType
  <2>. QED  BY <1>1, <1>2, <1>5, <1>6, <2>1, Zenon DEF OutcomeType, Partitions, Index
<1>8. ASSUME NEW q \in Partitions, q # p PROVE PartitionInv(q)'
  <2>1. Same(q)  BY Zenon, <1>2, <1>5, <1>6, <1>8 DEF Same
  <2>. QED  BY Zenon, <1>2, <2>1, SameKeeps DEF MigrateInv
<1>9. PartitionInv(p)'
  BY <1>1, <1>2, <1>3, <1>4, <1>5, <1>6 DEF PartitionInv, Outstanding, Index
<1>10. CodeInv'
  <2>1. ASSUME NEW c \in Codes
        PROVE  \/ owner[c] = <<>> /\ written'[c] = 0
               \/ \E q \in Partitions : \E i \in 1..at[q] :
                    /\ owner[c] = <<q, i>>
                    /\ written'[c] = IF i <= Len(merged'[q]) THEN 1 ELSE 0
    <3>1. CASE owner[c] = <<>> /\ written[c] = 0
      <4>1. <<p, n + 1>> # <<>>  OBVIOUS
      <4>. QED  BY <1>3, <3>1, <4>1, Zenon
    <3>2. ASSUME NEW q \in Partitions, NEW i \in 1..at[q], owner[c] = <<q, i>>,
                 written[c] = IF i <= Len(merged[q]) THEN 1 ELSE 0
          PROVE  written'[c] = IF i <= Len(merged'[q]) THEN 1 ELSE 0
      <4>1. CASE q = p /\ i = n + 1
        BY <1>3, <1>4, <1>5, <3>2, <4>1
      <4>2. CASE q = p /\ i # n + 1
        BY <1>1, <1>3, <1>4, <1>5, <3>2, <4>2 DEF OutcomeType
      <4>3. CASE q # p
        BY <1>3, <1>5, <3>2, <4>3
      <4>. QED  BY Zenon, <4>1, <4>2, <4>3
    <3>. QED  BY Zenon, <3>1, <3>2 DEF MigrateInv, CodeInv
  <2>. QED  BY Zenon, <1>2, <2>1 DEF MigrateInv, CodeInv, Partitions
<1>11. ErrorInv'  BY <1>2 DEF MigrateInv, ErrorInv, Partitions, Index
<1>. QED  BY Zenon, <1>2, <1>7, <1>8, <1>9, <1>10, <1>11 DEF MigrateInv, Partitions

(* An account is read, and claims its code if it is the first to have it. *)
LEMMA ClaimKeeps ==
    ASSUME MigrateInv, NEW p \in Partitions, at[p] # Len(Accounts[p]),
           at' = [at EXCEPT ![p] = @ + 1], Claim(p), UNCHANGED <<Accounts, written>>,
           \A q \in Partitions \ {p} : merged'[q] = merged[q],
           \/ merged'[p] = merged[p]
           \/ ~writeCode(p) /\ Len(merged[p]) = at[p] /\ Len(merged'[p]) = at[p] + 1
    PROVE  CodeInv' /\ DOMAIN owner' = Codes
<1>. DEFINE j == at[p] + 1
            k == Accounts[p][j].code
<1>1. OutcomeType /\ PartitionInv(p) /\ CodeInv  BY Zenon DEF MigrateInv
<1>2. Accounts[p] \in Seq(Account) /\ at[p] \in Nat /\ merged[p] \in Seq(Index(p))
  BY Zenon, <1>1, MigrateAssumption DEF OutcomeType, Partitions
<1>3. j \in 1..Len(Accounts[p]) /\ Len(merged[p]) \in Nat /\ Len(merged[p]) <= at[p]
  BY <1>1, <1>2 DEF PartitionInv
<1>4. k \in Codes \cup {"none"}
  <2>1. Accounts[p][j] \in Account  BY <1>2, <1>3
  <2>. QED  BY Zenon, <2>1 DEF Account
<1>5. at'[p] = j /\ \A q \in Partitions \ {p} : at'[q] = at[q]  BY Zenon, <1>1 DEF OutcomeType
<1>6. <<p, j>> # <<>>  OBVIOUS
<1>7. writeCode(p) <=> k # "none" /\ owner[k] = <<>>  BY Zenon DEF writeCode, account
<1>8. /\ DOMAIN owner' = Codes
      /\ \A c \in Codes : owner'[c] = IF writeCode(p) /\ c = k THEN <<p, j>> ELSE owner[c]
  BY Zenon, <1>1, <1>4, <1>7 DEF Claim, OutcomeType, account
<1>9. ASSUME NEW c \in Codes
      PROVE  \/ owner'[c] = <<>> /\ written[c] = 0
             \/ \E q \in Partitions : \E i \in 1..at'[q] :
                  /\ owner'[c] = <<q, i>>
                  /\ written[c] = IF i <= Len(merged'[q]) THEN 1 ELSE 0
  <2>1. CASE writeCode(p) /\ c = k
    <3>1. owner'[c] = <<p, j>> /\ merged'[p] = merged[p]  BY Zenon, <1>8, <2>1
    <3>2. owner[c] = <<>>  BY Zenon, <1>7, <2>1
    <3>3. written[c] = 0
      <4>1. ASSUME NEW q, NEW i, owner[c] = <<q, i>> PROVE FALSE
        <5>1. <<q, i>> # <<>>  OBVIOUS
        <5>. QED  BY Zenon, <3>2, <4>1, <5>1
      <4>. QED  BY <1>1, <4>1 DEF CodeInv
    <3>4. j \in 1..at'[p] /\ ~(j <= Len(merged'[p]))  BY <1>2, <1>3, <1>5, <3>1
    <3>. QED  BY Zenon, <3>1, <3>3, <3>4
  <2>2. CASE ~(writeCode(p) /\ c = k)
    <3>1. owner'[c] = owner[c]  BY Zenon, <1>8, <2>2
    <3>2. ASSUME NEW q \in Partitions, NEW i \in 1..at[q],
                 written[c] = IF i <= Len(merged[q]) THEN 1 ELSE 0
          PROVE  i \in 1..at'[q] /\ written[c] = IF i <= Len(merged'[q]) THEN 1 ELSE 0
      <4>1. CASE q = p  BY <1>2, <1>3, <1>5, <3>2, <4>1
      <4>2. CASE q # p  BY Zenon, <1>5, <3>2, <4>2
      <4>. QED  BY Zenon, <4>1, <4>2
    <3>. QED  BY <1>1, <3>1, <3>2 DEF CodeInv
  <2>. QED  BY Zenon, <2>1, <2>2
<1>10. ASSUME NEW q \in Partitions, NEW i \in 1..at'[q], Accounts[q][i].code # "none"
       PROVE  owner'[Accounts[q][i].code] # <<>>
  <2>1. CASE q = p /\ i = j
    BY Zenon, <1>4, <1>6, <1>7, <1>8, <1>10, <2>1
  <2>2. CASE ~(q = p /\ i = j)
    <3>1. i \in 1..at[q]
      <4>1. CASE q = p  BY <1>2, <1>5, <2>2, <4>1
      <4>2. CASE q # p  BY Zenon, <1>5, <4>2
      <4>. QED  BY Zenon, <4>1, <4>2
    <3>2. owner[Accounts[q][i].code] # <<>>  BY Zenon, <1>1, <1>10, <3>1 DEF CodeInv
    <3>3. Accounts[q][i].code \in Codes
      <4>1. Accounts[q] \in Seq(Account) /\ at[q] <= Len(Accounts[q]) /\ at[q] \in Nat
        BY Zenon, <1>1, MigrateAssumption DEF OutcomeType, Partitions, MigrateInv, PartitionInv
      <4>2. Accounts[q][i] \in Account  BY <3>1, <4>1
      <4>. QED  BY Zenon, <1>10, <4>2 DEF Account
    <3>. QED  BY Zenon, <1>6, <1>8, <3>2, <3>3
  <2>. QED  BY Zenon, <2>1, <2>2
<1>. QED  BY Zenon, <1>8, <1>9, <1>10 DEF CodeInv, Partitions

(* One turn of the loop: the end, an account for a burst, or a plain account. *)
LEMMA ScanKeeps == ASSUME MigrateInv, NEW p \in Partitions, Scan(p) PROVE MigrateInv'
<1>. DEFINE n == Len(merged[p])
<1>1. OutcomeType /\ PartitionInv(p)  BY Zenon DEF MigrateInv
<1>2. UNCHANGED <<Accounts, eof, failure, job, jobErr, results, pending, written, runErr,
                  runCanceled, canceled, result>>
  BY Zenon DEF Scan, burst, work, run
<1>3. Accounts[p] \in Seq(Account) /\ at[p] \in Nat /\ merged[p] \in Seq(Index(p))
  BY Zenon, <1>1, MigrateAssumption DEF OutcomeType, Partitions
<1>4. /\ pc[p] = "scan" /\ n = at[p] /\ at[p] <= Len(Accounts[p])
      /\ n \in Nat /\ Len(Accounts[p]) \in Nat
  BY <1>1, <1>3 DEF Scan, PartitionInv
<1>5. CASE at[p] = Len(Accounts[p])
  <2>1. Goto(p, "finish") /\ UNCHANGED <<at, owner, merged>>  BY Zenon, <1>5 DEF Scan
  <2>2. PartitionInv(p)'
    BY Zenon, <1>1, <1>2, <1>4, <1>5, <2>1 DEF PartitionInv, OutcomeType, Goto, Index
  <2>3. UNCHANGED <<Accounts, at, burst, work, pending, outputs, owner, run>>
    BY Zenon, <2>1 DEF Scan, outputs
  <2>. QED  BY Zenon, <1>4, <2>1, <2>2, <2>3, GotoKeeps
<1>6. CASE at[p] # Len(Accounts[p])
  <2>1. at' = [at EXCEPT ![p] = @ + 1] /\ Claim(p)  BY Zenon, <1>6 DEF Scan
  <2>2. at'[p] = n + 1 /\ \A q \in Partitions \ {p} : at'[q] = at[q]
    BY Zenon, <1>1, <1>4, <2>1 DEF OutcomeType
  <2>3. n + 1 \in Index(p)  BY <1>4, <1>6 DEF Index
  <2>4. /\ DOMAIN merged' = Partitions
        /\ \A q \in Partitions : merged'[q] \in Seq(Index(q))
        /\ \A q \in Partitions \ {p} : merged'[q] = merged[q]
        /\ \A k \in 1..Len(merged'[p]) : merged'[p][k] = k
        /\ \/ Goto(p, "admit") /\ merged'[p] = merged[p]
           \/ pc' = pc /\ ~writeCode(p) /\ Len(merged'[p]) = n + 1
    <3>1. CASE async(p)
      BY Zenon, <1>1, <1>6, <3>1 DEF Scan, OutcomeType, PartitionInv
    <3>2. CASE ~async(p)
      <4>1. merged' = [merged EXCEPT ![p] = Append(@, n + 1)] /\ pc' = pc /\ ~writeCode(p)
        BY Zenon, <1>4, <1>6, <3>2 DEF Scan, async
      <4>. QED  BY <1>1, <2>3, <4>1, AppendNext, Zenon
    <3>. QED  BY Zenon, <3>1, <3>2
  <2>5. /\ pc' \in [Partitions -> {"open", "scan", "admit", "burst", "read", "merge", "finish",
                                   "done", "failed"}]
        /\ \A q \in Partitions \ {p} : pc'[q] = pc[q]
        /\ \/ pc'[p] = "admit" /\ merged'[p] = merged[p]
           \/ pc'[p] = "scan" /\ Len(merged'[p]) = n + 1
    BY <1>1, <1>4, <2>4, Zenon DEF OutcomeType, Goto
  <2>6. CodeInv' /\ DOMAIN owner' = Codes
    BY <1>2, <1>4, <1>6, <2>1, <2>4, ClaimKeeps, Zenon
  <2>7. OutcomeType'
    <3>1. at' \in [Partitions -> Nat]  BY <1>1, <2>1 DEF OutcomeType
    <3>. QED  BY Zenon, <1>1, <1>2, <2>4, <2>5, <2>6, <3>1 DEF OutcomeType, Partitions, Index
  <2>8. ASSUME NEW q \in Partitions, q # p PROVE PartitionInv(q)'
    <3>1. Same(q)  BY Zenon, <1>2, <2>2, <2>4, <2>5, <2>8 DEF Same
    <3>. QED  BY Zenon, <1>2, <3>1, SameKeeps DEF MigrateInv
  <2>9. PartitionInv(p)'
    <3>1. Len(merged'[p]) <= at'[p] /\ at'[p] <= Len(Accounts[p])
      BY <1>4, <1>6, <2>2, <2>5
    <3>2. results[p] \cup pending[p] \subseteq 1..at'[p] /\ ~eof[p]
      BY <1>1, <1>4, <1>6, <2>2 DEF PartitionInv
    <3>3. \A i \in Index(p) : job[p][i] # "none" => i <= at'[p]
      BY <1>1, <1>4, <2>2 DEF PartitionInv, Index
    <3>. QED  BY Zenon, <1>2, <1>4, <2>2, <2>4, <2>5, <3>1, <3>2, <3>3 DEF PartitionInv, Index
  <2>10. ErrorInv'
    BY <1>2, <1>4, <2>5 DEF MigrateInv, ErrorInv, Partitions, Index
  <2>. QED  BY Zenon, <1>2, <2>6, <2>7, <2>8, <2>9, <2>10 DEF MigrateInv, Partitions
<1>. QED  BY Zenon, <1>5, <1>6

=============================================================================
