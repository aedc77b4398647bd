---------------------------- MODULE MCOVMHistory ----------------------------
(* OVMHistory on a short chain with one block larger than the budget.        *)
EXTENDS OVMHistory

CONSTANTS a1, a2, a3, t

Pay(from, to, positive) ==
    [topic |-> "Transfer", from |-> from, to |-> to, positive |-> positive]
Approve(from, to) ==
    [topic |-> "Approval", from |-> from, to |-> to, positive |-> FALSE]

\* Two blocks of which the first is frozen, one larger than the budget, and one
\* after it.
MCSizes == [b \in 0..3 |-> IF b = 2 THEN 5 ELSE 2]
MCEvents == [b \in 0..3 |-> CASE b = 0 -> {Pay(a1, a2, FALSE)}
                              [] b = 3 -> {Pay(a2, a2, TRUE), Approve(a2, a1)}
                              [] OTHER -> {}]

=============================================================================
