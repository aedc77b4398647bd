---------------------------- MODULE MCOVMBalance ----------------------------
(* OVMBalance on five holders, one more than a batch of two workers has    *)
(* room for: one holder of each kind beside the token, in two orders.      *)
EXTENDS OVMBalance, TLC

CONSTANTS h1, h2, h3, h4, tok

FiveHolders == <<h1, tok, h2, h3, h4>>

Each(w, x, y, z) == h1 :> w @@ h2 :> x @@ h3 :> y @@ h4 :> z @@ tok :> "contract"
Arrangements == {Each("eoa", "contract", "listed", "sender"),
                 Each("listed", "sender", "eoa", "contract")}

\* Sums of 6, and of 9, which is a word that has overflowed.
TwoSums == {[a \in Addresses |-> IF a = h3 THEN 2 ELSE 1],
            [a \in Addresses |-> IF a = h4 THEN 5 ELSE 1]}

\* Audits that explain a difference of one, at the head and before it, and one
\* that names other amounts for the head.
ThreeAudits == {[atHead |-> TRUE, slots |-> 5, sum |-> 6, supply |-> 5],
                [atHead |-> FALSE, slots |-> 2, sum |-> 3, supply |-> 2],
                [atHead |-> TRUE, slots |-> 5, sum |-> 7, supply |-> 6]}
=============================================================================
