------------------------ MODULE MCMigratePartitioned ------------------------
(* MigratePartitioned on two partitions and two workers, the fewest the      *)
(* command allows.                                                           *)
EXTENDS MigratePartitioned

CONSTANTS c1

Plain == [storage |-> "none", code |-> "none"]
Coded == [storage |-> "none", code |-> c1]
Small == [storage |-> "small", code |-> "none"]
Large == [storage |-> "large", code |-> "none"]

\* Two large storages beside each other; or accounts enough in one partition to
\* fill the window, its read-ahead included, while the other waits for a slot,
\* with one code in both.
MCLayouts ==
    {<<<<Large>>, <<Plain, Large>>>>,
     <<<<Coded, Small, Small>>, <<Coded>>>>}

=============================================================================
