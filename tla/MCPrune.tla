------------------------------ MODULE MCPrune ------------------------------
(* The prune command over every small legacy database. *)
EXTENDS Prune
=============================================================================
