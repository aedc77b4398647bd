--------------------------- MODULE MCOVMClassify ----------------------------
(* Every storage and every evidence over four slots; a cursor that gives   *)
(* up after one step.                                                      *)
EXTENDS OVMClassify
=============================================================================
