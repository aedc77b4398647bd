--------------------------- MODULE MCOVMWorkflow ---------------------------
(* The OVM commands with few inputs each. *)
EXTENDS OVMWorkflow

(* Every input, given to both commands, and inputs given to one of them only. *)
MCOptions == {
    [migrate |-> {"audit", "code", "retain"}, verify |-> {"audit", "code", "retain"}],
    [migrate |-> {"alloc", "code", "witness"}, verify |-> {"alloc", "code", "witness"}],
    [migrate |-> {"alloc", "code", "witness"}, verify |-> {"alloc", "code"}],
    [migrate |-> {"code"}, verify |-> {"audit", "code", "witness"}],
    [migrate |-> {"alloc", "code"}, verify |-> {"code", "retain"}] }
=============================================================================
