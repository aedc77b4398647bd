--------------------------- MODULE PublishContract ---------------------------
(***************************************************************************)
(* What publishing an output directory promises to whoever looks at the    *)
(* output path and at the commands' results (docs/operations.md states it; *)
(* atomicdir.go implements it).  Staging directories, syncs, reports and   *)
(* cancellation do not appear here.                                        *)
(***************************************************************************)

CONSTANT Commands

VARIABLES
    final,      \* nothing, somebody else's path, or the command that published
    whole,      \* whether a published output is complete
    durable,    \* whether the entry survives a power loss
    told        \* what each command has reported

vars == <<final, whole, durable, told>>

Init ==
    /\ final = "none"
    /\ durable = TRUE
    /\ whole \in BOOLEAN
    /\ told = [p \in Commands |-> "nothing"]

\* A complete output appears at a free path.
Publish(p) ==
    /\ final = "none"
    /\ told[p] = "nothing"
    /\ final' = p
    /\ whole' = TRUE
    /\ durable' = FALSE
    /\ UNCHANGED told

Settle ==
    /\ durable' = TRUE
    /\ UNCHANGED <<final, whole, told>>

Report(p, result) ==
    /\ told[p] = "nothing"
    /\ result = "ok" => final = p /\ durable
    /\ result = "unknown" => final = p
    /\ result = "failed" => final # p
    /\ told' = [told EXCEPT ![p] = result]
    /\ durable' \in {durable, TRUE}
    /\ UNCHANGED <<final, whole>>

Foreign ==
    /\ final = "none"
    /\ final' = "foreign"
    /\ durable' = TRUE
    /\ UNCHANGED <<whole, told>>

\* A power loss before the parent directory was synced.
Undo ==
    /\ ~durable
    /\ final' = "none"
    /\ durable' = TRUE
    /\ whole' \in BOOLEAN
    /\ UNCHANGED told

Next ==
    \/ \E p \in Commands :
          Publish(p) \/ \E result \in {"ok", "unknown", "failed"} : Report(p, result)
    \/ Settle
    \/ Foreign
    \/ Undo

Spec == Init /\ [][Next]_vars

=============================================================================
