---------------------------- MODULE MCPruneKeep ----------------------------
(* Two goroutines collecting into two shards. *)
EXTENDS PruneKeep

CONSTANTS k1, k2, k3, bad, s1, s2
MCShardOf == [k \in Keys |-> IF k \in {k1, k2} THEN s1 ELSE s2]
=============================================================================
