SPECIFICATION Spec
CONSTANTS
    k1 = k1
    k2 = k2
    k3 = k3
    bad = bad
    s1 = s1
    s2 = s2
    Keys = {k1, k2, k3, bad}
    BadKeys = {bad}
    Genesis = k3
    Readers = {r1, r2}
    Shards = {s1, s2}
    ShardOf <- MCShardOf
    BatchKeys = 2
    MaxReads = 3
    MaxFaults = 2
INVARIANTS
    ReturnedIsPending
    OutcomeIsTruthful
