SPECIFICATION FairSpec
CONSTANTS
    Keys = {k1, k2, k3}
    NoKey = NoKey
    BatchKeys = 2
    MaxFaults = 1
    MaxBlocks = 1
INVARIANTS
    ReportsAreTruthful
PROPERTIES
    OnlyGarbageDeleted
    ImplementsContract
    PruningConverges
