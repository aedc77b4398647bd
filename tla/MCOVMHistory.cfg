CONSTANTS
    a1 = a1
    a2 = a2
    a3 = a3
    t = t
    Token = t
    Addresses = {a1, a2, a3, t}
    Preimages = {a3}
    Size <- MCSizes
    Events <- MCEvents
    Frozen = 1
    Budget = 4
    Workers = 2
    MaxFaults = 1
SPECIFICATION FairSpec
INVARIANTS
    HistoryIsExact
    EvidenceIsComplete
    StageIsClean
PROPERTY StageReturns
\* StageReturns includes freedom from deadlock.
CHECK_DEADLOCK FALSE
