CONSTANTS
    c1 = c1
    c2 = c2
    v1 = v1
    v2 = v2
    None = None
    Ids = {1, 2, 3}
    SlotIds = {1, 2, 3}
    Values = {v1, v2}
    Codes = {c1, c2}
    States <- MCStates
    Threshold = 1
    ReadAhead = 1
    MaxTrouble = 2
SPECIFICATION FairSpec
INVARIANTS
    VerdictIsExact
    LeavesNothing
PROPERTY VerifyReturns
\* VerifyReturns includes freedom from deadlock.
CHECK_DEADLOCK FALSE
