SPECIFICATION FairSpec
CONSTANTS
    Scans <- MCScans
    ParallelSize = 2
INVARIANTS
    StopsAtRejected
    SlotsExclusive
    ErrorIsRootCause
    ConsumesInOrder
PROPERTIES
    ScanReturns
