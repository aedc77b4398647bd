SPECIFICATION AllocSpec
CONSTANTS
    Keys = {1, 2, 3}
    OVMETH = 3
    v = v  w = w
    Values <- MCValues
    None = None
    Deleted = Deleted
    Zero = Zero
    Files <- MCFiles
    Converted <- MCConverted
    BatchLimits = {1, 2, 3}
INVARIANTS
    RefusesAmbiguous
    AllocIsExact
    RebuiltExactly
