CONSTANTS
    c1 = c1
    c2 = c2
    n1 = n1
    n2 = n2
    Commands = {c1, c2}
    Names = {n1, n2}
    MaxLosses = 1
SYMMETRY CommandSymmetry
SPECIFICATION Spec
INVARIANTS
    PublishedIsWhole
    CleansUp
    CanceledNeverPublishes
PROPERTY ImplementsContract
CHECK_DEADLOCK FALSE
