CONSTANTS
    N = 4
    Steps = 1
SPECIFICATION Spec
INVARIANTS
    NothingSkipped
    ClassifiedExactly
\* The classification ends.
CHECK_DEADLOCK FALSE
