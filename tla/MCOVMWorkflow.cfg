SPECIFICATION Spec
CONSTANTS
    Options <- MCOptions
    MaxDisturbances = 3
INVARIANTS
    ReportIsReproducible
    NoStaleInput
    VerdictIsTruthful
    LeavesNothing
