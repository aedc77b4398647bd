CONSTANTS
    c1 = c1
    Layouts <- MCLayouts
    Codes = {c1}
    Subs = {s1, s2}
    Workers = 2
    MaxFaults = 1
SPECIFICATION FairSpec
INVARIANTS
    ResourcesBalanced
    MergedInOrder
    OutcomeIsTruthful
PROPERTY RunReturns
\* RunReturns includes freedom from deadlock.
CHECK_DEADLOCK FALSE
