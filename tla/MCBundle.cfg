SPECIFICATION Spec
CONSTANTS
    Accounts = {1, 2}
    Slots = {1, 2}
    Values = {val1}
    Codes = {code1}
    None = None
    Junk = Junk
INVARIANTS
    BundleIsCanonical
    RoundTrip
\* A command ends.
CHECK_DEADLOCK FALSE
