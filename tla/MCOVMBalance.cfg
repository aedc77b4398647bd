SPECIFICATION FairSpec
CONSTANTS
    h1 = h1
    h2 = h2
    h3 = h3
    h4 = h4
    tok = tok
    Token = tok
    Holders <- FiveHolders
    Word = 9
    Balances <- TwoSums
    Supplies = {5, 6}
    Audits <- ThreeAudits
    Kinds <- Arrangements
    Workers = 2
    MaxFaults = 1
INVARIANTS
    BatchInv
    BalancesConserved
PROPERTY ConversionReturns
\* ConversionReturns includes freedom from deadlock.
CHECK_DEADLOCK FALSE
