\* Documents of up to four blocks, read, resolved and validated.
SPECIFICATION ViewSpec
CONSTANTS
    Absent = Absent
    Acme = Acme
    Inv1 = Inv1
    Inv2 = Inv2
    WellFormed <- MCWellFormed
    Blocks <- MCBlocks
    MaxBlocks = 4
INVARIANTS
    RolesAreLocal
    HonestInvoicesAreConfirmed
    WrongTotalsAreContradicted
    SupersededIsExplained
\* A validated view is the end.
CHECK_DEADLOCK FALSE
