SPECIFICATION Spec
CONSTANTS
    None = None
    RoundsDown = {}
    V = V
    U = U
    T1 = T1
    T2 = T2
    EUR = EUR
    USD = USD
    HistoryLimit = 3
    EvidenceLimit = 1
    MinBaseline = 2
    Contents <- AllKinds
    MaxStored = 2
    MaxPending = 2
INVARIANTS
    NeverOwnEvidence
    OrderReportedMissingIsMissing
    DuplicatesSeenFromBothSides
    BaselinesAreEarned
CHECK_DEADLOCK FALSE
