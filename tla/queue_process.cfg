\* Two requests of up to two documents, one of them citing an order.
SPECIFICATION Spec
CONSTANTS
    None = None
    RoundsDown = {}
    r1 = r1
    r2 = r2
    r3 = r3
    v1 = v1
    V = V
    EUR = EUR
    Requests <- TwoRequests
    Contents <- WithOrder
    MaxBatch = 2
    Endpoints = {"process"}
    DryRuns = {TRUE, FALSE}
    Reviewers = {}
    MaxDecisions = 0
    Faults = {"evaluate", "write", "crash"}
    HistoryLimit = 200
    EvidenceLimit = 5
    MinBaseline = 3
SYMMETRY Symmetry
INVARIANTS
    OneOfTwoSeesTheOther
    SiblingOrderIsFound
    EveryFindingHasItsCase
PROPERTIES
    AppendOnly
    DryRunLeavesNothing
CHECK_DEADLOCK FALSE
