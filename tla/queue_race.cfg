SPECIFICATION Spec
CONSTANTS
    None = None
    RoundsDown = {}
    r1 = r1
    r2 = r2
    r3 = r3
    v1 = v1
    V = V
    EUR = EUR
    Requests <- TwoRequests
    Contents <- OneInvoice
    MaxBatch = 2
    Endpoints = {"dedupe"}
    DryRuns = {FALSE}
    Reviewers = {}
    MaxDecisions = 0
    Faults = {}
    HistoryLimit = 200
    EvidenceLimit = 5
    MinBaseline = 3
SYMMETRY Symmetry
INVARIANTS
    OneOpenCasePerDispute
CHECK_DEADLOCK FALSE
