\* Three requests over one invoice whose calls can fail, and a reviewer.
SPECIFICATION Spec
CONSTANTS
    None = None
    RoundsDown = {}
    r1 = r1
    r2 = r2
    r3 = r3
    v1 = v1
    V = V
    EUR = EUR
    Requests <- ThreeRequests
    Contents <- OneInvoice
    MaxBatch = 1
    Endpoints = {"dedupe"}
    DryRuns = {FALSE}
    Reviewers = {v1}
    MaxDecisions = 1
    Faults = {"read", "file", "close"}
    HistoryLimit = 200
    EvidenceLimit = 5
    MinBaseline = 3
SYMMETRY Symmetry
INVARIANTS
    DedupeReadsHistory
    ClosedCasesAreOpenedAnew
PROPERTIES
    ImplementsLifecycle
CHECK_DEADLOCK FALSE
