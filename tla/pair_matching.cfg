SPECIFICATION PairSpec
CONSTANTS
    None = None
    RoundsDown = {120}
    V = V
    W = W
    R = R
    S = S
    EUR = EUR
    USD = USD
    Originals <- MCOriginals
    Values <- MCValues
    MaxEdits = 4
INVARIANTS
    BlockIsProvable
    VerdictIgnoresOrder
    CandidatesLoseNothing
PROPERTIES
    RelabellingNeverWeakens
CHECK_DEADLOCK FALSE
