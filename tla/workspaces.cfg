SPECIFICATION Spec
CONSTANTS
    None = None
    c1 = c1
    c2 = c2
    o1 = o1
    m1 = m1
    n1 = n1
    w1 = w1
    w2 = w2
    t1 = t1
    t2 = t2
    Calls = {c1, c2}
    Uids = {o1, m1}
    Payers = {o1}
    Wids = {w1, w2}
    Tokens = {t1}
    MaxMembers = 2
    Pool = 2
    Units = {1, 2}
    MaxDay = 1
    Mixes <- Traffic
SYMMETRY Symmetry
INVARIANTS
    OwnerStays
    AuthorityIsGranted
    PoolIsExact
CHECK_DEADLOCK FALSE
