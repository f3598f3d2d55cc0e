SPECIFICATION Spec
CONSTANTS
    None = None
    c1 = c1
    c2 = c2
    u1 = u1
    j1 = j1
    t1 = t1
    t2 = t2
    Calls = {c1, c2}
    Texts = {t1, t2}
    Users = {u1}
    Jobs = {j1}
    Mixes <- Traffic
    MaxSessions = 1
    MaxCache = 1
    Transient = 0
    Retention = 1
    MaxTime = 2
INVARIANTS
    NoResultGoesMissing
    NothingKeptUnasked
PROPERTIES
    JobsAreSettled
    AsyncIsAnswered
CHECK_DEADLOCK FALSE
