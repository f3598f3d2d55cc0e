SPECIFICATION Spec
CONSTANTS
    None = None
    c1 = c1
    c2 = c2
    u1 = u1
    k1 = k1
    k2 = k2
    k3 = k3
    a1 = a1
    p1 = p1
    Calls <- TwoCalls
    Uids = {u1}
    Hashes = {k1, k2, k3}
    Prefix <- OnePrefix
    Addresses = {a1}
    Mixes <- Traffic
    Tiers <- TwoTiers
    MaxKeys <- OneAndTwo
    Limit <- OneAndTwo
    FreeLimit = 2
    Units = {1}
    MaxDay = 1
SYMMETRY Symmetry
INVARIANTS
    KeyLimit
    LookupIsLinearizable
    RefusedMeansUsedUp
CHECK_DEADLOCK FALSE
