SPECIFICATION Spec
CONSTANTS
    None = None
    s1 = s1
    s2 = s2
    Subs = {s1, s2}
    Mixes <- Traffic
    MaxEvents = 7
    MaxCrashes = 2
INVARIANTS
    AnsweredMeansAgreed
PROPERTIES
    InTheEndAgreed
CHECK_DEADLOCK FALSE
