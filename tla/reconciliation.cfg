CONSTANTS
    Absent = Absent
    Acme = Acme
    Bolt = Bolt
    Po158 = Po158
    Po999 = Po999
    OtherPo = OtherPo
    Eur = Eur
    Usd = Usd
    Laptop = Laptop
    Cable = Cable
    WellFormed <- MCWellFormed
    NumberIn <- MCNumberIn
    Submissions <- MCSubmissions
    Contexts <- MCContexts

SPECIFICATION Spec
INVARIANTS
    OneToOne
    UnmatchedMeansAbsent
    BusinessSeesQuantities
    ApprovalIsEarned
    TroubleNeverHelps
