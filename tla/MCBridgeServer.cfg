CONSTANTS
    c1 = c1
    c2 = c2
    Conns = {c1, c2}
    Capacity = 1
    VerifyAttempts = 2
SPECIFICATION FairSpec
INVARIANTS
    TypeOK
    QuietViewIsCurrent
    OneAttempt
PROPERTIES
    AttemptEnds
    AttemptAdvances
