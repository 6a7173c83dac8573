CONSTANTS
    c1 = c1
    c2 = c2
    Clients = {c1, c2}
    MaxAttempts = 1
    Window = 1
    Ttl = 1
    MaxTime = 1
    MaxCodes = 2
    MaxKeys = 3
SPECIFICATION Spec
SYMMETRY Symmetry
INVARIANTS
    TypeOK
    AttemptsBounded
    PairedIsTrusted
PROPERTIES
    ReplacedCodeIsDead
CHECK_DEADLOCK FALSE
