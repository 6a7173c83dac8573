CONSTANTS
    d1 = d1
    d2 = d2
    Drafts = {d1, d2}
    MaxTries = 2
    MaxInbound = 1
    MaxVisits = 1
    MaxActs = 2
    MaxFaults = 1
    ChannelMax = 1
    PageLimit = 1
SPECIFICATION Spec
SYMMETRY Symmetry
INVARIANTS
    TypeOK
    SentAsAsked
    OutboxMoves
    ThreadIsCurrent
PROPERTIES
    OutboxSpec
CHECK_DEADLOCK FALSE
