CONSTANTS
    d1 = d1
    d2 = d2
    Drafts = {d1, d2}
    MaxTries = 2
    MaxInbound = 1
    MaxVisits = 1
    MaxActs = 3
    MaxFaults = 0
    ChannelMax = 1
    PageLimit = 2
SPECIFICATION Spec
INVARIANT FailedIsNotDelivered
CHECK_DEADLOCK FALSE
