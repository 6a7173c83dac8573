SPECIFICATION FairSpec
CONSTANTS
    s1 = s1
    s2 = s2
    r1 = r1
    r2 = r2
    NoServer = NoServer
    Servers = {s1, s2}
    Requests = {r1, r2}
    MaxRequests = 2
    Faults = TRUE
PROPERTIES
    SettlesOnProvision
    ConnectingEnds
CHECK_DEADLOCK FALSE
INVARIANTS
    TypeOK
    SessionFollowsProvision
    NoLostWakeup
    HandleIsSessions
