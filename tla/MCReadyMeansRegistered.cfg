CONSTANTS
    s1 = s1
    s2 = s2
    r1 = r1
    r2 = r2
    NoServer = NoServer
    Servers = {s1, s2}
    Requests = {r1}
    MaxRequests = 4
    Faults = FALSE
SPECIFICATION Spec
INVARIANT ReadyMeansRegistered
CHECK_DEADLOCK FALSE
