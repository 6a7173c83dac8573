CONSTANTS
    c1 = c1
    c2 = c2
    Respawner = Respawner
    Nobody = Nobody
    Callers = {c1, c2}
    MaxCalls = 3
    MaxChildren = 2
    WatchTries = 1
SPECIFICATION FairSpec
INVARIANTS
    TypeOK
    WaiterHasServer
PROPERTIES
    CallReturns
    RespawnEnds
CHECK_DEADLOCK FALSE
