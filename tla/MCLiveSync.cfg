CONSTANTS
    MaxMessages = 3
    MaxVersions = 2
    MaxEdited = 1
    MaxFailures = 1
    PollLimit = 2
    SeenMax = 2
    ChannelMax = 1
    HookMax = 1
    PrefetchLimit = 1
SPECIFICATION FairSpec
INVARIANTS
    TypeOK
    KnownIsStored
PROPERTIES
    CacheCatchesUp
    FallsSilent
