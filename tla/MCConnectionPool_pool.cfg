SPECIFICATION FairSpec
CONSTANTS
    h1 = h1
    h2 = h2
    h3 = h3
    Handlers <- MCHandlers
    SharingSets <- MCSharingSets
    PoolSize = 2
CHECK_DEADLOCK FALSE
INVARIANTS
    ConnectionsReturned
PROPERTIES
    WaitersServed
    ShutdownEnds
