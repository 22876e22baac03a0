SPECIFICATION FairSpec
CONSTANTS
    Base = Base
    io1 = io1
    io2 = io2
    Pools <- SomePools
    Shared = {1}
    MaxConns = 2
    MaxStarts = 1
INVARIANTS
    ServerIsSafe
    RemovedBeforeDestroyed
    RoundRobin
PROPERTIES
    ClosedIsForgotten
CHECK_DEADLOCK FALSE
