SPECIFICATION FairSpec
CONSTANTS
    Workers = {w1, w2}
    Functors = {f1, f2, f3}
INVARIANTS
    WakeupRequested
PROPERTIES
    QueueSpec
    FunctorIsExecuted
    QuitStopsLoop
