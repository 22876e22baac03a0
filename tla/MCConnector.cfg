SPECIFICATION FairSpec
CONSTANTS
    kInitRetryDelayMs = 2
    kMaxRetryDelayMs = 3
    TimerIds = {t1, t2, t3}
    NoTimer = NoTimer
    MaxConnects = 2
    MaxPending = 1
INVARIANTS
    ConnectOnceIsSafe
    DestroyedIdleIsSafe
PROPERTIES
    StopInLoopIsFinal
    WantedIsPursued
CHECK_DEADLOCK FALSE
