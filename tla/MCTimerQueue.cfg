SPECIFICATION FairSpec
CONSTANTS
    Users = {u1}
    Addrs = {1, 2}
    Intervals = {0, 1}
    Delays <- MCDelays
    SeqModulus = 3
    MaxTimers = 3
    MaxTime = 3
    MaxPending = 1
INVARIANTS
    SetsAgree
    Ownership
    CanceledStaysCanceled
    TimerfdArmed
PROPERTY
    DueTimerIsSignalled
