SPECIFICATION FairSpec
CONSTANTS
    kLargeBuffer = 3
    kMaxBuffers = 3
    kKeptBuffers = 2
    MaxLines = 12
CHECK_DEADLOCK FALSE
INVARIANTS
    NothingElseLost
    AssertionsHold
PROPERTIES
    LineIsWritten
    StopReturns
