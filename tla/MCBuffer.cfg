SPECIFICATION Spec
CONSTANTS
    Byte = {0, 1}
    kCheapPrepend = 2
    kInitialSize = 3
    ExtraBuf = 2
    MaxLen = 3
    MaxSize = 7
CONSTRAINT SizeBound
INVARIANTS
    AssertionsHold
PROPERTY
    QueueSteps
