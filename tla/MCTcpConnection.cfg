SPECIFICATION FairSpec
CONSTANTS
    Threads = {t1}
    Messages = {m1, m2}
    MsgLen = 2
    Zero = Zero
    StaleLen = 1
INVARIANTS
    BytesInOrder
    AssertionsHold
    DestroyedAfterRemoval
    LoopUseIsSafe
PROPERTIES
    HalfCloseAfterOutput
    ClosedIsDestroyed
CHECK_DEADLOCK FALSE
