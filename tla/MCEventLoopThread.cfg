SPECIFICATION FairSpec
CONSTANT
    Users = {u1, u2, u3}
CHECK_DEADLOCK FALSE
INVARIANTS
    TypeOK
    StartLoopReturnsLoop
    OnlyUserQuitDangles
PROPERTIES
    StartLoopReturns
    QuitInLoopFinishes
