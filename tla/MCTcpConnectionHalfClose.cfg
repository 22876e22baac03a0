SPECIFICATION Spec
CONSTANTS
    Threads = {t1}
    Messages = {m1, m2}
    MsgLen = 2
    Zero = Zero
    StaleLen = 1
PROPERTIES
    SentBeforeShutdownIsWritten
CHECK_DEADLOCK FALSE
