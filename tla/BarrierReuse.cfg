SPECIFICATION Spec
CONSTANTS
    Threads = {t1, t2}
    Count = 2
    Rounds = 2
INVARIANT Separation
CHECK_DEADLOCK FALSE
