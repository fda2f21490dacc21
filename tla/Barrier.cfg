SPECIFICATION FairSpec
CONSTANTS
    Threads = {t1, t2, t3, t4}
    Count = 3
    Rounds = 3
INVARIANTS
    Conservation
    NoEarlyReturn
PROPERTIES
    WaitsReturn
\* A thread may be left in the queue when the others have made all their waits.
CHECK_DEADLOCK FALSE
