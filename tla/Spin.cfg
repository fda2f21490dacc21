\* Three threads: a holder that unlocks, and two that race for the word.
CONSTANTS
    Threads = {t1, t2, t3}

SPECIFICATION FairSpec

INVARIANTS

PROPERTIES
    ImplementsLock
    UnlockReturns
    SomebodyGetsIt
