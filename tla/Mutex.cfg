SPECIFICATION FairSpec
CONSTANTS
    Threads = {t1, t2, t3}
    NULL = NULL
    MUTEX_SIG_ = MUTEX_SIG_
    Types <- AllTypes
    StaticTypes <- NonRecursive
    MaxDepth = 2
INVARIANTS
    OwnedOnReturn
    Bookkeeping
PROPERTIES
    ImplementsLock
    CallsReturn
\* A holder whose ownership was erased cannot unlock: everyone may wait for ever.
CHECK_DEADLOCK FALSE
