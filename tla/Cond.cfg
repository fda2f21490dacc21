SPECIFICATION FairSpec
CONSTANTS
    Threads = {t1, t2, t3}
    NoThread = NoThread
    Cancellable = {t1}
INVARIANTS
    NoLostWakeup
    BroadcastWakesAll
    NothingLeft
PROPERTIES
    CallsReturn
    WaitsReturn
CHECK_DEADLOCK FALSE
