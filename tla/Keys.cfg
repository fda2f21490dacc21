SPECIFICATION FairSpec
CONSTANTS
    Threads = {t1, t2}
    Free = Free
    Destroyed = Destroyed
    PTHREAD_KEYS_MAX = 2
    PTHREAD_DESTRUCTOR_ITERATIONS = 2
    Programs <- AllPrograms
    MaxCalls = 2
INVARIANTS
    CountExact
    NoNullDtor
    DataDestroyed
PROPERTIES
    CallsReturn
\* Threads make MaxCalls calls and end.
CHECK_DEADLOCK FALSE
