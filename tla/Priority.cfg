SPECIFICATION PrioritySpec
CONSTANTS
    Threads = {t1, t2, t3}
    NULL = NULL
    Mutexes = {1, 2}
    Lowest = 3
    Slots = 3
    PriorityPrograms <- BothPrograms
INVARIANTS
    CeilingBooks
    CeilingPriority
    InheritRestored
CONSTRAINT Bound
SYMMETRY AnyOrder
\* The process ends when lock reads an owner that has gone.
CHECK_DEADLOCK FALSE
