SPECIFICATION LibraryFairSpec
CONSTANTS
    Threads = {t1, t2, t3}
    NoThread = NoThread
    Kinds = {"guarded", "plain"}
INVARIANTS
    RunsOnce
    CompleteOnReturn
    GuardedExclusion
PROPERTIES
    CallsReturn
\* Threads that spin, or wait for a global mutex left locked, never go on.
CHECK_DEADLOCK FALSE
