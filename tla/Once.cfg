SPECIFICATION OnceFairSpec
CONSTANTS
    Threads = {t1, t2, t3}
    NULL = NULL
    MUTEX_SIG_ = MUTEX_SIG_
    Types = {"NORMAL"}
    StaticTypes = {"NORMAL"}
    MaxDepth = 1
INVARIANTS
    RunsOnce
    CompleteOnReturn
PROPERTIES
    OnceCallsReturn
\* Threads may all be cancelled, or wait for a mutex that nobody can unlock any more.
CHECK_DEADLOCK FALSE
