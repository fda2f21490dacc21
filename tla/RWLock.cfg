SPECIFICATION FairSpec
CONSTANTS
    Threads = {t1, t2, t3}
    MAX_COUNT = 4
    MaxReads = 1
INVARIANTS
    Exclusion
    UnitsExact
PROPERTY
    CallsReturn
\* Units a static lock loses are never given back: everyone may wait for ever.
CHECK_DEADLOCK FALSE
