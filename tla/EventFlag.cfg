SPECIFICATION FairSpec
CHECK_DEADLOCK FALSE
CONSTANTS
    Threads = {t1, t2}
    Events = {1, 2}
    Requests <- WaitRequests
    WORD = 32
    SEC = 5
    NSEC = 4
    Ahead <- AheadValues
    Seconds = {2}
    Old = {3}
    Start = 30
    MaxTime = 33
INVARIANTS
    OnTime
PROPERTIES
    CallsReturn
