SPECIFICATION FairSpec
CONSTANTS
    Statuses = {s1, s2}
    Null = Null
    Canceled = Canceled
    Programs <- AllPrograms
    MaxHandlers = 1
INVARIANTS
    NoAccessAfterFree
    JoinValue
    JoinAfterEnd
    Reclaimed
PROPERTIES
    JoinReturns
\* Everything is over when the thread has ended.
CHECK_DEADLOCK FALSE
