---------------------------------- MODULE Time ----------------------------------
(***************************************************************************)
(* How the library turns a deadline into the timeout of a kernel call        *)
(* (pthread_impl.h, pthread.c, pthread_np.c).  The clock c is the process    *)
(* time, in microseconds.                                                    *)
(***************************************************************************)
EXTENDS Integers

CONSTANTS
    WORD,    \* the values of a 32-bit word: 2^32
    SEC,     \* microseconds in a second: 1000 * 1000
    NSEC     \* nanoseconds in a microsecond: 1000

ASSUME WidthAssumption == /\ SEC \in Nat \ {0} /\ NSEC \in Nat \ {0, 1}
                          /\ WORD \in Nat \ {0} /\ WORD % 2 = 0

\* timespec2usec, in the arithmetic of the word.
timespec2usec(t) == (t.tv_sec * SEC + (t.tv_nsec + NSEC \div 2) \div NSEC) % WORD

\* pthread_getsystemtime_np: tv_nsec is given the microseconds, one of which is
\* lost when the conversion through a double rounds down.
getsystemtime(c, lost) ==
    [tv_sec |-> c \div SEC, tv_nsec |-> IF c % SEC = 0 THEN 0 ELSE (c % SEC) - lost]

\* A word taken as an int.
AsInt(x) == IF x % WORD < WORD \div 2 THEN x % WORD ELSE (x % WORD) - WORD

\* Fault: what is left is computed without going through an int.
getDeltaTimeWide(abstime, c, lost) ==
    LET delta == timespec2usec(abstime) - timespec2usec(getsystemtime(c, lost)) IN
    IF delta < 0 THEN 0 ELSE delta

\* getDeltaTime at time c, and the same code in pthread_delay_until_np.
getDeltaTime(abstime, c, lost) ==
    LET delta == AsInt(timespec2usec(abstime) - timespec2usec(getsystemtime(c, lost))) IN
    IF delta < 0 THEN 0 ELSE delta

\* The timespec of time c, with nanoseconds.
Timespec(c) == [tv_sec |-> c \div SEC, tv_nsec |-> (c % SEC) * NSEC]
================================================================================
