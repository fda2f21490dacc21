------------------------------- MODULE LockSpec -------------------------------
(***************************************************************************)
(* What a mutex promises: at most one thread holds it, only its holder     *)
(* takes it again (and only if it is recursive), and it becomes available  *)
(* to another thread after as many unlocks as locks.                       *)
(***************************************************************************)
EXTENDS Naturals

CONSTANTS Threads, Types

VARIABLES
    held,    \* held[t]: locks minus unlocks that thread t has completed
    type     \* the type given when the mutex was initialised

Free == \A t \in Threads : held[t] = 0

Init == /\ held = [t \in Threads |-> 0]
        /\ type \in Types

\* A free mutex is initialised again, with any type.
Retype == /\ Free
          /\ type' \in Types
          /\ UNCHANGED held

Acquire(t) == /\ Free
              /\ held' = [held EXCEPT ![t] = 1]
              /\ UNCHANGED type

Relock(t) == /\ type = "RECURSIVE"
             /\ held[t] > 0
             /\ held' = [held EXCEPT ![t] = @ + 1]
             /\ UNCHANGED type

Release(t) == /\ held[t] > 0
              /\ held' = [held EXCEPT ![t] = @ - 1]
              /\ UNCHANGED type

Next == Retype \/ \E t \in Threads : Acquire(t) \/ Relock(t) \/ Release(t)

Spec == Init /\ [][Next]_<<held, type>>
================================================================================
