------------------------------- MODULE MCPriority -------------------------------
(* Programs for TLC. *)
EXTENDS Priority, TLC

AnyOrder == Permutations(Threads)

\* PRIO_PROTECT mutexes, with ceilings and priorities that are changed.
Protection == [protocols |-> {"PROTECT"}, calls |-> {"lock", "setschedprio", "setprioceiling"},
             careful |-> TRUE]

\* PRIO_INHERIT mutexes, with every way of locking them.
Inheritance == [protocols |-> {"INHERIT"}, calls |-> LockCalls, careful |-> TRUE]

\* Nothing is stated of what follows a disturbance.  The priority of a thread that has
\* PRIO_PROTECT mutexes is its own work: two of the threads at a time use them.  The
\* priority that unlock does not look for, the last one, matters to these only.
Resting(t) == pc[t] = "idle" /\ locked[t] = {} /\ priority[t] = Lowest
Bound == /\ ~disturbed
         /\ program = Protection => \E t \in Threads : Resting(t)
         /\ program = Inheritance => \A t \in Threads : priority[t] < Slots

BothPrograms == {Protection, Inheritance}
================================================================================
