-------------------------------- MODULE Priority --------------------------------
(***************************************************************************)
(* The priority protocols of the mutexes (src/src/pthread_mutex.c), with     *)
(* pthread_mutex_setprioceiling and pthread_setschedprio: what lock and      *)
(* unlock do to the kernel priorities of their callers and of the owners     *)
(* they wait for.  A smaller number is a more urgent priority.               *)
(*                                                                           *)
(* The mutexes are NORMAL and initialised; their types, their initialisation *)
(* and mutual exclusion are module Mutex.  The threads come from             *)
(* pthread_create, so each begins with thread->priority equal to its kernel  *)
(* priority, and none ends.                                                  *)
(***************************************************************************)
EXTENDS Integers, FiniteSetsExt, KernelSema, Callers

CONSTANTS
    NULL,              \* no thread
    Mutexes,           \* numbers: callers that nest locks take them in this order
    Lowest,            \* the least urgent priority
    Slots,             \* entries of priomutex, which unlock looks at: 128
    PriorityPrograms   \* ways of using the mutexes, see IsProgram

Priorities == 0..Lowest

\* The ceilings that can be counted.  A mutex of another one, the default of
\* pthread_mutexattr_init perhaps, is counted outside of the array: no caller has one.
Ceilings == {p \in Priorities : p < Slots}
Protocols == {"INHERIT", "PROTECT"}
LockCalls == {"lock", "timedlock", "trylock"}
Calls == LockCalls \cup {"setschedprio", "setprioceiling"}

\* Which protocols the mutexes have, which calls are made, and whether callers
\* are careful: they set their own priority while they have no mutex, and a
\* ceiling while no other thread has or asks for the mutex, and have no more
\* mutexes of one ceiling than the library assumes.
IsProgram(p) == /\ p.protocols \subseteq Protocols
                /\ p.calls \subseteq Calls
                /\ p.careful \in BOOLEAN

ASSUME NullAssumption == NULL \notin Threads
ASSUME MutexAssumption == Mutexes \subseteq Nat
ASSUME PriorityAssumption == Lowest \in 0..255 /\ Slots \in 1..128
ASSUME ProgramAssumption == \A p \in PriorityPrograms : IsProgram(p)

VARIABLES
    program,
    protocol, prioceiling, owner,   \* fields of each mutex
    sema,                           \* count of its semaphore (created with 1, 1)
    priority, priomutex,            \* fields of each thread
    current,                        \* the priority the kernel runs it at
    arg,                            \* what the call of a thread is about
    myprio, oldthread, oldprio,     \* the locals of lock
    locked,                         \* the mutexes each thread has locked
    disturbed                       \* two threads have raised the same owner at once

locals == <<myprio, oldthread, oldprio>>
priorities == <<program, protocol, prioceiling, owner, sema, priority, priomutex,
                current, pc, arg, locals, locked, disturbed>>
mutexes == <<program, protocol, prioceiling, owner, sema, locked, disturbed>>
threads == <<priority, priomutex, current>>

NoCall == [call |-> "lock", on |-> 0, prio |-> 0]

PriorityInit == /\ program \in PriorityPrograms
                /\ protocol \in [Mutexes -> program.protocols]
                /\ prioceiling \in [Mutexes -> Ceilings]
                /\ \A m \in Mutexes : protocol[m] = "INHERIT" => prioceiling[m] = 0
                /\ owner = [m \in Mutexes |-> NULL]
                /\ sema = [m \in Mutexes |-> 1]
                /\ priority \in [Threads -> Priorities]
                /\ priomutex = [t \in Threads |-> [p \in Ceilings |-> 0]]
                /\ current = priority
                /\ pc = [t \in Threads |-> "idle"]
                /\ arg = [t \in Threads |-> NoCall]
                /\ myprio = [t \in Threads |-> 0]
                /\ oldthread = [t \in Threads |-> NULL]
                /\ oldprio = [t \in Threads |-> -1]
                /\ locked = [t \in Threads |-> {}]
                /\ disturbed = FALSE

Enter(t, to, call, x, p) ==
    /\ call \in program.calls
    /\ Go(t, "idle", to)
    /\ arg' = [arg EXCEPT ![t] = [call |-> call, on |-> x, prio |-> p]]

\* The call returns: its arguments and locals no longer matter.
Done(t, from) == /\ Go(t, from, "idle")
                 /\ arg' = [arg EXCEPT ![t] = NoCall]
                 /\ myprio' = [myprio EXCEPT ![t] = 0]
                 /\ oldthread' = [oldthread EXCEPT ![t] = NULL]
                 /\ oldprio' = [oldprio EXCEPT ![t] = -1]

on(t) == arg[t].on

\* sceKernelChangeThreadPriority.
ChangePriority(t, p) == current' = [current EXCEPT ![t] = p]

\* The PRIO_PROTECT mutexes a thread has, is locking or has not finished unlocking.
Counted(t) ==
    {m \in locked[t] \cup (IF pc[t] \in {"raise", "wait", "own", "signal", "lower"}
                           THEN {on(t)} ELSE {}) :
        protocol[m] = "PROTECT"}

AtCeiling(t, p) == {m \in Counted(t) : prioceiling[m] = p}

\* "We assume there will be no more than 128 mutex per priority" (pthread_impl.h:85).
MutexesPerPriority == 128

--------------------------------------------------------------------------------
(* lock, timedlock and trylock. *)

CeilingChanges(m) == \E u \in Threads : pc[u] \in {"ceiling", "changed"} /\ on(u) = m

LockCall(t, call, m) ==
    /\ \A l \in locked[t] : l < m
    /\ program.careful => /\ ~CeilingChanges(m)
                          /\ Cardinality(AtCeiling(t, prioceiling[m])) < MutexesPerPriority
    /\ Enter(t, CASE call = "trylock"            -> "wait"
                  [] protocol[m] = "INHERIT"     -> "inherit"
                  [] OTHER                       -> "protect", call, m, 0)
    /\ UNCHANGED <<mutexes, threads, locals>>

\* "if (mutex->owner != NULL)", and the priority of the caller.
InheritTest(t) ==
    /\ Go(t, "inherit", IF owner[on(t)] = NULL THEN "wait" ELSE "info")
    /\ myprio' = [myprio EXCEPT ![t] = current[t]]
    /\ UNCHANGED <<mutexes, threads, arg, oldthread, oldprio>>

\* Between sceKernelGetThreadInfo and raising the owner, and to the end of lock.
Reading(t) == pc[t] \in {"save", "boost"}
Raising(t) == Reading(t) \/ oldthread[t] # NULL

\* sceKernelGetThreadInfo(mutex->owner->id): the owner is read again.
InheritInfo(t) ==
    LET o == owner[on(t)] IN
    /\ IsAt(t, "info") /\ o # NULL
    /\ Go(t, "info", IF myprio[t] < current[o] THEN "save" ELSE "wait")
    /\ oldprio' = [oldprio EXCEPT ![t] = current[o]]
    /\ disturbed' = (disturbed \/ \E u \in Threads : Raising(u))
    /\ UNCHANGED <<program, protocol, prioceiling, owner, sema, locked,
                   threads, arg, myprio, oldthread>>

InheritSave(t) ==
    /\ Go(t, "save", "boost")
    /\ oldthread' = [oldthread EXCEPT ![t] = owner[on(t)]]
    /\ UNCHANGED <<mutexes, threads, arg, myprio, oldprio>>

InheritBoost(t) ==
    LET o == owner[on(t)] IN
    /\ Go(t, "boost", "wait")
    /\ o # NULL
    /\ ChangePriority(o, myprio[t])
    /\ UNCHANGED <<mutexes, priority, priomutex, arg, locals>>

\* The owner has unlocked since the test: mutex->owner->id reads address zero,
\* and the process ends.
InheritFaults(t) ==
    /\ Go(t, "info", "fault") \/ Go(t, "boost", "fault")
    /\ owner[on(t)] = NULL
    /\ UNCHANGED <<mutexes, threads, arg, locals>>

Plus(n, k) == (n + k) % 256

\* Fault: the ceiling is only counted when it is above the caller's priority.
ProtectCountIfRaised(t) ==
    LET c == prioceiling[on(t)] IN
    /\ Go(t, "protect", "raise")
    /\ priomutex' = [priomutex EXCEPT ![t][c] = Plus(@, IF c < current[t] THEN 1 ELSE 0)]
    /\ myprio' = [myprio EXCEPT ![t] = current[t]]
    /\ UNCHANGED <<mutexes, priority, current, arg, oldthread, oldprio>>

ProtectCount(t) ==
    /\ Go(t, "protect", "raise")
    /\ priomutex' = [priomutex EXCEPT ![t][prioceiling[on(t)]] = Plus(@, 1)]
    /\ myprio' = [myprio EXCEPT ![t] = current[t]]
    /\ UNCHANGED <<mutexes, priority, current, arg, oldthread, oldprio>>

ProtectRaise(t) ==
    LET c == prioceiling[on(t)] IN
    /\ Go(t, "raise", "wait")
    /\ IF c < myprio[t] THEN ChangePriority(t, c) ELSE UNCHANGED current
    /\ UNCHANGED <<mutexes, priority, priomutex, arg, locals>>

\* sceKernelWaitSema or sceKernelPollSema returns SCE_OK.
Grant(t) ==
    LET m == on(t) IN
    /\ Go(t, "wait", "own")
    /\ Available(sema[m], 1)
    /\ sema' = [sema EXCEPT ![m] = @ - 1]
    /\ UNCHANGED <<program, protocol, prioceiling, owner, locked, disturbed, threads,
                   arg, locals>>

\* WAIT_TIMEOUT or SEMA_ZERO: what the protocol has done stays done.
GiveUp(t) ==
    /\ Done(t, "wait")
    /\ \/ arg[t].call = "timedlock"
       \/ arg[t].call = "trylock" /\ ~Available(sema[on(t)], 1)
    /\ disturbed' = (disturbed \/ oldthread[t] # NULL)
    /\ UNCHANGED <<program, protocol, prioceiling, owner, sema, locked, threads>>

SetOwner(t) ==
    LET m == on(t) IN
    /\ IsAt(t, "own")
    /\ owner' = [owner EXCEPT ![m] = t]
    /\ locked' = [locked EXCEPT ![t] = @ \cup {m}]
    /\ IF oldthread[t] # NULL
       THEN Go(t, "own", "restore") /\ UNCHANGED <<arg, locals>>
       ELSE Done(t, "own")
    /\ disturbed' = (disturbed \/ \E u \in Threads : Reading(u) /\ on(u) = m)
    /\ UNCHANGED <<program, protocol, prioceiling, sema, threads>>

\* Fault: the wrong one of the two saved priorities is put back.
RestoreMine(t) ==
    /\ Done(t, "restore")
    /\ ChangePriority(oldthread[t], myprio[t])
    /\ UNCHANGED <<mutexes, priority, priomutex>>

\* "Restore the original priority" of the thread that was the owner.
RestorePriority(t) ==
    /\ Done(t, "restore")
    /\ ChangePriority(oldthread[t], oldprio[t])
    /\ UNCHANGED <<mutexes, priority, priomutex>>

--------------------------------------------------------------------------------
(* unlock. *)

Unlock(t, m) ==
    /\ m \in locked[t]
    /\ Go(t, "idle", "signal")
    /\ arg' = [arg EXCEPT ![t].on = m]
    /\ owner' = [owner EXCEPT ![m] = NULL]
    /\ locked' = [locked EXCEPT ![t] = @ \ {m}]
    /\ UNCHANGED <<program, protocol, prioceiling, sema, disturbed, threads, locals>>

UnlockSignal(t) ==
    LET m == on(t) IN
    /\ Go(t, "signal", IF protocol[m] = "PROTECT" THEN "lower" ELSE "reset")
    /\ sema' = [sema EXCEPT ![m] = AfterSignal(@, 1, 1)]
    /\ UNCHANGED <<program, protocol, prioceiling, owner, locked, disturbed, threads,
                   arg, locals>>

\* Fault: the thread goes back to its own priority at every unlock.
OwnIgnoringCeilings(t, counts) == priority[t]

\* What the loop of unlock changes the priority to: the first i with i == me->priority
\* or priomutex[i] > 0.  When there is none it changes nothing.
Own(t, counts) ==
    LET found == {i \in Ceilings : i = priority[t] \/ counts[i] > 0}
    IN  IF found = {} THEN current[t] ELSE Min(found)

UnlockProtect(t) ==
    LET counts == [priomutex[t] EXCEPT ![prioceiling[on(t)]] = Plus(@, 255)] IN
    /\ Done(t, "lower")
    /\ priomutex' = [priomutex EXCEPT ![t] = counts]
    /\ ChangePriority(t, Own(t, counts))
    /\ UNCHANGED <<mutexes, priority>>

UnlockInherit(t) ==
    /\ Done(t, "reset")
    /\ ChangePriority(t, priority[t])
    /\ UNCHANGED <<mutexes, priority, priomutex>>

--------------------------------------------------------------------------------
(* pthread_mutex_setprioceiling and pthread_setschedprio.  A thread that sets *)
(* the ceiling of a mutex it has locked waits for itself: no caller does.     *)

Quiet(m, t) == \A u \in Threads \ {t} :
    m \notin locked[u] /\ (pc[u] # "idle" => on(u) # m)

SetPrioCeiling(t, m, c) ==
    /\ program.careful => Quiet(m, t)
    /\ m \notin locked[t]
    /\ Enter(t, "ceiling", "setprioceiling", m, c)
    /\ UNCHANGED <<mutexes, threads, locals>>

CeilingChange(t) ==
    LET m == on(t) IN
    /\ Go(t, "ceiling", "changed")
    /\ Available(sema[m], 1)
    /\ sema' = [sema EXCEPT ![m] = @ - 1]
    /\ prioceiling' = [prioceiling EXCEPT ![m] = arg[t].prio]
    /\ UNCHANGED <<program, protocol, owner, locked, disturbed, threads, arg, locals>>

CeilingSignal(t) ==
    /\ Done(t, "changed")
    /\ sema' = [sema EXCEPT ![on(t)] = AfterSignal(@, 1, 1)]
    /\ UNCHANGED <<program, protocol, prioceiling, owner, locked, disturbed, threads>>

\* The target is in arg: its kernel priority first, then thread->priority.
SetSchedPrio(t, u, p) ==
    /\ program.careful => u = t /\ locked[t] = {}
    /\ Enter(t, "schedprio", "setschedprio", u, p)
    /\ ChangePriority(u, p)
    /\ UNCHANGED <<mutexes, priority, priomutex, locals>>

SchedPrioRecord(t) ==
    /\ Done(t, "schedprio")
    /\ priority' = [priority EXCEPT ![on(t)] = arg[t].prio]
    /\ UNCHANGED <<mutexes, priomutex, current>>

--------------------------------------------------------------------------------
Alive == \A t \in Threads : pc[t] # "fault"

Running(t) == \/ InheritTest(t) \/ InheritInfo(t) \/ InheritSave(t) \/ InheritBoost(t)
              \/ InheritFaults(t) \/ ProtectCount(t) \/ ProtectRaise(t)
              \/ SetOwner(t) \/ RestorePriority(t)
              \/ UnlockSignal(t) \/ UnlockProtect(t) \/ UnlockInherit(t)
              \/ CeilingSignal(t) \/ SchedPrioRecord(t)

PriorityNext == /\ Alive
        /\ \E t \in Threads :
              \/ \E m \in Mutexes : \/ \E call \in LockCalls : LockCall(t, call, m)
                                    \/ Unlock(t, m)
                                    \/ \E c \in Ceilings : SetPrioCeiling(t, m, c)
              \/ \E u \in Threads, p \in Priorities : SetSchedPrio(t, u, p)
              \/ Grant(t) \/ GiveUp(t) \/ CeilingChange(t)
              \/ Running(t)

PrioritySpec == PriorityInit /\ [][PriorityNext]_priorities

--------------------------------------------------------------------------------
\* No lock of the program gives up, and none is a trylock, which does not count.
Disciplined == program.careful /\ program.calls \cap {"timedlock", "trylock"} = {}

\* priomutex "indicates how many mutex of each priority are held by this thread"
\* (pthread_impl.h:82-84), at every step, for nested mutexes and ceilings that
\* change while nobody has the mutex.
CeilingBooks ==
    Disciplined => \A t \in Threads, p \in Ceilings :
        priomutex[t][p] = Cardinality(AtCeiling(t, p))

\* "The higher of its priority or the highest of the priority ceilings of all the
\* mutexes owned by this thread" (pthread_mutex.c:249-253).
Due(t) == Min({priority[t]} \cup {prioceiling[m] : m \in locked[t]})

Protecting == Disciplined /\ program.protocols = {"PROTECT"}

\* A thread that has PRIO_PROTECT mutexes only never runs below the priority that is
\* due to it, and at no other if its own priority is one that unlock looks for.
CeilingPriority ==
    Protecting => \A t \in Threads :
        pc[t] = "idle" => /\ current[t] <= Due(t)
                          /\ priority[t] < Slots => current[t] = Due(t)

\* Unlock sets "the thread priority to the highest priority of the mutex owned, or the
\* orignial priority of the thread" (pthread_mutex.c:449-450), whatever that priority
\* is.  It does not: the loop ends at 127, and a thread made with the default attributes
\* has a priority beyond that where SCE_KERNEL_PROCESS_PRIORITY_USER_LOW is 127 or more.
DocumentedPriority ==
    Protecting => \A t \in Threads : pc[t] = "idle" => current[t] = Due(t)

\* A thread that has no mutex left runs at its own priority again, once the thread
\* that raised it has gone: that one puts back what it found (pthread_mutex.c:
\* 283-290), before or after the owner has put back its own (463-470), and the
\* owner may have locked and unlocked another mutex in between.  It is so as long
\* as no two threads raise an owner at the same time, the owner has not changed while
\* a thread was between reading and raising it, no timed wait has expired after it
\* raised an owner, and pthread_setschedprio does not set what is going to be restored.
InheritRestored ==
    /\ program.protocols = {"INHERIT"} /\ "setschedprio" \notin program.calls
    /\ ~disturbed
    => \A t \in Threads :
          pc[t] = "idle" /\ locked[t] = {} /\ (\A u \in Threads : oldthread[u] # t)
              => current[t] = priority[t]
================================================================================
