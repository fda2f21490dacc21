-------------------------------- MODULE Barrier --------------------------------
(***************************************************************************)
(* One pthread_barrier_t (src/src/pthread_barrier.c): init, destroy and    *)
(* wait.  wait counts arrivals under the control semaphore; an early       *)
(* thread releases the control and only then sleeps on the queue           *)
(* semaphore, which the last arrival signals for all of them at once.      *)
(*                                                                         *)
(* A wait or destroy on an invalid barrier (EINVAL) and an init that fails *)
(* leave the object invalid: stuttering steps.                             *)
(***************************************************************************)
EXTENDS Integers, FiniteSets, KernelSema, Callers

CONSTANTS
    Count,     \* the count given to pthread_barrier_init
    Rounds     \* bound: waits each thread makes

ASSUME ThreadsAssumption == IsFiniteSet(Threads)
ASSUME CountAssumption == Count \in Nat \ {0}
ASSUME RoundsAssumption == Rounds \in Nat

VARIABLES
    valid,     \* control # INVALID_ID_
    control,   \* count of the control semaphore
    queue,     \* count of the queue semaphore, created with 0 and maximum Count
    count,
    started,   \* waits each thread has begun
    done,      \* waits each thread has returned from
    permits    \* returns that complete groups of Count arrivals still allow

vars == <<valid, control, queue, count, pc, started, done, permits>>

PCs == {"idle", "lock", "arrive", "unlock_wait", "unlock_serial", "wait"}

Init == /\ valid = FALSE
        /\ control = 0 /\ queue = 0 /\ count = 0
        /\ pc = [t \in Threads |-> "idle"]
        /\ started = [t \in Threads |-> 0]
        /\ done = [t \in Threads |-> 0]
        /\ permits = 0

InitBarrier ==
    /\ ~valid
    /\ valid' = TRUE
    /\ control' = 1 /\ queue' = 0 /\ count' = 0
    /\ UNCHANGED <<pc, started, done, permits>>

\* Destroying a barrier that threads are inside of is undefined.
DestroyBarrier ==
    /\ valid
    /\ NobodyInside
    /\ valid' = FALSE
    /\ control' = 0 /\ queue' = 0
    /\ UNCHANGED <<count, pc, started, done, permits>>

WaitCall(t) ==
    /\ valid
    /\ started[t] < Rounds
    /\ Go(t, "idle", "lock")
    /\ started' = [started EXCEPT ![t] = @ + 1]
    /\ UNCHANGED <<valid, control, queue, count, done, permits>>

LockControl(t) ==
    /\ Go(t, "lock", "arrive")
    /\ Available(control, 1)
    /\ control' = control - 1
    /\ UNCHANGED <<valid, queue, count, started, done, permits>>

Early == count + 1 < Count

ArriveEarly(t) ==
    /\ Early
    /\ Go(t, "arrive", "unlock_wait")
    /\ count' = count + 1
    /\ UNCHANGED <<valid, control, queue, started, done, permits>>

\* Faults: the last arrival is counted too; nobody, or only one, is woken.
ReleasesWithSelf == Count
ReleasesNone == 0
ReleasesOne == 1

\* neededcount - 1, and no call at all when that is 0.
Releases == Count - 1

ArriveLast(t) ==
    /\ ~Early
    /\ Go(t, "arrive", "unlock_serial")
    /\ count' = 0
    /\ queue' = AfterSignal(queue, Releases, Count)
    /\ permits' = permits + Count
    /\ UNCHANGED <<valid, control, started, done>>

UnlockEarly(t) ==
    /\ Go(t, "unlock_wait", "wait")
    /\ control' = control + 1
    /\ UNCHANGED <<valid, queue, count, started, done, permits>>

\* sceKernelWaitSema(queue) returns.  Whoever comes to the queue takes a unit:
\* nothing ties it to the group of arrivals it was signalled for.
ReturnEarly(t) ==
    /\ Go(t, "wait", "idle")
    /\ Available(queue, 1)
    /\ queue' = queue - 1
    /\ done' = [done EXCEPT ![t] = @ + 1]
    /\ permits' = permits - 1
    /\ UNCHANGED <<valid, control, count, started>>

ReturnSerial(t) ==
    /\ Go(t, "unlock_serial", "idle")
    /\ control' = control + 1
    /\ done' = [done EXCEPT ![t] = @ + 1]
    /\ permits' = permits - 1
    /\ UNCHANGED <<valid, queue, count, started>>

Running(t) == ArriveEarly(t) \/ ArriveLast(t) \/ UnlockEarly(t) \/ ReturnSerial(t)

Next == \/ InitBarrier \/ DestroyBarrier
        \/ \E t \in Threads :
              WaitCall(t) \/ LockControl(t) \/ ReturnEarly(t) \/ Running(t)

Spec == Init /\ [][Next]_vars

\* Threads run, and both semaphores queue FIFO.  Nobody has to call wait.
FairSpec == /\ Spec
            /\ \A t \in Threads : /\ SF_vars(LockControl(t))
                                  /\ SF_vars(ReturnEarly(t))
                                  /\ WF_vars(Running(t))

--------------------------------------------------------------------------------
TypeOK == /\ valid \in BOOLEAN
          /\ control \in {0, 1}
          /\ queue \in 0..Count
          /\ count \in 0..(Count - 1)
          /\ pc \in [Threads -> PCs]
          /\ started \in [Threads -> Nat]
          /\ done \in [Threads -> Nat]
          /\ permits \in Int

\* Threads that arrived early and have not returned.
Pending == {t \in Threads : pc[t] \in {"unlock_wait", "wait"}}

\* No wake-up is lost or invented: the threads still to be woken are those of the
\* incomplete group plus one for each unit in the queue.  (With it, a barrier that
\* nobody is inside of is in its initial state, and can be destroyed.)
Conservation == Cardinality(Pending) = count + queue

\* Counted over all threads, waits return only for complete groups of Count
\* arrivals.
NoEarlyReturn == permits >= 0

\* With exactly Count threads, a thread returns from its k-th wait only when every
\* thread has begun its k-th (pthread_barrier.c:51-53, "the number of threads that
\* must call the pthread_barrier_wait subroutine before any of them successfully
\* return from the call").
Separation ==
    Cardinality(Threads) = Count => \A s, t \in Threads : done[t] <= started[s]

Begun == {t \in Threads : started[t] > 0}

\* When Count threads call wait, once each, all of them return.  (In later rounds
\* a wake-up may be stolen: see Separation.)
WaitsReturn ==
    /\ [](Cardinality(Begun) <= Count /\ \A t \in Threads : started[t] <= 1)
    /\ <>(Cardinality(Begun) = Count)
    => AllReturn
================================================================================
