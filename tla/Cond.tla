---------------------------------- MODULE Cond ----------------------------------
(***************************************************************************)
(* One pthread_cond_t (src/src/pthread_cond.c) with the mutex its waiters  *)
(* use: init, destroy, the static initialiser, wait, timedwait, signal and *)
(* broadcast, and the cancellation of waiters (pthread_cancel of           *)
(* src/src/pthread.c on a thread whose cancelability is deferred).         *)
(*                                                                         *)
(* A wait counts itself in NbWait under the control semaphore.  The mutex  *)
(* and the control are released by a callback that the kernel runs inside  *)
(* of sceKernelWaitSemaCB.  The mutex is the abstract one of LockSpec,     *)
(* which Mutex implements; all waiters use the same mutex and have locked  *)
(* it, anything else is undefined.  Calls on an invalid object (EINVAL),   *)
(* signals that find nobody and a destroy that finds waiters (EBUSY) change *)
(* nothing and are stuttering steps.                                       *)
(***************************************************************************)
EXTENDS Integers, FiniteSets, KernelSema, Callers

CONSTANTS
    NoThread,
    Cancellable     \* threads that pthread_cancel is called on

WaitCalls == {"wait", "timedwait"}
SignalCalls == {"signal", "broadcast"}

ASSUME ThreadsAssumption == IsFiniteSet(Threads) /\ NoThread \notin Threads
ASSUME CancellableAssumption == Cancellable \subseteq Threads

VARIABLES
    id,         \* the field control: STATIC_INIT_ID_, INVALID_ID_ or a live semaphore
    control,    \* count of the control semaphore
    NbWait,
    lock,       \* count of the semaphore lock: its maximum, 0x7fffffff, is out of reach
    mutex,      \* owner of the waiters' mutex
    call,       \* the call each thread is in
    inWAIT,     \* threads whose field inWAIT is set
    pending     \* threads whose field cancel_pending is set

vars == <<id, control, NbWait, lock, mutex, pc, call, inWAIT, pending>>
object == <<id, control, NbWait, lock>>

COND_SIG_ == 3

CallbackPCs == {"cb_mutex", "cb_control", "cb_inwait"}
LatePCs == {"late", "late_count"}
DeadPCs == {"dead", "dead_counted"}
WaitPCs == {"si_create", "si_control", "lock", "count", "asleep", "woken", "relock"}
               \cup CallbackPCs \cup LatePCs
SignalPCs == {"s_lock", "s_post", "s_count", "s_unlock"}
PCs == {"idle"} \cup WaitPCs \cup SignalPCs \cup DeadPCs

\* Which call it was no longer matters: canonical, to keep the states few.
NoCall(t) == call' = [call EXCEPT ![t] = "wait"]

\* Declared with PTHREAD_COND_INITIALIZER, or without an initialiser.
Init == /\ id \in {"STATIC", "INVALID"}
        /\ control = 0
        /\ NbWait = IF id = "STATIC" THEN COND_SIG_ ELSE 0
        /\ lock = 0
        /\ mutex = NoThread
        /\ pc = [t \in Threads |-> "idle"]
        /\ call = [t \in Threads |-> "wait"]
        /\ inWAIT = {}
        /\ pending = {}

STATIC_INIT == id = "STATIC" /\ NbWait = COND_SIG_

InitCond ==
    /\ id = "INVALID"
    /\ id' = "LIVE"
    /\ control' = 1 /\ NbWait' = 0 /\ lock' = 0
    /\ UNCHANGED <<mutex, pc, call, inWAIT, pending>>

\* Destroying a condition variable that threads are calling is undefined.  (The
\* dead were only counted in the object that is gone.)
Destroy ==
    /\ id = "LIVE"
    /\ \A t \in Threads : pc[t] \in {"idle"} \cup DeadPCs
    /\ NbWait <= 0
    /\ id' = "INVALID"
    /\ control' = 0 /\ lock' = 0
    /\ pc' = [t \in Threads |-> IF pc[t] \in DeadPCs THEN "dead" ELSE pc[t]]
    /\ UNCHANGED <<NbWait, mutex, call, inWAIT, pending>>

MutexLock(t) == /\ IsAt(t, "idle")
                /\ mutex = NoThread
                /\ mutex' = t
                /\ UNCHANGED <<object, pc, call, inWAIT, pending>>

MutexUnlock(t) == /\ IsAt(t, "idle")
                  /\ mutex = t
                  /\ mutex' = NoThread
                  /\ UNCHANGED <<object, pc, call, inWAIT, pending>>

--------------------------------------------------------------------------------
WaitCall(t, c) ==
    /\ id # "INVALID"
    /\ mutex = t
    /\ Go(t, "idle", IF STATIC_INIT THEN "si_create" ELSE "lock")
    /\ call' = [call EXCEPT ![t] = c]
    /\ UNCHANGED <<object, mutex, inWAIT, pending>>

\* The critical section adds nothing: the caller holds the mutex of all waiters.
InitStaticCreate(t) ==
    /\ Go(t, "si_create", "si_control")
    /\ lock' = 0
    /\ NbWait' = 0
    /\ UNCHANGED <<id, control, mutex, call, inWAIT, pending>>

InitStaticFails(t) ==
    /\ Go(t, "si_create", "idle")
    /\ NoCall(t)
    /\ UNCHANGED <<object, mutex, inWAIT, pending>>

InitStaticControl(t) ==
    /\ Go(t, "si_control", "lock")
    /\ id' = "LIVE"
    /\ control' = 1
    /\ UNCHANGED <<NbWait, lock, mutex, call, inWAIT, pending>>

LockControl(t) ==
    /\ Go(t, "lock", "count")
    /\ Available(control, 1)
    /\ control' = control - 1
    /\ UNCHANGED <<id, NbWait, lock, mutex, call, inWAIT, pending>>

CountWaiter(t) ==
    /\ Go(t, "count", "cb_mutex")
    /\ NbWait' = NbWait + 1
    /\ UNCHANGED <<id, control, lock, mutex, call, inWAIT, pending>>

\* All recursive locks of the caller are released.
CallbackMutex(t) ==
    /\ Go(t, "cb_mutex", "cb_control")
    /\ mutex' = NoThread
    /\ UNCHANGED <<object, call, inWAIT, pending>>

CallbackControl(t) ==
    /\ Go(t, "cb_control", "cb_inwait")
    /\ control' = AfterSignal(control, 1, 1)
    /\ UNCHANGED <<id, NbWait, lock, mutex, call, inWAIT, pending>>

CallbackInWait(t) ==
    /\ Go(t, "cb_inwait", "asleep")
    /\ inWAIT' = inWAIT \cup {t}
    /\ UNCHANGED <<object, mutex, call, pending>>

Wake(t) ==
    /\ Go(t, "asleep", "woken")
    /\ Available(lock, 1)
    /\ lock' = lock - 1
    /\ UNCHANGED <<id, control, NbWait, mutex, call, inWAIT, pending>>

TimeOut(t) ==
    /\ call[t] = "timedwait"
    /\ Go(t, "asleep", "late")
    /\ ~Available(lock, 1)
    /\ UNCHANGED <<object, mutex, call, inWAIT, pending>>

\* The control of the thread is held around this, as it is by pthread_cancel.
LeaveWAIT(t) ==
    /\ \/ Go(t, "woken", "relock")
       \/ Go(t, "late", "late_count")
    /\ inWAIT' = inWAIT \ {t}
    /\ UNCHANGED <<object, mutex, call, pending>>

CountLate(t) ==
    /\ Go(t, "late_count", "relock")
    /\ Available(control, 1)
    /\ NbWait' = NbWait - 1
    /\ UNCHANGED <<id, control, lock, mutex, call, inWAIT, pending>>

Relock(t) ==
    /\ Go(t, "relock", "idle")
    /\ mutex = NoThread
    /\ mutex' = t
    /\ NoCall(t)
    /\ UNCHANGED <<object, inWAIT, pending>>

--------------------------------------------------------------------------------
SignalCall(t, c) ==
    /\ id # "INVALID" /\ ~STATIC_INIT /\ NbWait # 0
    /\ Go(t, "idle", "s_lock")
    /\ call' = [call EXCEPT ![t] = c]
    /\ UNCHANGED <<object, mutex, inWAIT, pending>>

SignalLock(t) ==
    /\ Go(t, "s_lock", "s_post")
    /\ Available(control, 1)
    /\ control' = control - 1
    /\ UNCHANGED <<id, NbWait, lock, mutex, call, inWAIT, pending>>

\* Faults: nothing is signalled; a broadcast signals one waiter.
PostsNone(t) == 0
PostsOne(t) == 1

Posts(t) == IF call[t] = "signal" THEN 1 ELSE NbWait

SignalPost(t) ==
    /\ NbWait > 0
    /\ Go(t, "s_post", "s_count")
    /\ lock' = lock + Posts(t)
    /\ UNCHANGED <<id, control, NbWait, mutex, call, inWAIT, pending>>

SignalNobody(t) ==
    /\ NbWait <= 0
    /\ Go(t, "s_post", "s_unlock")
    /\ UNCHANGED <<object, mutex, call, inWAIT, pending>>

\* Faults: the waiter is not taken off the count; all are taken off by a signal.
SignalCountNothing(t) ==
    /\ Go(t, "s_count", "s_unlock")
    /\ UNCHANGED <<object, mutex, call, inWAIT, pending>>

SignalCountAll(t) ==
    /\ Go(t, "s_count", "s_unlock")
    /\ NbWait' = 0
    /\ UNCHANGED <<id, control, lock, mutex, call, inWAIT, pending>>

SignalCount(t) ==
    /\ Go(t, "s_count", "s_unlock")
    /\ NbWait' = IF call[t] = "signal" THEN NbWait - 1 ELSE 0
    /\ UNCHANGED <<id, control, lock, mutex, call, inWAIT, pending>>

\* Fault: the control stays locked.
SignalUnlockNothing(t) ==
    /\ Go(t, "s_unlock", "idle")
    /\ UNCHANGED <<object, mutex, call, inWAIT, pending>>

SignalUnlock(t) ==
    /\ Go(t, "s_unlock", "idle")
    /\ control' = AfterSignal(control, 1, 1)
    /\ NoCall(t)
    /\ UNCHANGED <<id, NbWait, lock, mutex, inWAIT, pending>>

\* Another thread calls pthread_cancel(t).  The request is left pending, but a thread
\* in WAIT is deleted: no handler of its cleanup stack runs, nothing is undone.
Cancel(t) ==
    /\ t \in Cancellable
    /\ pc[t] \notin DeadPCs
    /\ t \notin pending
    /\ pending' = pending \cup {t}
    /\ pc' = IF t \notin inWAIT THEN pc
             ELSE [pc EXCEPT ![t] = IF @ = "woken" THEN "dead" ELSE "dead_counted"]
    /\ UNCHANGED <<object, mutex, call, inWAIT>>

--------------------------------------------------------------------------------
Initialising(t) == InitStaticCreate(t) \/ InitStaticFails(t) \/ InitStaticControl(t)

Waiting(t) == \/ CountWaiter(t) \/ CallbackMutex(t) \/ CallbackControl(t)
              \/ CallbackInWait(t) \/ LeaveWAIT(t)

Signalling(t) ==
    SignalPost(t) \/ SignalNobody(t) \/ SignalCount(t) \/ SignalUnlock(t)

Next == \/ InitCond \/ Destroy
        \/ \E t \in Threads :
              \/ MutexLock(t) \/ MutexUnlock(t)
              \/ \E c \in WaitCalls : WaitCall(t, c)
              \/ \E c \in SignalCalls : SignalCall(t, c)
              \/ Initialising(t) \/ LockControl(t) \/ Waiting(t)
              \/ Wake(t) \/ TimeOut(t) \/ CountLate(t) \/ Relock(t)
              \/ SignalLock(t) \/ Signalling(t)
              \/ Cancel(t)

Spec == Init /\ [][Next]_vars

\* Each thread is at one of these at a time, so one fairness condition does for all.
Granted(t) == \/ LockControl(t) \/ SignalLock(t) \/ CountLate(t) \/ Relock(t) \/ Wake(t)

\* Threads run, timeouts expire, and no queue passes a waiter over for ever.
FairSpec == /\ Spec
            /\ \A t \in Threads :
                  /\ WF_vars(Initialising(t) \/ Waiting(t) \/ Signalling(t) \/ TimeOut(t))
                  /\ SF_vars(Granted(t))

--------------------------------------------------------------------------------
Types == /\ id \in {"STATIC", "INVALID", "LIVE"}
         /\ control \in {0, 1}
         /\ NbWait \in Int
         /\ lock \in Nat
         /\ mutex \in Threads \cup {NoThread}
         /\ pc \in [Threads -> PCs]
         /\ call \in [Threads -> WaitCalls \cup SignalCalls]
         /\ inWAIT \subseteq Threads
         /\ pending \subseteq Threads

TypeOK == Types /\ (NbWait <= Cardinality(Threads) \/ STATIC_INIT)

InControl(t) == pc[t] \in {"count", "cb_mutex", "cb_control", "s_post", "s_count", "s_unlock"}

\* Waiters that nobody has woken yet.
Sleepers == {t \in Threads : pc[t] \in CallbackPCs \cup {"asleep"}}

\* No wake-up is lost: every sleeper is either still counted, so that a signal goes
\* to it, or has a unit in the semaphore.  With the mutex this is the atomicity of
\* pthread_cond.c:151-157 (whoever gets the mutex after it was released signals "as
\* if it were issued after the about-to-block thread has blocked").
NoLostWakeup == id = "LIVE" => NbWait + lock >= Cardinality(Sleepers)

\* When a broadcast is about to return, there is a unit for each sleeper.
BroadcastWakesAll ==
    \A t \in Threads : pc[t] = "s_unlock" /\ call[t] = "broadcast" =>
        lock >= Cardinality(Sleepers)

\* Between calls nothing is left over: what NbWait says and the units in the
\* semaphore cancel out, except for the waiters that were cancelled while counted.
\* (A signal that went to a waiter that had just timed out leaves its unit, and
\* NbWait is one too low to make up for it.)
NothingLeft ==
    id = "LIVE" /\ (\A t \in Threads : pc[t] \in {"idle"} \cup DeadPCs) =>
        NbWait + lock = Cardinality({t \in Threads : pc[t] = "dead_counted"})

\* A thread that is back from its call, or cancelled in it.
Over(t) == pc[t] \in {"idle"} \cup DeadPCs

\* When the mutex keeps becoming free, every signal and every timed wait returns.
CallsReturn ==
    []<>(mutex = NoThread) =>
        \A t \in Threads :
            pc[t] # "idle" /\ call[t] # "wait" ~> Over(t) \/ call[t] = "wait"

\* And when broadcasts keep coming, so does every wait.
WaitsReturn ==
    /\ []<>(mutex = NoThread)
    /\ []<>(\E t \in Threads : pc[t] = "s_unlock" /\ call[t] = "broadcast")
    => \A t \in Threads : pc[t] # "idle" ~> Over(t)
================================================================================
