--------------------------------- MODULE Mutex ---------------------------------
(***************************************************************************)
(* One pthread_mutex_t (src/src/pthread_mutex.c) with the PRIO_NONE        *)
(* protocol, used by a set of threads: init, destroy, the static           *)
(* initialisers, lock, timedlock, trylock and unlock, one action per       *)
(* access to shared state.                                                 *)
(*                                                                         *)
(* A call the code refuses without touching anything (EINVAL on an invalid *)
(* object, EPERM from unlock, ENOMEM from init) is a stuttering step.      *)
(***************************************************************************)
EXTENDS Naturals, KernelSema, Callers

CONSTANTS
    NULL,          \* no thread
    MUTEX_SIG_,    \* the signature a static initialiser leaves in owner
    Types,         \* the mutex types pthread_mutex_init is given
    StaticTypes,   \* the types of the static initialisers used
    MaxDepth       \* bound: locks a thread takes without unlocking

MutexTypes == {"NORMAL", "ERRORCHECK", "RECURSIVE"}

ASSUME SentinelAssumption == /\ NULL \notin Threads
                             /\ MUTEX_SIG_ \notin Threads
                             /\ MUTEX_SIG_ # NULL
ASSUME TypesAssumption == Types \subseteq MutexTypes /\ StaticTypes \subseteq Types
ASSUME DepthAssumption == MaxDepth \in Nat \ {0}

VARIABLES
    static,          \* whether the object was declared with a static initialiser
    id,              \* STATIC_INIT_ID_, INVALID_ID_ or a live semaphore
    owner,
    recursivecount,
    type,
    sema,            \* count of the kernel semaphore (created with 1, 1)
    critical,        \* the thread between ENTER_CRITICAL and LEAVE_CRITICAL
    call,            \* the call each thread is in
    held             \* locks minus unlocks each thread has completed

vars == <<static, id, owner, recursivecount, type, sema, critical, pc, call, held>>
object == <<static, id, owner, recursivecount, type, sema>>

PCs == {"idle", "si_enter", "si_test", "si_count", "si_owner", "check", "wait",
        "own", "u_signal", "u_protocol"}
LockCalls == {"lock", "timedlock", "trylock"}

\* Which call it was no longer matters: canonical, to keep the states few.
NoCall(t) == call' = [call EXCEPT ![t] = "lock"]

Nobody == \A t \in Threads : held[t] = 0

Init == /\ static \in BOOLEAN
        /\ id = IF static THEN "STATIC" ELSE "INVALID"
        /\ owner = IF static THEN MUTEX_SIG_ ELSE NULL
        /\ recursivecount = 0
        /\ type \in IF static THEN StaticTypes ELSE Types
        /\ sema = 0
        /\ critical = NULL
        /\ pc = [t \in Threads |-> "idle"]
        /\ call = [t \in Threads |-> "lock"]
        /\ held = [t \in Threads |-> 0]

--------------------------------------------------------------------------------
(* pthread_mutex_init and pthread_mutex_destroy.  Using the object while   *)
(* either runs is undefined, so each is one step; a thread still on its    *)
(* way out of unlock has already made the mutex free, and may be passed.   *)

STATIC_INIT == id = "STATIC" /\ owner = MUTEX_SIG_

InitMutex(t) ==
    /\ IsAt(t, "idle") /\ critical = NULL
    /\ id = "INVALID"
    /\ id' = "LIVE"
    /\ type' \in Types
    /\ recursivecount' = 0
    /\ owner' = NULL
    /\ sema' = 1
    /\ UNCHANGED <<static, critical, pc, call, held>>

Unlocked == Nobody /\ \A t \in Threads : pc[t] \in {"idle", "u_protocol"}

Destroy(t) ==
    /\ IsAt(t, "idle") /\ critical = NULL
    /\ id # "INVALID"
    /\ Unlocked
    /\ id' = "INVALID"
    /\ sema' = 0
    /\ UNCHANGED <<static, owner, recursivecount, type, critical, pc, call, held>>

--------------------------------------------------------------------------------
(* lock, timedlock, trylock. *)

\* Relocking a NORMAL mutex one holds is a deadlock by definition: no caller does.
CallerMayLock(t, op) == /\ held[t] < MaxDepth
                        /\ op = "lock" /\ type = "NORMAL" => held[t] = 0

LockCall(t, op) ==
    /\ id # "INVALID"
    /\ CallerMayLock(t, op)
    /\ Go(t, "idle", IF STATIC_INIT THEN "si_enter" ELSE "check")
    /\ call' = [call EXCEPT ![t] = op]
    /\ UNCHANGED <<object, critical, held>>

EnterCritical(t) ==
    /\ Go(t, "si_enter", "si_test")
    /\ critical = NULL
    /\ critical' = t
    /\ UNCHANGED <<object, call, held>>

\* init_static: the second test, then pthread_mutex_init up to "id = res".
InitStaticCreate(t) ==
    /\ STATIC_INIT
    /\ Go(t, "si_test", "si_count")
    /\ id' = "LIVE"
    /\ sema' = 1
    /\ UNCHANGED <<static, owner, recursivecount, type, critical, call, held>>

InitStaticFails(t) ==
    /\ STATIC_INIT
    /\ Go(t, "si_test", "idle")
    /\ critical' = NULL
    /\ NoCall(t)
    /\ UNCHANGED <<object, held>>

InitStaticDone(t) ==
    /\ ~STATIC_INIT
    /\ Go(t, "si_test", "check")
    /\ critical' = NULL
    /\ UNCHANGED <<object, call, held>>

InitStaticCount(t) ==
    /\ Go(t, "si_count", "si_owner")
    /\ recursivecount' = 0
    /\ UNCHANGED <<static, id, owner, type, sema, critical, call, held>>

InitStaticOwner(t) ==
    /\ Go(t, "si_owner", "check")
    /\ owner' = NULL
    /\ critical' = NULL
    /\ UNCHANGED <<static, id, recursivecount, type, sema, call, held>>

\* Fault: the type is not looked at.
RelocksAnyType(t) == owner = t

Relocks(t) == type = "RECURSIVE" /\ owner = t

\* trylock has no EDEADLK test.
RefusesRelock(t) == type = "ERRORCHECK" /\ owner = t /\ call[t] # "trylock"

CheckRelock(t) ==
    /\ Relocks(t)
    /\ Go(t, "check", "idle")
    /\ recursivecount' = recursivecount + 1
    /\ held' = [held EXCEPT ![t] = @ + 1]
    /\ NoCall(t)
    /\ UNCHANGED <<static, id, owner, type, sema, critical>>

CheckDeadlock(t) ==
    /\ RefusesRelock(t)
    /\ Go(t, "check", "idle")
    /\ NoCall(t)
    /\ UNCHANGED <<object, critical, held>>

CheckOther(t) ==
    /\ ~Relocks(t) /\ ~RefusesRelock(t)
    /\ Go(t, "check", "wait")
    /\ UNCHANGED <<object, critical, call, held>>

\* sceKernelWaitSema or sceKernelPollSema returns SCE_OK.
Grant(t) ==
    /\ Go(t, "wait", "own")
    /\ Available(sema, 1)
    /\ sema' = sema - 1
    /\ held' = [held EXCEPT ![t] = @ + 1]
    /\ NoCall(t)
    /\ UNCHANGED <<static, id, owner, recursivecount, type, critical>>

\* WAIT_TIMEOUT for timedlock, SEMA_ZERO for trylock.
GiveUp(t) ==
    /\ \/ call[t] = "timedlock"
       \/ call[t] = "trylock" /\ ~Available(sema, 1)
    /\ Go(t, "wait", "idle")
    /\ NoCall(t)
    /\ UNCHANGED <<object, critical, held>>

SetOwner(t) ==
    /\ Go(t, "own", "idle")
    /\ owner' = t
    /\ UNCHANGED <<static, id, recursivecount, type, sema, critical, call, held>>

--------------------------------------------------------------------------------
(* unlock. *)

\* Unlocking a NORMAL mutex one does not hold is undefined: no caller does.
CallerMayUnlock(t) == type = "NORMAL" => held[t] > 0

Nested == recursivecount > 0

UnlockNested(t) ==
    /\ IsAt(t, "idle") /\ id # "INVALID"
    /\ Relocks(t)
    /\ Nested
    /\ recursivecount' = recursivecount - 1
    /\ held' = [held EXCEPT ![t] = @ - 1]
    /\ UNCHANGED <<static, id, owner, type, sema, critical, pc, call>>

\* Faults: unlock lets any caller release, or releases at the first unlock.
MayReleaseAnyCaller(t) == /\ type = "RECURSIVE" => owner = t /\ ~Nested
                          /\ owner # NULL
MayReleaseAtOnce(t) == owner = t

\* The tests before the label "unlock" and the one after it.
MayRelease(t) ==
    /\ type = "RECURSIVE" => owner = t /\ ~Nested
    /\ type = "ERRORCHECK" => owner = t
    /\ owner # NULL

UnlockClear(t) ==
    /\ id # "INVALID"
    /\ CallerMayUnlock(t)
    /\ MayRelease(t)
    /\ Go(t, "idle", "u_signal")
    /\ owner' = NULL
    /\ UNCHANGED <<static, id, recursivecount, type, sema, critical, call, held>>

\* Fault: the semaphore is not signalled.
UnlockNoSignal(t) ==
    /\ Go(t, "u_signal", "u_protocol")
    /\ held' = [held EXCEPT ![t] = @ - 1]
    /\ UNCHANGED <<object, critical, call>>

UnlockSignal(t) ==
    /\ Go(t, "u_signal", "u_protocol")
    /\ sema' = AfterSignal(sema, 1, 1)
    /\ held' = [held EXCEPT ![t] = @ - 1]
    /\ UNCHANGED <<static, id, owner, recursivecount, type, critical, call>>

\* "if (mutex->protocol == ...)": unlock still reads the object here.
UnlockProtocol(t) ==
    /\ Go(t, "u_protocol", "idle")
    /\ UNCHANGED <<object, critical, call, held>>

--------------------------------------------------------------------------------
Running(t) == \/ InitStaticCreate(t) \/ InitStaticFails(t) \/ InitStaticDone(t)
              \/ InitStaticCount(t) \/ InitStaticOwner(t)
              \/ CheckRelock(t) \/ CheckDeadlock(t) \/ CheckOther(t)
              \/ SetOwner(t) \/ UnlockSignal(t) \/ UnlockProtocol(t)

Next == \E t \in Threads :
           \/ InitMutex(t) \/ Destroy(t)
           \/ \E op \in LockCalls : LockCall(t, op)
           \/ UnlockNested(t) \/ UnlockClear(t)
           \/ EnterCritical(t) \/ Grant(t) \/ GiveUp(t)
           \/ Running(t)

Spec == Init /\ [][Next]_vars

\* A running thread is scheduled, a timeout expires, and the FIFO queue of the
\* semaphore lets no waiter be passed over for ever.
Fairness == \A t \in Threads : /\ WF_vars(Running(t))
                               /\ WF_vars(Grant(t) \/ GiveUp(t))
                               /\ SF_vars(Grant(t))
                               /\ SF_vars(EnterCritical(t))

FairSpec == Spec /\ Fairness

--------------------------------------------------------------------------------
TypeOK == /\ static \in BOOLEAN
          /\ id \in {"STATIC", "INVALID", "LIVE"}
          /\ owner \in Threads \cup {NULL, MUTEX_SIG_}
          /\ recursivecount \in Nat
          /\ type \in Types
          /\ sema \in {0, 1}
          /\ critical \in Threads \cup {NULL}
          /\ pc \in [Threads -> PCs]
          /\ call \in [Threads -> LockCalls]
          /\ held \in [Threads -> Nat]

\* A lock that returned leaves the caller as the owner, and the caller stays the
\* owner until its own last unlock (pthread_mutex.c:135-137, "in the locked
\* state with the calling thread as its owner").
CallingThreadOwns ==
    \A t \in Threads : held[t] > 0 /\ pc[t] = "idle" => owner = t

\* So it is for every mutex that pthread_mutex_init, and not the first lock of a
\* static object, initialises.
OwnedOnReturn == ~static => CallingThreadOwns

\* The recursive count and the semaphore agree with the locks really taken: the
\* holder has recursivecount + 1 of them, and the semaphore is free exactly when
\* nobody has any.
Bookkeeping ==
    /\ \A t \in Threads : held[t] > 0 => held[t] = recursivecount + 1
    /\ id = "LIVE" => (sema = 1 <=> Nobody)

\* The detailed mutex implements the abstract one.
Abstract == INSTANCE LockSpec
ImplementsLock == Abstract!Spec

\* If every thread keeps letting go of the mutex, every call returns.
CallsReturn ==
    (\A t \in Threads : []<>(held[t] = 0)) => AllReturn
================================================================================
