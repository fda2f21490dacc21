---------------------------------- MODULE Once ----------------------------------
(***************************************************************************)
(* pthread_once (src/src/pthread_once.c) on one pthread_once_t, composed   *)
(* with its mutex in_progress: the steps of pthread_mutex_lock and unlock  *)
(* are those of Mutex, static initialisation included, and interleave with *)
(* those of the other threads in pthread_once.                             *)
(*                                                                         *)
(* The kernel is taken to have a semaphore left for in_progress:           *)
(* pthread_once does not look at the result of pthread_mutex_lock.         *)
(***************************************************************************)
EXTENDS Mutex

VARIABLES
    done,
    stage,     \* where each thread is in pthread_once
    inits      \* times that init has been run to its end

onceVars == <<vars, done, stage, inits>>

\* "cleanup" and "ending": unlock in the handler of a cancelled thread.
\* "killed": ended in init without a handler having run.
Stages == {"idle", "call", "locking", "init", "ran", "unlock", "unlocking", "returned",
           "cleanup", "ending", "cancelled", "killed"}

Step(t, from, to) == /\ stage[t] = from
                     /\ stage' = [stage EXCEPT ![t] = to]

\* PTHREAD_ONCE_INIT.
OnceInit == /\ Init /\ static /\ type = "NORMAL"
            /\ done = FALSE
            /\ stage = [t \in Threads |-> "idle"]
            /\ inits = 0

--------------------------------------------------------------------------------
\* "if (once_control->done) return 0": without the mutex.
TestDone(t) ==
    /\ stage[t] \in {"idle", "returned"}
    /\ stage' = [stage EXCEPT ![t] = IF done THEN "returned" ELSE "call"]
    /\ UNCHANGED <<vars, done, inits>>

Lock(t) ==
    /\ Step(t, "call", "locking")
    /\ LockCall(t, "lock")
    /\ UNCHANGED <<done, inits>>

\* Steps of pthread_mutex_lock, and of pthread_mutex_unlock but for the last one.
InMutex(t) ==
    /\ \/ EnterCritical(t) \/ InitStaticCreate(t) \/ InitStaticDone(t)
       \/ InitStaticCount(t) \/ InitStaticOwner(t)
       \/ CheckOther(t) \/ Grant(t) \/ SetOwner(t)
       \/ UnlockSignal(t)
    /\ UNCHANGED <<done, stage, inits>>

\* Fault: done is not tested again.
TestAgainNot(t) ==
    /\ pc[t] = "idle"
    /\ Step(t, "locking", "init")
    /\ UNCHANGED <<vars, done, inits>>

TestAgain(t) ==
    /\ pc[t] = "idle"
    /\ Step(t, "locking", IF done THEN "unlock" ELSE "init")
    /\ UNCHANGED <<vars, done, inits>>

RunInit(t) ==
    /\ Step(t, "init", "ran")
    /\ inits' = inits + 1
    /\ UNCHANGED <<vars, done>>

\* Fault: what the comment in cleanup warns of.
CancelSetsDone(t) ==
    /\ Step(t, "init", "cleanup")
    /\ done' = TRUE
    /\ UNCHANGED <<vars, inits>>

\* The thread acts upon a cancellation in init: pthread_testcancel runs the handlers.
Cancel(t) ==
    /\ Step(t, "init", "cleanup")
    /\ UNCHANGED <<vars, done, inits>>

\* init calls pthread_exit, or the thread is cancelled asynchronously: the thread is
\* gone, and no handler runs (pthread.c:663-678, 584-617).
Kill(t) ==
    /\ Step(t, "init", "killed")
    /\ UNCHANGED <<vars, done, inits>>

SetDone(t) ==
    /\ Step(t, "ran", "unlock")
    /\ done' = TRUE
    /\ UNCHANGED <<vars, inits>>

\* Fault: the handler does nothing.
CleanupNothing(t) ==
    /\ Step(t, "cleanup", "cancelled")
    /\ UNCHANGED <<vars, done, inits>>

\* The handler: pthread_mutex_unlock.
Cleanup(t) ==
    /\ Step(t, "cleanup", "ending")
    /\ UnlockClear(t)
    /\ UNCHANGED <<done, inits>>

Unlock(t) ==
    /\ Step(t, "unlock", "unlocking")
    /\ UnlockClear(t)
    /\ UNCHANGED <<done, inits>>

\* EPERM, which neither cleanup nor pthread_once looks at.
UnlockRefused(t) ==
    /\ ~MayRelease(t)
    /\ Step(t, "unlock", "returned") \/ Step(t, "cleanup", "cancelled")
    /\ UNCHANGED <<vars, done, inits>>

UnlockReturns(t) ==
    /\ Step(t, "unlocking", "returned") \/ Step(t, "ending", "cancelled")
    /\ UnlockProtocol(t)
    /\ UNCHANGED <<done, inits>>

--------------------------------------------------------------------------------
OnceRunning(t) == \/ Lock(t)
                  \/ InMutex(t) \/ TestAgain(t) \/ RunInit(t) \/ Cancel(t) \/ Kill(t)
                  \/ SetDone(t) \/ Cleanup(t) \/ Unlock(t) \/ UnlockRefused(t)
                  \/ UnlockReturns(t)

OnceNext == \E t \in Threads : TestDone(t) \/ OnceRunning(t)

OnceSpec == OnceInit /\ [][OnceNext]_onceVars

\* Threads in a call run, init ends in one way or another, and the queues of the mutex
\* and of the critical section pass nobody over for ever.
OnceFairSpec == OnceSpec /\ \A t \in Threads : SF_onceVars(OnceRunning(t))

--------------------------------------------------------------------------------
OnceTypeOK == /\ done \in BOOLEAN
              /\ stage \in [Threads -> Stages]
              /\ inits \in Nat

\* The routine runs to its end at most once (pthread_once.c:15-20, "executes the
\* routine init routine exactly once in a process"), whoever comes while it runs, or
\* after an earlier attempt was cancelled.
RunsOnce == inits <= 1

\* Nobody returns from pthread_once before init has been completed, by whichever of
\* the threads that were cancelled and replaced in it.
CompleteOnReturn == \A t \in Threads : stage[t] = "returned" => inits = 1

Over(t) == stage[t] \in {"returned", "cancelled", "killed"}

\* Every call returns, unless a thread was taken out of init without its handlers.
EveryCallReturns ==
    [](\A t \in Threads : stage[t] # "killed")
        => \A t \in Threads : stage[t] = "call" ~> Over(t)

\* So it is when nobody loses the mutex's ownership to its static initialisation, also
\* when threads are cancelled in init: their handlers let the next one in.
OnceCallsReturn == []CallingThreadOwns => EveryCallReturns
================================================================================
