-------------------------------- MODULE InitOnce --------------------------------
(***************************************************************************)
(* Initialisation of the library: pthread_init_ (src/src/pthread.c), run   *)
(* by every PTHREAD_INIT() under the EXECUTE_ONCE macros of                *)
(* src/pthread/include/pthread_impl.h, and the critical section of the     *)
(* whole library, which it switches on while it runs.                      *)
(*                                                                         *)
(* A call is guarded when it runs PTHREAD_INIT() before it enters the      *)
(* critical section (every init_static, barrier_init), plain when it only  *)
(* enters it (mutex_init, cond_init, rwlock_init and the destroys).        *)
(***************************************************************************)
EXTENDS Naturals, Callers

CONSTANTS
    NoThread,
    Kinds          \* the calls that are made: a subset of {"guarded", "plain"}

ASSUME NoThreadAssumption == NoThread \notin Threads
ASSUME KindsAssumption == Kinds \subseteq {"guarded", "plain"}

VARIABLES
    init_control,   \* control of the macros, 0: not done, 1: in progress, 2: done
    runs,           \* executions of the body begun
    complete,       \* whether one has reached its end
    enter,          \* pthread_enter_critical: "dummy" or "real"
    leave,          \* pthread_leave_critical
    global,         \* owner of _PTGLOBAL_
    kind,
    s               \* the values that ATOMIC_LW_SW has in t2 and returns to s

library == <<init_control, runs, complete, enter, leave, global, pc, kind, s>>

BodyPCs == {"mutexes", "set_enter", "set_leave", "end"}
SectionPCs == {"enter", "inside"}
PCs == {"idle", "test", "load", "swap", "restore", "spin"} \cup BodyPCs \cup SectionPCs

LibraryInit == /\ init_control = 0
               /\ runs = 0 /\ complete = FALSE
               /\ enter = "dummy" /\ leave = "dummy"
               /\ global = NoThread
               /\ pc = [t \in Threads |-> "idle"]
               /\ kind = [t \in Threads |-> "guarded"]
               /\ s = [t \in Threads |-> 0]

Call(t, k) ==
    /\ Go(t, "idle", IF k = "guarded" THEN "test" ELSE "enter")
    /\ kind' = [kind EXCEPT ![t] = k]
    /\ UNCHANGED <<init_control, runs, complete, enter, leave, global, s>>

\* Fault: a thread takes an execution in progress for done.
TestStarted(t) ==
    /\ Go(t, "test", IF init_control # 0 THEN "enter" ELSE "load")
    /\ UNCHANGED <<init_control, runs, complete, enter, leave, global, kind, s>>

Test(t) ==
    /\ Go(t, "test", IF init_control = 2 THEN "enter" ELSE "load")
    /\ UNCHANGED <<init_control, runs, complete, enter, leave, global, kind, s>>

Load(t) ==
    /\ Go(t, "load", "swap")
    /\ s' = [s EXCEPT ![t] = init_control]
    /\ UNCHANGED <<init_control, runs, complete, enter, leave, global, kind>>

\* The compare-and-swap fails and the loop tries again with what it found.
SwapFails(t) ==
    /\ IsAt(t, "swap") /\ init_control # s[t]
    /\ s' = [s EXCEPT ![t] = init_control]
    /\ UNCHANGED <<init_control, runs, complete, enter, leave, global, pc, kind>>

\* Fault: the swap is a load and a store.
SwapNotAtomic(t) ==
    /\ init_control' = 1
    /\ \/ s[t] = 0 /\ Go(t, "swap", "mutexes") /\ runs' = runs + 1
       \/ s[t] = 1 /\ Go(t, "swap", "spin") /\ runs' = runs
       \/ s[t] = 2 /\ Go(t, "swap", "restore") /\ runs' = runs
    /\ UNCHANGED <<complete, enter, leave, global, kind, s>>

\* A thread that finds 1 never gets on: "while (s != 2)" tests a local variable that
\* the loop does not read again, and no action leaves "spin".
Swap(t) ==
    /\ init_control = s[t]
    /\ init_control' = 1
    /\ \/ s[t] = 0 /\ Go(t, "swap", "mutexes") /\ runs' = runs + 1
       \/ s[t] = 1 /\ Go(t, "swap", "spin") /\ runs' = runs
       \/ s[t] = 2 /\ Go(t, "swap", "restore") /\ runs' = runs
    /\ UNCHANGED <<complete, enter, leave, global, kind, s>>

\* The swap found 2 and overwrote it: 2 is written back.
Restore(t) ==
    /\ Go(t, "restore", "enter")
    /\ init_control' = 2
    /\ UNCHANGED <<runs, complete, enter, leave, global, kind, s>>

\* _PTGLOBAL_, TRACE_MUTEX and UserMainThread, with the dummy critical section.
InitMutexes(t) ==
    /\ Go(t, "mutexes", "set_enter")
    /\ global' = NoThread
    /\ UNCHANGED <<init_control, runs, complete, enter, leave, kind, s>>

\* Fault: the critical section stays a dummy.
SetEnterNothing(t) ==
    /\ Go(t, "set_enter", "set_leave")
    /\ UNCHANGED <<init_control, runs, complete, enter, leave, global, kind, s>>

SetEnter(t) ==
    /\ Go(t, "set_enter", "set_leave")
    /\ enter' = "real"
    /\ UNCHANGED <<init_control, runs, complete, leave, global, kind, s>>

SetLeave(t) ==
    /\ Go(t, "set_leave", "end")
    /\ leave' = "real"
    /\ UNCHANGED <<init_control, runs, complete, enter, global, kind, s>>

\* Fault: the execution is not marked as done.
EndUnmarked(t) ==
    /\ Go(t, "end", "enter")
    /\ complete' = TRUE
    /\ UNCHANGED <<init_control, runs, enter, leave, global, kind, s>>

End(t) ==
    /\ Go(t, "end", "enter")
    /\ init_control' = 2
    /\ complete' = TRUE
    /\ UNCHANGED <<runs, enter, leave, global, kind, s>>

EnterCritical(t) ==
    /\ Go(t, "enter", "inside")
    /\ IF enter = "real"
       THEN global = NoThread /\ global' = t
       ELSE global' = global
    /\ UNCHANGED <<init_control, runs, complete, enter, leave, kind, s>>

\* Unlocking _PTGLOBAL_ is refused to a thread that does not own it.
LeaveCritical(t) ==
    /\ Go(t, "inside", "idle")
    /\ global' = IF leave = "real" /\ global = t THEN NoThread ELSE global
    /\ UNCHANGED <<init_control, runs, complete, enter, leave, kind, s>>

Once(t) == \/ Test(t) \/ Load(t) \/ SwapFails(t) \/ Swap(t) \/ Restore(t)
           \/ InitMutexes(t) \/ SetEnter(t) \/ SetLeave(t) \/ End(t)

LibraryNext == \E t \in Threads :
            \/ \E k \in Kinds : Call(t, k)
            \/ Once(t) \/ EnterCritical(t) \/ LeaveCritical(t)

LibrarySpec == LibraryInit /\ [][LibraryNext]_library

\* Threads run, and _PTGLOBAL_ is given to its waiters in the order they came.
LibraryFairSpec == /\ LibrarySpec
                   /\ \A t \in Threads : /\ WF_library(Once(t))
                                         /\ WF_library(LeaveCritical(t))
                                         /\ SF_library(EnterCritical(t))

--------------------------------------------------------------------------------
TypeOK == /\ init_control \in 0..2
          /\ runs \in Nat
          /\ complete \in BOOLEAN
          /\ enter \in {"dummy", "real"} /\ leave \in {"dummy", "real"}
          /\ global \in Threads \cup {NoThread}
          /\ pc \in [Threads -> PCs]
          /\ kind \in [Threads -> {"guarded", "plain"}]
          /\ s \in [Threads -> 0..2]

\* The body is executed at most once, however the calls interleave.
RunsOnce == runs <= 1

\* No guarded call gets past PTHREAD_INIT() before the body has been executed to its
\* end (pthread_impl.h:345, the loop is there "to wait until the execution is done").
CompleteOnReturn ==
    \A t \in Threads : kind[t] = "guarded" /\ pc[t] \in SectionPCs => complete

\* Guarded calls exclude each other in the critical section: static objects are
\* initialised by one thread, the first ones too.
GuardedExclusion ==
    \A t, u \in Threads :
        /\ kind[t] = "guarded" /\ pc[t] = "inside"
        /\ kind[u] = "guarded" /\ pc[u] = "inside"
        => t = u

\* Until the library is initialised one thread at a time calls it, as when main makes
\* its first call before it creates threads.
SingleStart ==
    complete \/ \A t, u \in Threads : pc[t] # "idle" /\ pc[u] # "idle" => t = u

\* Every call returns, concurrent first calls too (pthread_impl.h:345-346, a busy loop
\* waits "until the execution is done", and not longer).
EveryCallReturns == AllReturn

\* After a single-threaded start every call returns: the critical section that was
\* switched on in the middle of a call is left as it was entered (pthread.c:17-21,
\* "othewise we could have a deadlock situation").
CallsReturn == []SingleStart => EveryCallReturns
================================================================================
