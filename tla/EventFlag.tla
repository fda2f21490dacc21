------------------------------- MODULE EventFlag -------------------------------
(***************************************************************************)
(* One pthread_eventflag_t (src/src/pthread_eventflag_np.c): init, destroy, *)
(* set, wait, try and timedwait, and the delays of pthread_np.c, by threads  *)
(* that may call anything at any time.  The kernel's event flag is external: *)
(* a set of events, and threads that wait for some of them.                  *)
(***************************************************************************)
EXTENDS Time, Callers

CONSTANTS
    Events,
    Requests,   \* the waits that are made: [pattern, mode, clear]
    Ahead,      \* deadlines, as microseconds from now (they may have passed)
    Seconds,    \* deadlines, as seconds from a call of pthread_getsystemtime_np
    Old,        \* how many microseconds ago that call was made
    Start,      \* the time from which the flag is looked at
    MaxTime     \* bound: the time at which no more timed calls are made

NONE == -1
PCs == {"idle", "init", "destroy", "create", "delete", "invalidate", "leave",
        "pend", "wait", "deleted", "delay"}
NoPromise == [from |-> NONE, to |-> NONE]

ASSUME RequestAssumption ==
    /\ Requests # {}
    /\ Requests \subseteq [pattern : SUBSET Events \ {{}}, mode : {"AND", "OR"},
                           clear : {"NONE", "ALL", "PAT"}]
\* A deadline is less than half of the word away, counting the second by which
\* the clock may seem late.
ASSUME DeadlineAssumption ==
    /\ 2 * SEC <= WORD \div 2
    /\ Ahead \subseteq -(WORD \div 2)..(WORD \div 2 - SEC)
    /\ \A k \in Seconds : k \in Nat /\ k * SEC <= WORD \div 2 - SEC
    /\ Old \subseteq 0..SEC

ASSUME TimeAssumption == Start \in Nat /\ MaxTime \in Nat /\ Start < MaxTime

VARIABLES
    id,         \* the id field: INVALID_ID_ or the id of the kernel's flag
    flag,       \* whether the kernel has that flag
    events,     \* the events set in it
    critical,   \* whether a thread is between ENTER_CRITICAL and LEAVE_CRITICAL
    now,        \* the process time
    request,
    due,        \* when the kernel ends a timed wait or a delay: NONE if it does not
    promise     \* when that may be, from what the caller asked for

vars == <<id, flag, events, critical, now, pc, request, due, promise>>
calls == <<request, due, promise>>
object == <<id, flag, events, critical, now>>

Idle == CHOOSE r \in Requests : TRUE

Return(t, from) == /\ Go(t, from, "idle")
                   /\ request' = [request EXCEPT ![t] = Idle]
                   /\ due' = [due EXCEPT ![t] = NONE]
                   /\ promise' = [promise EXCEPT ![t] = NoPromise]

Init == /\ id = "INVALID" /\ flag = FALSE /\ events = {}
        /\ critical = FALSE
        /\ now = Start
        /\ pc = [t \in Threads |-> "idle"]
        /\ request = [t \in Threads |-> Idle]
        /\ due = [t \in Threads |-> NONE]
        /\ promise = [t \in Threads |-> NoPromise]

--------------------------------------------------------------------------------
(* init and destroy. *)

\* Initialising a flag that is in use is undefined: no caller does.
InitCall(t) == /\ id = "INVALID" /\ \A u \in Threads : pc[u] \notin {"init", "create"}
               /\ Go(t, "idle", "init")
               /\ UNCHANGED <<object, calls>>

DestroyCall(t) == /\ id # "INVALID"
                  /\ Go(t, "idle", "destroy")
                  /\ UNCHANGED <<object, calls>>

EnterCritical(t) == /\ ~critical
                    /\ critical' = TRUE
                    /\ Go(t, "init", "create") \/ Go(t, "destroy", "delete")
                    /\ UNCHANGED <<id, flag, events, now, calls>>

Create(t) == /\ Go(t, "create", "leave")
             /\ \/ id' = "LIVE" /\ flag' = TRUE /\ events' = {}
                \/ id' = "INVALID" /\ UNCHANGED <<flag, events>>
             /\ UNCHANGED <<critical, now, calls>>

\* sceKernelDeleteEventFlag ends the waits on the flag; the id may have been
\* invalidated by another destroy.
DeletesFlag == id = "LIVE" /\ flag

\* Fault: the id is invalidated before it is used.
DeleteInvalidated(t) ==
    /\ Go(t, "delete", "invalidate")
    /\ id' = "INVALID"
    /\ UNCHANGED <<flag, events, critical, now, calls>>

Delete(t) ==
    /\ IsAt(t, "delete")
    /\ IF DeletesFlag
       THEN /\ flag' = FALSE /\ events' = {}
            /\ pc' = [u \in Threads |-> CASE u = t            -> "invalidate"
                                          [] pc[u] = "wait"   -> "deleted"
                                          [] OTHER            -> pc[u]]
       ELSE Go(t, "delete", "invalidate") /\ UNCHANGED <<flag, events>>
    /\ UNCHANGED <<id, critical, now, calls>>

Invalidate(t) == /\ Go(t, "invalidate", "leave")
                 /\ id' = "INVALID"
                 /\ UNCHANGED <<flag, events, critical, now, calls>>

LeaveCritical(t) == /\ Return(t, "leave")
                    /\ critical' = FALSE
                    /\ UNCHANGED <<id, flag, events, now>>

--------------------------------------------------------------------------------
(* set, try, wait and timedwait. *)

SetEvents(t, pattern) ==
    /\ IsAt(t, "idle")
    /\ id # "INVALID" /\ flag
    /\ events' = events \cup pattern
    /\ UNCHANGED <<id, flag, critical, now, pc, calls>>

Satisfied(r) == IF r.mode = "AND" THEN r.pattern \subseteq events
                ELSE r.pattern \cap events # {}

Cleared(r) == CASE r.clear = "ALL"  -> {}
                [] r.clear = "PAT"  -> events \ r.pattern
                [] OTHER            -> events

\* sceKernelPollEventFlag; try_np returns 0 whether it found the events or not.
Try(t, r) == /\ IsAt(t, "idle")
             /\ id # "INVALID" /\ flag
             /\ Satisfied(r)
             /\ events' = Cleared(r)
             /\ UNCHANGED <<id, flag, critical, now, pc, calls>>

\* The deadlines of a timed call: a true timespec, or one counted in seconds from
\* what pthread_getsystemtime_np returned a moment ago; and how much before the
\* deadline the call may end.
Deadlines ==
    {[at |-> now + d, early |-> 0, abstime |-> Timespec(now + d)] :
        d \in {d \in Ahead : now + d >= 0}} \cup
    {[at |-> now - o + k * SEC, early |-> SEC,
      abstime |-> [getsystemtime(now - o, 0) EXCEPT !.tv_sec = @ + k]] :
        k \in Seconds, o \in {o \in Old : now - o >= 0}}

\* getDeltaTime; what is between it and the kernel call takes no time.
Timed(t, d) ==
    /\ now < MaxTime
    /\ \E lost \in 0..1 :
          due' = [due EXCEPT ![t] = now + getDeltaTime(d.abstime, now, lost)]
    /\ promise' = [promise EXCEPT ![t] =
                      [from |-> d.at - d.early,
                       to   |-> (IF d.at < now THEN now ELSE d.at) + SEC]]

WaitCall(t, r) == /\ id # "INVALID"
                  /\ Go(t, "idle", "pend")
                  /\ request' = [request EXCEPT ![t] = r]
                  /\ UNCHANGED <<object, due, promise>>

TimedWaitCall(t, r, d) == /\ Timed(t, d)
                          /\ id # "INVALID"
                          /\ Go(t, "idle", "pend")
                          /\ request' = [request EXCEPT ![t] = r]
                          /\ UNCHANGED object

\* sceKernelWaitEventFlag, with the id as it is now.
KernelWait(t) == /\ id # "INVALID" /\ flag
                 /\ Go(t, "pend", "wait")
                 /\ UNCHANGED <<object, calls>>

\* EINVAL: the flag has gone before the call, or while the thread waited.
WaitRefused(t) == /\ \/ (id = "INVALID" \/ ~flag) /\ Return(t, "pend")
                     \/ Return(t, "deleted")
                  /\ UNCHANGED object

Grant(t) == /\ Return(t, "wait")
            /\ Satisfied(request[t])
            /\ events' = Cleared(request[t])
            /\ UNCHANGED <<id, flag, critical, now>>

\* pthread_delay_until_np.
DelayCall(t, d) == /\ Timed(t, d)
                   /\ Go(t, "idle", "delay")
                   /\ UNCHANGED <<object, request>>

\* WAIT_TIMEOUT, or the end of a delay.
TimeOut(t) == /\ due[t] # NONE /\ now >= due[t]
              /\ Return(t, "wait") \/ Return(t, "delay")
              /\ UNCHANGED object

--------------------------------------------------------------------------------
Tick == /\ \A t \in Threads : pc[t] # "pend"
        /\ now < MaxTime \/ \E t \in Threads : due[t] > now
        /\ now' = now + 1
        /\ UNCHANGED <<id, flag, events, critical, pc, calls>>

Running(t) == \/ Create(t) \/ Delete(t) \/ Invalidate(t) \/ LeaveCritical(t)
              \/ KernelWait(t) \/ WaitRefused(t) \/ TimeOut(t)

Next == \/ Tick
        \/ \E t \in Threads :
              \/ InitCall(t) \/ DestroyCall(t) \/ EnterCritical(t)
              \/ \E e \in Events : SetEvents(t, {e})
              \/ \E r \in Requests : Try(t, r) \/ WaitCall(t, r)
              \/ \E d \in Deadlines : \/ DelayCall(t, d)
                                      \/ \E r \in Requests : TimedWaitCall(t, r, d)
              \/ Grant(t) \/ Running(t)

Spec == Init /\ [][Next]_vars

\* Time passes and a running thread is scheduled.
Fairness == SF_vars(Tick) /\ \A t \in Threads : WF_vars(Running(t))

FairSpec == Spec /\ Fairness

--------------------------------------------------------------------------------
TypeOK == /\ id \in {"INVALID", "LIVE"} /\ flag \in BOOLEAN
          /\ events \subseteq Events
          /\ critical \in BOOLEAN
          /\ now \in Nat
          /\ pc \in [Threads -> PCs]
          /\ request \in [Threads -> Requests]
          /\ due \in [Threads -> Int]
          /\ promise \in [Threads -> [from : Int, to : Int]]

\* A timed call ends neither before its deadline nor more than a second after it (or
\* after the call, if it had passed), although the seconds wrap in 32 bits
\* (pthread_impl.h:435-438) and the clock drops most of its fraction
\* (pthread_np.c:59-72); it may end a second early if the deadline was counted from
\* pthread_getsystemtime_np.
OnTime == \A t \in Threads : promise[t].from <= due[t] /\ due[t] <= promise[t].to

\* A timed call returns, and a destroy releases the threads that wait.
CallsReturn == \A t \in Threads :
    /\ (due[t] # NONE ~> pc[t] = "idle")
    /\ \A u \in Threads \ {t} :
          (pc[u] = "delete" /\ pc[t] = "wait" ~> pc[t] = "idle")
================================================================================
