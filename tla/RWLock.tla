--------------------------------- MODULE RWLock ---------------------------------
(***************************************************************************)
(* One pthread_rwlock_t (src/src/pthread_rwlock.c): init, destroy, the     *)
(* static initialiser, the six ways to lock and unlock.  The lock is one   *)
(* semaphore of MAX_COUNT units: a reader takes one, a writer all of them, *)
(* and the field writelock tells unlock how many to give back.             *)
(*                                                                         *)
(* Calls on an invalid lock (EINVAL) change nothing and are stuttering.    *)
(***************************************************************************)
EXTENDS Naturals, FiniteSets, KernelSema, Callers

CONSTANTS
    MAX_COUNT,
    MaxReads       \* bound: read locks one thread holds at a time

ASSUME MaxCountAssumption == MAX_COUNT \in Nat \ {0}
ASSUME MaxReadsAssumption == MaxReads \in Nat

VARIABLES
    static,      \* whether the object was declared with PTHREAD_RWLOCK_INITIALIZER
    rdwrQ,       \* STATIC_INIT_ID_, INVALID_ID_ or a live semaphore
    writelock,
    sema,        \* count of the semaphore rdwrQ
    critical,    \* whether some thread is in the critical section
    call,        \* the lock call each thread is in
    units,       \* the local variable count of unlock
    reads,       \* read locks held: <<t, i>> is one of thread t
    writers      \* threads that hold the write lock

vars == <<static, rdwrQ, writelock, sema, critical, pc, call, units, reads, writers>>

RWLOCK_SIG_ == 1

ReadCalls == {"rdlock", "timedrdlock", "tryrdlock"}
WriteCalls == {"wrlock", "timedwrlock", "trywrlock"}
Calls == ReadCalls \cup WriteCalls
PCs == {"idle", "si_enter", "si_test", "si_flag", "wait", "own", "u_signal"}
Slots == 1..MaxReads

Reading(t) == \E i \in Slots : <<t, i>> \in reads
Holding(t) == t \in writers \/ Reading(t)

\* What the call was no longer matters: canonical, to keep the states few.
NoCall(t) == call' = [call EXCEPT ![t] = "rdlock"]

Init == /\ static \in BOOLEAN
        /\ rdwrQ = IF static THEN "STATIC" ELSE "INVALID"
        /\ writelock = IF static THEN RWLOCK_SIG_ ELSE 0
        /\ sema = 0
        /\ critical = "free"
        /\ pc = [t \in Threads |-> "idle"]
        /\ call = [t \in Threads |-> "rdlock"]
        /\ units = [t \in Threads |-> 1]
        /\ reads = {}
        /\ writers = {}

STATIC_INIT == rdwrQ = "STATIC" /\ writelock = RWLOCK_SIG_

InitRWLock ==
    /\ rdwrQ = "INVALID" /\ critical = "free"
    /\ rdwrQ' = "LIVE"
    /\ sema' = MAX_COUNT
    /\ writelock' = 0
    /\ UNCHANGED <<static, critical, pc, call, units, reads, writers>>

\* Destroying a lock that threads hold or are calling is undefined.
Destroy ==
    /\ rdwrQ # "INVALID" /\ critical = "free"
    /\ NobodyInside
    /\ reads = {} /\ writers = {}
    /\ rdwrQ' = "INVALID"
    /\ sema' = 0
    /\ UNCHANGED <<static, writelock, critical, pc, call, units, reads, writers>>

--------------------------------------------------------------------------------
\* A thread does not lock for writing what it holds, nor for reading what it
\* holds for writing: both are undefined.
CallerMayLock(t, c) == /\ t \notin writers
                       /\ c \in WriteCalls => ~Reading(t)
                       /\ c \in ReadCalls => \E i \in Slots : <<t, i>> \notin reads

LockCall(t, c) ==
    /\ rdwrQ # "INVALID"
    /\ CallerMayLock(t, c)
    /\ Go(t, "idle", IF STATIC_INIT THEN "si_enter" ELSE "wait")
    /\ call' = [call EXCEPT ![t] = c]
    /\ UNCHANGED <<static, rdwrQ, writelock, sema, critical, units, reads, writers>>

EnterCritical(t) ==
    /\ Go(t, "si_enter", "si_test")
    /\ critical = "free"
    /\ critical' = "taken"
    /\ UNCHANGED <<static, rdwrQ, writelock, sema, call, units, reads, writers>>

\* Fault: init_static does not test again under the critical section.
InitStaticCreateUntested(t) ==
    /\ Go(t, "si_test", "si_flag")
    /\ rdwrQ' = "LIVE"
    /\ sema' = MAX_COUNT
    /\ UNCHANGED <<static, writelock, critical, call, units, reads, writers>>

InitStaticCreate(t) ==
    /\ STATIC_INIT
    /\ Go(t, "si_test", "si_flag")
    /\ rdwrQ' = "LIVE"
    /\ sema' = MAX_COUNT
    /\ UNCHANGED <<static, writelock, critical, call, units, reads, writers>>

InitStaticFails(t) ==
    /\ STATIC_INIT
    /\ Go(t, "si_test", "idle")
    /\ critical' = "free"
    /\ NoCall(t)
    /\ UNCHANGED <<static, rdwrQ, writelock, sema, units, reads, writers>>

InitStaticDone(t) ==
    /\ ~STATIC_INIT
    /\ Go(t, "si_test", "wait")
    /\ critical' = "free"
    /\ UNCHANGED <<static, rdwrQ, writelock, sema, call, units, reads, writers>>

InitStaticFlag(t) ==
    /\ Go(t, "si_flag", "wait")
    /\ writelock' = 0
    /\ critical' = "free"
    /\ UNCHANGED <<static, rdwrQ, sema, call, units, reads, writers>>

\* Fault: a writer needs a single unit.
DemandOne(t) == 1

Demand(t) == IF call[t] \in WriteCalls THEN MAX_COUNT ELSE 1

\* tryrdlock is the one call that does not write writelock.
GrantRead(t) ==
    /\ call[t] \in ReadCalls
    /\ Go(t, "wait", IF call[t] = "tryrdlock" THEN "idle" ELSE "own")
    /\ Available(sema, Demand(t))
    /\ sema' = sema - Demand(t)
    /\ \E i \in Slots : <<t, i>> \notin reads /\ reads' = reads \cup {<<t, i>>}
    /\ IF call[t] = "tryrdlock" THEN NoCall(t) ELSE call' = call
    /\ UNCHANGED <<static, rdwrQ, writelock, critical, units, writers>>

GrantWrite(t) ==
    /\ call[t] \in WriteCalls
    /\ Go(t, "wait", "own")
    /\ Available(sema, Demand(t))
    /\ sema' = sema - Demand(t)
    /\ writers' = writers \cup {t}
    /\ UNCHANGED <<static, rdwrQ, writelock, critical, call, units, reads>>

GiveUp(t) ==
    /\ \/ call[t] \in {"timedrdlock", "timedwrlock"}
       \/ call[t] \in {"tryrdlock", "trywrlock"} /\ ~Available(sema, Demand(t))
    /\ Go(t, "wait", "idle")
    /\ NoCall(t)
    /\ UNCHANGED <<static, rdwrQ, writelock, sema, critical, units, reads, writers>>

Flag(t) == IF call[t] \in WriteCalls THEN 1 ELSE 0

SetWriteLock(t) ==
    /\ Go(t, "own", "idle")
    /\ writelock' = Flag(t)
    /\ NoCall(t)
    /\ UNCHANGED <<static, rdwrQ, sema, critical, units, reads, writers>>

--------------------------------------------------------------------------------
\* Fault: unlock does not clear the flag.
UnlockTestOnly(t) ==
    /\ rdwrQ # "INVALID"
    /\ Holding(t)
    /\ Go(t, "idle", "u_signal")
    /\ units' = [units EXCEPT ![t] = IF writelock # 0 THEN MAX_COUNT ELSE 1]
    /\ UNCHANGED <<static, rdwrQ, writelock, sema, critical, call, reads, writers>>

\* Unlocking what one does not hold is undefined: no caller does.
UnlockTest(t) ==
    /\ rdwrQ # "INVALID"
    /\ Holding(t)
    /\ Go(t, "idle", "u_signal")
    /\ writelock' = 0
    /\ units' = [units EXCEPT ![t] = IF writelock # 0 THEN MAX_COUNT ELSE 1]
    /\ UNCHANGED <<static, rdwrQ, sema, critical, call, reads, writers>>

\* The hold the call gives up.
Drop(t) ==
    \/ /\ t \in writers
       /\ writers' = writers \ {t} /\ reads' = reads
    \/ /\ t \notin writers
       /\ \E i \in Slots : <<t, i>> \in reads /\ reads' = reads \ {<<t, i>>}
       /\ writers' = writers

UnlockSignal(t) ==
    /\ Go(t, "u_signal", "idle")
    /\ sema' = AfterSignal(sema, units[t], MAX_COUNT)
    /\ Drop(t)
    /\ units' = [units EXCEPT ![t] = 1]
    /\ UNCHANGED <<static, rdwrQ, writelock, critical, call>>

--------------------------------------------------------------------------------
Running(t) == \/ InitStaticCreate(t) \/ InitStaticFails(t) \/ InitStaticDone(t)
              \/ InitStaticFlag(t) \/ SetWriteLock(t) \/ UnlockSignal(t)

Grant(t) == GrantRead(t) \/ GrantWrite(t)

Next == \/ InitRWLock \/ Destroy
        \/ \E t \in Threads :
              \/ \E c \in Calls : LockCall(t, c)
              \/ EnterCritical(t) \/ Grant(t) \/ GiveUp(t) \/ UnlockTest(t)
              \/ Running(t)

Spec == Init /\ [][Next]_vars

\* Threads run, timeouts expire, and the FIFO queue passes no waiter over for ever.
FairSpec == /\ Spec
            /\ \A t \in Threads : /\ WF_vars(Running(t))
                                  /\ WF_vars(Grant(t) \/ GiveUp(t))
                                  /\ SF_vars(Grant(t))
                                  /\ SF_vars(EnterCritical(t))

--------------------------------------------------------------------------------
TypeOK == /\ static \in BOOLEAN
          /\ rdwrQ \in {"STATIC", "INVALID", "LIVE"}
          /\ writelock \in {0, 1}
          /\ sema \in 0..MAX_COUNT
          /\ critical \in {"free", "taken"}
          /\ pc \in [Threads -> PCs]
          /\ call \in [Threads -> Calls]
          /\ units \in [Threads -> {1, MAX_COUNT}]
          /\ reads \subseteq Threads \X Slots
          /\ writers \subseteq Threads

\* A writer is alone: no second writer and no reader beside it.
Exclusion == /\ \A s, t \in writers : s = t
             /\ writers # {} => reads = {}

\* The semaphore is short of exactly the units that the present holders took, so
\* that a lock nobody holds can be taken by anybody (pthread_rwlock.c:302-308: after
\* the last read lock or the write lock is released "the read-write lock object will
\* be put in the unlocked state with no owners").  Not so for a static lock, whose
\* initialisation races with the first calls (see README).
UnitsExact ==
    ~static /\ rdwrQ = "LIVE" =>
        sema + (IF writers = {} THEN Cardinality(reads) ELSE MAX_COUNT) = MAX_COUNT

\* If the lock keeps becoming free, every call returns, those of writers too.
CallsReturn ==
    ~static /\ []<>(reads = {} /\ writers = {}) => AllReturn
================================================================================
