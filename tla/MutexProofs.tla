------------------------------ MODULE MutexProofs ------------------------------
(***************************************************************************)
(* Proofs about Mutex for every set of threads, every set of types and     *)
(* every depth of nesting, and about Once, which takes its steps with a    *)
(* NORMAL mutex, for every set of threads.                                 *)
(***************************************************************************)
EXTENDS Once, TLAPS

\* At most one thread has the mutex locked, through nested locks, timeouts,
\* refused relocks and unlocks that have cleared the owner but not yet signalled.
MutualExclusion ==
    \A s, t \in Threads : held[s] > 0 /\ held[t] > 0 => s = t

\* The static initialisers that break nothing but the ownership: the late write
\* of recursivecount would lose the nested locks of a recursive mutex.
StaticSafe == "RECURSIVE" \notin StaticTypes

\* What a step needs of it; pthread_once knows the type of its mutex.
CountSafe == StaticSafe \/ type # "RECURSIVE"

StaticPCs == {"si_enter", "si_test", "si_count", "si_owner"}
LivePCs == {"si_count", "si_owner", "check", "wait", "own", "u_signal"}

\* The semaphore is taken exactly while somebody holds the mutex.
SemaHeld == /\ \A t \in Threads : held[t] > 0 => id = "LIVE" /\ sema = 0
            /\ id = "LIVE" /\ Nobody => sema = 1

\* The recursive count describes the holder, and is 0 when there is none.
CountExact == /\ \A t \in Threads : held[t] > 0 => held[t] = recursivecount + 1
              /\ Nobody => recursivecount = 0
              /\ type # "RECURSIVE" => recursivecount = 0

\* Between the semaphore and the owner field, in either direction, the thread
\* holds exactly one lock, and the field never names anybody but the holder.
OwnerSound == /\ \A t \in Threads : owner = t => held[t] > 0
              /\ \A t \in Threads : pc[t] \in {"own", "u_signal"} => held[t] = 1
              /\ \A t \in Threads : pc[t] = "u_signal" => owner # t
              /\ \A t \in Threads : pc[t] = "u_protocol" => held[t] = 0

\* Calls run on an object that exists, and init_static only on a static one.
CallsSound == /\ \A t \in Threads : pc[t] \in LivePCs => id = "LIVE"
              /\ \A t \in Threads : pc[t] \in StaticPCs => id # "INVALID"
              /\ \A t \in Threads : pc[t] \in StaticPCs => static /\ type \in StaticTypes
              /\ id = "STATIC" => static /\ type \in StaticTypes /\ owner = MUTEX_SIG_

\* Without static initialisation the owner field is exact.
OwnerExact == ~static =>
    \A t \in Threads : held[t] > 0 /\ pc[t] \notin {"own", "u_signal"} => owner = t

IInv == /\ TypeOK
        /\ MutualExclusion
        /\ SemaHeld
        /\ CountExact
        /\ OwnerSound
        /\ CallsSound
        /\ OwnerExact

--------------------------------------------------------------------------------
LEMMA InitEstablishes == Init => IInv
  BY SentinelAssumption, TypesAssumption
  DEF Init, IInv, TypeOK, MutualExclusion, SemaHeld, Nobody, CountExact, OwnerSound,
      CallsSound, OwnerExact, PCs, LockCalls, LivePCs, StaticPCs

(* One lemma for each stage of a call, one step for each action. *)

LEMMA InitDestroyPreserve ==
    ASSUME IInv, NEW t \in Threads, InitMutex(t) \/ Destroy(t) PROVE IInv'
  <1> USE SentinelAssumption DEF IInv, TypeOK, MutualExclusion, SemaHeld, Nobody,
      CountExact, OwnerSound, CallsSound, OwnerExact, PCs, LivePCs, StaticPCs
  <1>1. CASE InitMutex(t)
    <2>1. Nobody
      BY <1>1 DEF InitMutex
    <2>2. \A u \in Threads : pc[u] \notin LivePCs \cup StaticPCs
      BY <1>1 DEF InitMutex
    <2> QED
      BY <1>1, <2>1, <2>2 DEF InitMutex
  <1>2. CASE Destroy(t)
    BY <1>2 DEF Destroy, Unlocked
  <1> QED
    BY <1>1, <1>2

LEMMA StaticInitPreserves ==
    ASSUME CountSafe, IInv, NEW t \in Threads,
           \/ EnterCritical(t) \/ InitStaticCreate(t) \/ InitStaticFails(t)
           \/ InitStaticDone(t) \/ InitStaticCount(t) \/ InitStaticOwner(t)
    PROVE  IInv'
  <1> USE SentinelAssumption DEF IInv, TypeOK, MutualExclusion, SemaHeld, Nobody,
      CountExact, OwnerSound, CallsSound, OwnerExact, PCs, LivePCs, StaticPCs, Go, IsAt
  <1>1. CASE EnterCritical(t)
    BY <1>1 DEF EnterCritical, object
  <1>2. CASE InitStaticCreate(t)
    <2>1. Nobody
      BY <1>2 DEF InitStaticCreate, STATIC_INIT
    <2> QED
      BY <1>2, <2>1 DEF InitStaticCreate, STATIC_INIT
  <1>3. CASE InitStaticFails(t)
    BY <1>3 DEF InitStaticFails, NoCall, LockCalls, object
  <1>4. CASE InitStaticDone(t)
    <2>1. id = "LIVE"
      BY <1>4 DEF InitStaticDone, STATIC_INIT
    <2> QED
      BY <1>4, <2>1 DEF InitStaticDone, object
  <1>5. CASE InitStaticCount(t)
    \* The write is harmless only because nobody has counted a nested lock yet.
    <2>1. type # "RECURSIVE"
      BY <1>5, TypesAssumption DEF InitStaticCount, CountSafe, StaticSafe
    <2>2. recursivecount = 0
      BY <2>1
    <2> QED
      BY <1>5, <2>2 DEF InitStaticCount
  <1>6. CASE InitStaticOwner(t)
    BY <1>6 DEF InitStaticOwner
  <1> QED
    BY <1>1, <1>2, <1>3, <1>4, <1>5, <1>6

LEMMA LockPreserves ==
    ASSUME IInv, NEW t \in Threads,
           \/ \E op \in LockCalls : LockCall(t, op)
           \/ CheckRelock(t) \/ CheckDeadlock(t) \/ CheckOther(t)
           \/ Grant(t) \/ GiveUp(t) \/ SetOwner(t)
    PROVE  IInv'
  <1> USE SentinelAssumption DEF IInv, TypeOK, MutualExclusion, SemaHeld, Nobody,
      CountExact, OwnerSound, CallsSound, OwnerExact, PCs, LivePCs, StaticPCs, Go, IsAt
  <1>1. ASSUME NEW op \in LockCalls, LockCall(t, op) PROVE IInv'
    <2>1. CASE STATIC_INIT
      BY <1>1, <2>1 DEF LockCall, STATIC_INIT, object
    <2>2. CASE ~STATIC_INIT
      <3>1. id = "LIVE"
        BY <1>1, <2>2 DEF LockCall, STATIC_INIT
      <3> QED
        BY <1>1, <2>2, <3>1 DEF LockCall, object
    <2> QED
      BY <2>1, <2>2
  <1>2. CASE CheckRelock(t)
    <2>1. held[t] > 0 /\ held[t] = recursivecount + 1
      BY <1>2 DEF CheckRelock, NoCall, LockCalls, Relocks
    <2>2. \A u \in Threads \ {t} : held[u] = 0
      BY <2>1
    <2> QED
      BY <1>2, <2>1, <2>2 DEF CheckRelock, NoCall, LockCalls, Relocks
  <1>3. CASE CheckDeadlock(t)
    BY <1>3 DEF CheckDeadlock, NoCall, LockCalls, object
  <1>4. CASE CheckOther(t)
    BY <1>4 DEF CheckOther, object
  <1>5. CASE Grant(t)
    \* The semaphore was free, so nobody held the mutex.
    <2>1. Nobody
      BY <1>5 DEF Grant, Available
    <2>2. recursivecount = 0 /\ \A u \in Threads : owner # u
      BY <2>1
    <2> QED
      BY <1>5, <2>1, <2>2 DEF Grant, Available, NoCall, LockCalls
  <1>6. CASE GiveUp(t)
    BY <1>6 DEF GiveUp, NoCall, LockCalls, object
  <1>7. CASE SetOwner(t)
    <2>1. held[t] = 1 /\ \A u \in Threads \ {t} : held[u] = 0
      BY <1>7 DEF SetOwner
    <2> QED
      BY <1>7, <2>1 DEF SetOwner
  <1> QED
    BY <1>1, <1>2, <1>3, <1>4, <1>5, <1>6, <1>7

LEMMA UnlockPreserves ==
    ASSUME IInv, NEW t \in Threads,
           UnlockNested(t) \/ UnlockClear(t) \/ UnlockSignal(t) \/ UnlockProtocol(t)
    PROVE  IInv'
  <1> USE SentinelAssumption DEF IInv, TypeOK, MutualExclusion, SemaHeld, Nobody,
      CountExact, OwnerSound, CallsSound, OwnerExact, PCs, LivePCs, StaticPCs, Go, IsAt
  <1>1. CASE UnlockNested(t)
    <2>1. held[t] = recursivecount + 1 /\ recursivecount > 0
      BY <1>1 DEF UnlockNested, Relocks, Nested
    <2>2. \A u \in Threads \ {t} : held[u] = 0
      BY <2>1
    <2> QED
      BY <1>1, <2>1, <2>2 DEF UnlockNested, Relocks
  <1>2. CASE UnlockClear(t)
    \* Whatever the type, a thread that gets past the tests holds one lock.
    <2>1. held[t] > 0 /\ recursivecount = 0
      BY <1>2, TypesAssumption
      DEF UnlockClear, CallerMayUnlock, MayRelease, Nested, MutexTypes
    <2>2. held[t] = 1 /\ \A u \in Threads \ {t} : held[u] = 0
      BY <2>1
    <2> QED
      BY <1>2, <2>1, <2>2 DEF UnlockClear
  <1>3. CASE UnlockSignal(t)
    <2>1. held[t] = 1 /\ sema = 0 /\ recursivecount = 0
      BY <1>3 DEF UnlockSignal
    <2>2. \A u \in Threads : owner # u
      <3>1. \A u \in Threads \ {t} : held[u] = 0
        BY <2>1
      <3> QED
        BY <1>3, <3>1 DEF UnlockSignal
    <2>3. sema' = 1
      BY <1>3, <2>1 DEF UnlockSignal, AfterSignal, SignalFits
    <2> QED
      BY <1>3, <2>1, <2>2, <2>3 DEF UnlockSignal
  <1>4. CASE UnlockProtocol(t)
    BY <1>4 DEF UnlockProtocol, object
  <1> QED
    BY <1>1, <1>2, <1>3, <1>4

LEMMA NextPreserves == CountSafe /\ IInv /\ [Next]_vars => IInv'
  <1> SUFFICES ASSUME CountSafe, IInv, [Next]_vars PROVE IInv'
    OBVIOUS
  <1>1. CASE UNCHANGED vars
    BY <1>1 DEF vars, IInv, TypeOK, MutualExclusion, SemaHeld, Nobody, CountExact,
                OwnerSound, CallsSound, OwnerExact
  <1>2. CASE Next
    BY <1>2, InitDestroyPreserve, StaticInitPreserves, LockPreserves, UnlockPreserves
    DEF Next, Running
  <1> QED
    BY <1>1, <1>2

LEMMA Inductive == StaticSafe => (Spec => []IInv)
  <1> SUFFICES ASSUME StaticSafe PROVE Spec => []IInv
    OBVIOUS
  <1>1. IInv /\ [Next]_vars => IInv'
    BY NextPreserves DEF CountSafe
  <1> QED
    BY InitEstablishes, <1>1, PTL DEF Spec

--------------------------------------------------------------------------------
\* Type correctness.  It is not inductive alone: that unlock never takes a count
\* below zero rests on the rest of IInv.
THEOREM TypeCorrect == StaticSafe => (Spec => []TypeOK)
  <1>1. IInv => TypeOK
    BY DEF IInv
  <1> QED
    BY Inductive, <1>1, PTL

\* lock and unlock give mutual exclusion to any number of threads, whatever the
\* type of the mutex, and also when it is initialised statically and concurrently,
\* unless a static initialiser makes it recursive.
THEOREM Exclusion == StaticSafe => (Spec => []MutualExclusion)
  <1>1. IInv => MutualExclusion
    BY DEF IInv
  <1> QED
    BY Inductive, <1>1, PTL

\* Under the same condition the recursive count and the semaphore are exact.
THEOREM BookkeepingExact == StaticSafe => (Spec => []Bookkeeping)
  <1>1. IInv => Bookkeeping
    BY DEF IInv, Bookkeeping, SemaHeld, CountExact, Nobody, TypeOK
  <1> QED
    BY Inductive, <1>1, PTL

\* Whoever has locked a mutex that was not initialised statically is its owner.
THEOREM Ownership == StaticSafe => (Spec => []OwnedOnReturn)
  <1>1. IInv => OwnedOnReturn
    BY DEF IInv, OwnerExact, OwnedOnReturn, CallingThreadOwns
  <1> QED
    BY Inductive, <1>1, PTL

--------------------------------------------------------------------------------
(* Every step of the code is a step of the abstract lock, or leaves it alone. *)

LEMMA StepRefines == IInv /\ [Next]_vars => [Abstract!Next]_<<held, type>>
  <1> SUFFICES ASSUME IInv, [Next]_vars
               PROVE  Abstract!Next \/ UNCHANGED <<held, type>>
    OBVIOUS
  <1> USE DEF Abstract!Next, Abstract!Free
  <1>1. ASSUME NEW t \in Threads, InitMutex(t) PROVE Abstract!Retype
    BY <1>1 DEF InitMutex, Abstract!Retype, IInv, SemaHeld, TypeOK
  <1>2. ASSUME NEW t \in Threads, Grant(t) PROVE Abstract!Acquire(t)
    <2>1. \A u \in Threads : held[u] = 0
      BY <1>2 DEF Grant, Available, IInv, SemaHeld, TypeOK
    <2>2. held[t] + 1 = 1
      BY <2>1
    <2>3. held' = [held EXCEPT ![t] = 1]
      BY <1>2, <2>2 DEF Grant
    <2> QED
      BY <1>2, <2>1, <2>3 DEF Grant, Abstract!Acquire
  <1>3. ASSUME NEW t \in Threads, CheckRelock(t) PROVE Abstract!Relock(t)
    BY <1>3 DEF CheckRelock, NoCall, LockCalls, Relocks, Abstract!Relock, IInv, OwnerSound
  <1>4. ASSUME NEW t \in Threads, UnlockNested(t) PROVE Abstract!Release(t)
    BY <1>4 DEF UnlockNested, Relocks, Abstract!Release, IInv, OwnerSound
  <1>5. ASSUME NEW t \in Threads, UnlockSignal(t) PROVE Abstract!Release(t)
    BY <1>5 DEF UnlockSignal, Go, IsAt, Abstract!Release, IInv, OwnerSound
  <1>6. ASSUME NEW t \in Threads,
               \/ Destroy(t) \/ UnlockClear(t) \/ EnterCritical(t) \/ GiveUp(t)
               \/ \E op \in LockCalls : LockCall(t, op)
               \/ InitStaticCreate(t) \/ InitStaticFails(t) \/ InitStaticDone(t)
               \/ InitStaticCount(t) \/ InitStaticOwner(t)
               \/ CheckDeadlock(t) \/ CheckOther(t) \/ SetOwner(t) \/ UnlockProtocol(t)
        PROVE  UNCHANGED <<held, type>>
    BY <1>6 DEF Destroy, UnlockClear, EnterCritical, GiveUp, LockCall, InitStaticCreate,
       InitStaticFails, InitStaticDone, InitStaticCount, InitStaticOwner, CheckDeadlock,
       CheckOther, SetOwner, UnlockProtocol, object
  <1>7. CASE UNCHANGED vars
    BY <1>7 DEF vars
  <1> QED
    BY <1>1, <1>2, <1>3, <1>4, <1>5, <1>6, <1>7 DEF Next, Running

\* The code implements the abstract lock: only the holder relocks, only a
\* recursive mutex is relocked, and another thread gets in after as many unlocks
\* as locks.
THEOREM RefinesLock == StaticSafe => (Spec => ImplementsLock)
  <1> SUFFICES ASSUME StaticSafe PROVE Spec => ImplementsLock
    OBVIOUS
  <1>1. Init => Abstract!Init
    BY TypesAssumption DEF Init, Abstract!Init
  <1>2. IInv /\ [Next]_vars => [Abstract!Next]_<<held, type>>
    BY StepRefines
  <1>3. Spec => []IInv
    BY Inductive
  <1> QED
    BY <1>1, <1>2, <1>3, PTL DEF Spec, ImplementsLock, Abstract!Spec
--------------------------------------------------------------------------------
(* pthread_once.  Its steps on in_progress are steps of Mutex, so that IInv stays true *)
(* of it, whatever the static initialiser does to the owner.                           *)

\* Two threads are never in init at the same time, one of them cancelled or not.
OneAtATime ==
    \A s, t \in Threads : stage[s] \in {"init", "ran"} /\ stage[t] \in {"init", "ran"} => s = t

LockPCs == {"si_enter", "si_test", "si_count", "si_owner", "check", "wait"}
UnlockPCs == {"u_signal", "u_protocol"}
HolderStages == {"init", "ran", "unlock", "cleanup"}

\* Threads are in a call on the mutex only where pthread_once makes one, and hold it
\* from there on until their unlock.
CallsExact ==
    \A t \in Threads :
       /\ stage[t] = "locking" /\ pc[t] \notin LockPCs =>
              pc[t] \in {"own", "idle"} /\ held[t] > 0
       /\ stage[t] \in {"unlocking", "ending"} => pc[t] \in UnlockPCs
       /\ stage[t] \notin {"locking", "unlocking", "ending"} => pc[t] = "idle"
       /\ stage[t] \in HolderStages => held[t] > 0

\* done and inits go together, but for the thread that is between the two.
DoneExact ==
    /\ done => inits = 1
    /\ ~done /\ (\A t \in Threads : stage[t] # "ran") => inits = 0
    /\ \A t \in Threads : stage[t] = "ran" => inits = 1
    /\ \A t \in Threads : stage[t] \in {"init", "ran"} => ~done
    /\ \A t \in Threads : stage[t] \in {"unlock", "unlocking", "returned"} => done

OnceInv == /\ OnceTypeOK
           /\ CallsExact
           /\ DoneExact

LEMMA MutexStep == IInv /\ type = "NORMAL" /\ [OnceNext]_onceVars => (IInv /\ type = "NORMAL")'
  <1> SUFFICES ASSUME IInv, type = "NORMAL", [OnceNext]_onceVars
               PROVE  IInv' /\ type' = "NORMAL"
    OBVIOUS
  <1>1. CASE UNCHANGED onceVars
    BY <1>1 DEF onceVars, vars, IInv, TypeOK, MutualExclusion, SemaHeld, Nobody, CountExact,
                OwnerSound, CallsSound, OwnerExact
  <1>2. ASSUME NEW t \in Threads,
               Lock(t) \/ InMutex(t) \/ Cleanup(t) \/ Unlock(t) \/ UnlockReturns(t)
        PROVE  Next /\ type' = type
    <2>1. LockCall(t, "lock") => type' = type
      BY DEF LockCall, object
    <2>2. UnlockClear(t) \/ UnlockSignal(t) \/ UnlockProtocol(t) => type' = type
      BY DEF UnlockClear, UnlockSignal, UnlockProtocol, object
    <2>3. InMutex(t) => type' = type
      BY <2>2 DEF InMutex, EnterCritical, InitStaticCreate, InitStaticDone, InitStaticCount,
         InitStaticOwner, CheckOther, Grant, SetOwner, object
    <2>4. Next
      BY <1>2 DEF Lock, InMutex, Cleanup, Unlock, UnlockReturns, Next, Running, LockCalls
    <2> QED
      BY <1>2, <2>1, <2>2, <2>3, <2>4 DEF Lock, Cleanup, Unlock, UnlockReturns
  <1>3. ASSUME NEW t \in Threads,
               \/ TestDone(t) \/ TestAgain(t) \/ RunInit(t) \/ Cancel(t) \/ Kill(t)
               \/ SetDone(t) \/ UnlockRefused(t)
        PROVE  UNCHANGED vars
    BY <1>3 DEF TestDone, TestAgain, RunInit, Cancel, Kill, SetDone, UnlockRefused
  <1>4. CASE OnceNext
    <2>1. [Next]_vars /\ type' = type
      BY <1>2, <1>3, <1>4 DEF OnceNext, OnceRunning, vars
    <2> QED
      BY <2>1, NextPreserves DEF CountSafe
  <1> QED
    BY <1>1, <1>4

LEMMA MutexFacts ==
    ASSUME IInv
    PROVE  /\ pc \in [Threads -> PCs]
           /\ held \in [Threads -> Nat]
           /\ \A t \in Threads : pc[t] = "own" => held[t] = 1
           /\ \A s, t \in Threads : held[s] > 0 /\ held[t] > 0 => s = t
  BY DEF IInv, TypeOK, OwnerSound, MutualExclusion

LEMMA OnceInitEstablishes == OnceInit => OnceInv
  <1> SUFFICES ASSUME OnceInit PROVE OnceInv
    OBVIOUS
  <1>1. ~done /\ done \in BOOLEAN /\ inits = 0 /\ stage = [t \in Threads |-> "idle"]
    BY DEF OnceInit
  <1>2. OnceTypeOK
    BY <1>1 DEF OnceTypeOK, Stages
  <1>3. CallsExact
    BY <1>1 DEF OnceInit, Init, CallsExact, HolderStages
  <1>4. DoneExact
    BY <1>1 DEF DoneExact
  <1> QED
    BY <1>2, <1>3, <1>4 DEF OnceInv

\* Steps outside of the mutex.
LEMMA OncePreserves ==
    ASSUME OnceInv, IInv, NEW t \in Threads,
           \/ TestDone(t) \/ TestAgain(t) \/ RunInit(t) \/ Cancel(t) \/ Kill(t)
           \/ SetDone(t) \/ UnlockRefused(t)
    PROVE  OnceInv'
  <1> USE MutexFacts DEF OnceInv, OnceTypeOK, Stages, CallsExact, DoneExact, HolderStages,
      LockPCs, Step, vars
  <1>1. CASE TestDone(t)
    BY <1>1 DEF TestDone
  <1>2. CASE TestAgain(t)
    BY <1>2 DEF TestAgain
  <1>3. CASE RunInit(t)
    BY <1>3 DEF RunInit
  <1>4. CASE Cancel(t) \/ Kill(t)
    BY <1>4 DEF Cancel, Kill
  <1>5. CASE SetDone(t)
    BY <1>5 DEF SetDone
  <1>6. CASE UnlockRefused(t)
    BY <1>6 DEF UnlockRefused
  <1> QED
    BY <1>1, <1>2, <1>3, <1>4, <1>5, <1>6

LEMMA OnceLockPreserves ==
    ASSUME OnceInv, IInv, NEW t \in Threads, Lock(t) \/ InMutex(t) PROVE OnceInv'
  <1> USE MutexFacts DEF OnceInv, OnceTypeOK, Stages, CallsExact, DoneExact, HolderStages,
      LockPCs, UnlockPCs, Step, Go, IsAt, object
  <1>1. CASE Lock(t)
    BY <1>1 DEF Lock, LockCall
  <1>2. ASSUME UNCHANGED <<done, stage, inits>>, UNCHANGED held,
               pc' = [pc EXCEPT ![t] = pc'[t]],
               pc[t] \in LockPCs /\ pc'[t] \in LockPCs
        PROVE  OnceInv'
    BY <1>2
  <1>3. CASE EnterCritical(t) /\ UNCHANGED <<done, stage, inits>>
    BY <1>2, <1>3 DEF EnterCritical
  <1>4. CASE /\ \/ InitStaticCreate(t) \/ InitStaticDone(t)
                \/ InitStaticCount(t) \/ InitStaticOwner(t)
             /\ UNCHANGED <<done, stage, inits>>
    BY <1>2, <1>4 DEF InitStaticCreate, InitStaticDone, InitStaticCount, InitStaticOwner
  <1>5. CASE CheckOther(t) /\ UNCHANGED <<done, stage, inits>>
    BY <1>2, <1>5 DEF CheckOther
  <1>6. CASE Grant(t) /\ UNCHANGED <<done, stage, inits>>
    BY <1>6 DEF Grant
  <1>7. CASE SetOwner(t) /\ UNCHANGED <<done, stage, inits>>
    BY <1>7 DEF SetOwner
  <1>8. CASE UnlockSignal(t) /\ UNCHANGED <<done, stage, inits>>
    BY <1>8 DEF UnlockSignal
  <1> QED
    BY <1>1, <1>3, <1>4, <1>5, <1>6, <1>7, <1>8 DEF InMutex

LEMMA OnceUnlockPreserves ==
    ASSUME OnceInv, IInv, NEW t \in Threads, Cleanup(t) \/ Unlock(t) \/ UnlockReturns(t)
    PROVE  OnceInv'
  <1> USE MutexFacts DEF OnceInv, OnceTypeOK, Stages, CallsExact, DoneExact, HolderStages,
      LockPCs, UnlockPCs, Step, Go, IsAt, object
  <1>1. CASE Cleanup(t)
    BY <1>1 DEF Cleanup, UnlockClear
  <1>2. CASE Unlock(t)
    BY <1>2 DEF Unlock, UnlockClear
  <1>3. CASE UnlockReturns(t)
    BY <1>3 DEF UnlockReturns, UnlockProtocol
  <1> QED
    BY <1>1, <1>2, <1>3

LEMMA OnceInductive == OnceSpec => [](OnceInv /\ IInv)
  <1>1. OnceInit => OnceInv /\ IInv /\ type = "NORMAL"
    BY OnceInitEstablishes, InitEstablishes DEF OnceInit
  <1>2. OnceInv /\ IInv /\ [OnceNext]_onceVars => OnceInv'
    <2> SUFFICES ASSUME OnceInv, IInv, [OnceNext]_onceVars PROVE OnceInv'
      OBVIOUS
    <2>1. CASE UNCHANGED onceVars
      BY <2>1 DEF onceVars, vars, OnceInv, OnceTypeOK, CallsExact, DoneExact
    <2>2. CASE OnceNext
      BY <2>2, OncePreserves, OnceLockPreserves, OnceUnlockPreserves
      DEF OnceNext, OnceRunning
    <2> QED
      BY <2>1, <2>2
  <1> QED
    BY <1>1, <1>2, MutexStep, PTL DEF OnceSpec

--------------------------------------------------------------------------------
\* init runs to its end at most once, although in_progress is initialised by its first
\* lock, and threads may be cancelled in init.
THEOREM OnceOnly == OnceSpec => []RunsOnce
  <1>1. OnceInv => RunsOnce
    BY DEF OnceInv, OnceTypeOK, DoneExact, RunsOnce
  <1> QED
    BY <1>1, OnceInductive, PTL

\* Threads are in init one at a time.
THEOREM InitExcludes == OnceSpec => []OneAtATime
  <1>1. OnceInv /\ IInv => OneAtATime
    BY MutexFacts DEF OnceInv, CallsExact, HolderStages, OneAtATime
  <1> QED
    BY <1>1, OnceInductive, PTL

\* Nobody returns from pthread_once before init is complete.
THEOREM ReturnsAfterInit == OnceSpec => []CompleteOnReturn
  <1>1. OnceInv => CompleteOnReturn
    BY DEF OnceInv, DoneExact, CompleteOnReturn
  <1> QED
    BY <1>1, OnceInductive, PTL
================================================================================
