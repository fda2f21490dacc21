------------------------------ MODULE RWLockProofs ------------------------------
(***************************************************************************)
(* Proofs about RWLock for every set of threads, every MAX_COUNT and every  *)
(* bound on the read locks of a thread.  A writer is alone in locks of both *)
(* kinds (Loose); the units are exact in those that pthread_rwlock_init     *)
(* initialises (IInv).                                                      *)
(***************************************************************************)
EXTENDS RWLock, FiniteSetTheorems, TLAPS

\* Every unlock by a holder gives back what that holder took, no more and no less.
UnlockMatches ==
    ~static => \A t \in Threads : pc[t] = "u_signal" =>
        units[t] = IF t \in writers THEN MAX_COUNT ELSE 1

\* Only a live lock is held or called, and init_static never runs.
Dynamic == /\ ~static
           /\ rdwrQ # "STATIC"
           /\ \A t \in Threads : pc[t] \notin {"si_enter", "si_test", "si_flag"}
           /\ rdwrQ = "INVALID" => /\ reads = {} /\ writers = {}
                                   /\ \A t \in Threads : pc[t] = "idle"

\* A thread that has been granted the semaphore, or is about to signal it, holds
\* what its call says.
StageHolds ==
    /\ \A t \in Threads : pc[t] = "own" /\ call[t] \in WriteCalls => t \in writers
    /\ \A t \in Threads : pc[t] = "own" /\ call[t] \in ReadCalls => Reading(t)
    /\ \A t \in Threads : pc[t] = "u_signal" => Holding(t)

\* The flag is set exactly while a writer is between its two accesses to it.
FlagExact ==
    /\ \A t \in writers : pc[t] \notin {"own", "u_signal"} => writelock = 1
    /\ writelock = 1 => \E t \in writers : pc[t] \notin {"own", "u_signal"}

Sound == /\ TypeOK
         /\ IsFiniteSet(reads)
         /\ Dynamic
         /\ Exclusion
         /\ UnitsExact
         /\ UnlockMatches
         /\ StageHolds
         /\ FlagExact

\* How the object was declared never changes.
IInv == static \in BOOLEAN /\ (~static => Sound)

--------------------------------------------------------------------------------
\* One unit left in the semaphore means no writer; all of them, no holder at all.
LEMMA UnitsTell ==
    ASSUME Sound, rdwrQ = "LIVE"
    PROVE  /\ sema > 0 => writers = {}
           /\ sema = MAX_COUNT => writers = {} /\ reads = {}
  <1>1. Cardinality(reads) \in Nat
    BY FS_CardinalityType DEF Sound
  <1>2. sema > 0 => writers = {}
    BY MaxCountAssumption DEF Sound, TypeOK, UnitsExact, Dynamic
  <1>3. sema = MAX_COUNT => Cardinality(reads) = 0
    BY <1>1, <1>2, MaxCountAssumption DEF Sound, TypeOK, UnitsExact, Dynamic
  <1>4. Cardinality(reads) = 0 => reads = {}
    BY FS_EmptySet DEF Sound
  <1> QED
    BY <1>2, <1>3, <1>4, MaxCountAssumption DEF Sound, TypeOK

LEMMA InitEstablishes == Init /\ ~static => Sound
  <1> SUFFICES ASSUME Init, ~static PROVE Sound
    OBVIOUS
  <1>1. rdwrQ = "INVALID" /\ writelock = 0
    BY Zenon DEF Init
  <1>2. IsFiniteSet(reads)
    BY FS_EmptySet DEF Init
  <1>3. TypeOK
    BY <1>1, MaxCountAssumption DEF Init, TypeOK, PCs, Calls, ReadCalls, WriteCalls
  <1> QED
    BY <1>1, <1>2, <1>3
    DEF Init, Sound, Dynamic, Exclusion, UnitsExact, UnlockMatches, StageHolds, FlagExact

LEMMA InitDestroyPreserve == ASSUME Sound, InitRWLock \/ Destroy PROVE Sound'
  <1> USE MaxCountAssumption
      DEF Sound, TypeOK, PCs, Dynamic, Exclusion, UnitsExact, UnlockMatches, StageHolds,
          FlagExact, Reading, Holding
  <1>1. CASE InitRWLock
    <2>1. Cardinality(reads) = 0
      BY <1>1, FS_EmptySet DEF InitRWLock
    <2> QED
      BY <1>1, <2>1 DEF InitRWLock
  <1>2. CASE Destroy
    BY <1>2 DEF Destroy, NobodyInside, IsAt
  <1> QED
    BY <1>1, <1>2

LEMMA LockPreserves ==
    ASSUME Sound, NEW t \in Threads,
           (\E c \in Calls : LockCall(t, c)) \/ Grant(t) \/ GiveUp(t) \/ SetWriteLock(t)
    PROVE  Sound'
  <1> USE MaxCountAssumption
      DEF Sound, TypeOK, PCs, Calls, ReadCalls, WriteCalls, Dynamic, Exclusion, UnitsExact,
          UnlockMatches, StageHolds, FlagExact, Reading, Holding, Go, IsAt
  <1>1. ASSUME NEW c \in Calls, LockCall(t, c) PROVE Sound'
    <2>1. rdwrQ = "LIVE" /\ pc' = [pc EXCEPT ![t] = "wait"]
      BY <1>1 DEF LockCall, STATIC_INIT
    <2>2. TypeOK' /\ IsFiniteSet(reads)' /\ Dynamic'
      BY <1>1, <2>1 DEF LockCall
    <2>3. Exclusion' /\ UnitsExact'
      BY <1>1, <2>1 DEF LockCall
    <2>4. UnlockMatches'
      BY <1>1, <2>1 DEF LockCall
    <2>5. StageHolds'
      <3>1. /\ pc'[t] = "wait"
            /\ \A u \in Threads \ {t} : pc'[u] = pc[u] /\ call'[u] = call[u]
        BY <1>1, <2>1 DEF LockCall
      <3>2. reads' = reads /\ writers' = writers
        BY <1>1 DEF LockCall
      <3> QED
        BY <3>1, <3>2
    <2>6. FlagExact'
      BY <1>1, <2>1 DEF LockCall, CallerMayLock
    <2> QED
      BY <2>2, <2>3, <2>4, <2>5, <2>6
  <1>2. CASE GrantRead(t)
    <2>1. rdwrQ = "LIVE" /\ writers = {}
      BY <1>2, UnitsTell DEF GrantRead, Available, Demand
    <2>2. PICK i \in Slots : <<t, i>> \notin reads /\ reads' = reads \cup {<<t, i>>}
      BY <1>2 DEF GrantRead
    <2>3. IsFiniteSet(reads') /\ Cardinality(reads') = Cardinality(reads) + 1
      BY <2>2, FS_AddElement
    <2>4. Cardinality(reads) \in Nat
      BY FS_CardinalityType
    <2>5. sema' = sema - 1 /\ sema >= 1
      BY <1>2 DEF GrantRead, Available, Demand
    <2>6. UnitsExact' /\ sema' \in 0..MAX_COUNT
      BY <1>2, <2>1, <2>3, <2>4, <2>5 DEF GrantRead
    <2>7. writelock = 0
      BY <2>1
    <2>8. TypeOK' /\ Dynamic' /\ Exclusion' /\ UnlockMatches' /\ FlagExact'
      BY <1>2, <2>1, <2>2, <2>6, <2>7 DEF GrantRead, NoCall
    <2>9. StageHolds'
      BY <1>2, <2>1, <2>2 DEF GrantRead, NoCall
    <2> QED
      BY <2>3, <2>6, <2>8, <2>9
  <1>3. CASE GrantWrite(t)
    <2>0. rdwrQ = "LIVE" /\ sema = MAX_COUNT /\ sema' = 0
      BY <1>3 DEF GrantWrite, Available, Demand
    <2>1. rdwrQ = "LIVE" /\ writers = {} /\ reads = {} /\ sema' = 0
      BY <2>0, UnitsTell
    <2>2. writers' = {t} /\ writelock = 0
      BY <1>3, <2>1 DEF GrantWrite
    <2> QED
      BY <1>3, <2>1, <2>2 DEF GrantWrite
  <1>4. CASE GiveUp(t)
    BY <1>4 DEF GiveUp, NoCall
  <1>5. CASE SetWriteLock(t)
    <2>1. CASE call[t] \in WriteCalls
      <3>1. t \in writers /\ writelock' = 1
        BY <1>5, <2>1 DEF SetWriteLock, Flag
      <3>2. writers = {t} /\ reads = {}
        BY <3>1
      <3>3. TypeOK' /\ Dynamic' /\ Exclusion' /\ UnitsExact' /\ UnlockMatches'
        BY <1>5, <3>1 DEF SetWriteLock, NoCall
      <3>4. StageHolds' /\ FlagExact'
        BY <1>5, <3>1, <3>2 DEF SetWriteLock, NoCall
      <3> QED
        BY <1>5, <3>3, <3>4 DEF SetWriteLock
    <2>2. CASE call[t] \in ReadCalls
      \* A reader writes 0 over 0: there is no writer beside it.
      <3>1. writers = {} /\ writelock' = 0
        BY <1>5, <2>2 DEF SetWriteLock, Flag
      <3> QED
        BY <1>5, <3>1 DEF SetWriteLock, NoCall
    <2> QED
      BY <2>1, <2>2
  <1> QED
    BY <1>1, <1>2, <1>3, <1>4, <1>5 DEF Grant

LEMMA UnlockPreserves ==
    ASSUME Sound, NEW t \in Threads, UnlockTest(t) \/ UnlockSignal(t) PROVE Sound'
  <1> USE MaxCountAssumption
      DEF Sound, TypeOK, PCs, Calls, ReadCalls, WriteCalls, Dynamic, Exclusion, UnitsExact,
          UnlockMatches, StageHolds, FlagExact, Reading, Holding, Go, IsAt
  <1>1. CASE UnlockTest(t)
    <2>1. CASE t \in writers
      <3>1. writelock = 1
        BY <1>1, <2>1 DEF UnlockTest
      <3>2. units' = [units EXCEPT ![t] = MAX_COUNT] /\ writelock' = 0
        BY <1>1, <3>1 DEF UnlockTest
      <3>3. writers = {t} /\ reads = {} /\ pc' = [pc EXCEPT ![t] = "u_signal"]
        BY <1>1, <2>1 DEF UnlockTest
      <3>4. TypeOK' /\ Dynamic' /\ Exclusion' /\ UnitsExact' /\ IsFiniteSet(reads)'
        BY <1>1, <3>2, <3>3 DEF UnlockTest
      <3>5. UnlockMatches' /\ StageHolds' /\ FlagExact'
        BY <1>1, <3>2, <3>3 DEF UnlockTest
      <3> QED
        BY <3>4, <3>5
    <2>2. CASE t \notin writers
      <3>1. writers = {} /\ writelock = 0
        BY <1>1, <2>2 DEF UnlockTest
      <3> QED
        BY <1>1, <2>2, <3>1 DEF UnlockTest
    <2> QED
      BY <2>1, <2>2
  <1>2. CASE UnlockSignal(t)
    <2>1. rdwrQ = "LIVE"
      BY <1>2 DEF UnlockSignal
    <2>2. CASE t \in writers
      <3>1. writers' = {} /\ reads' = {} /\ reads = {}
        BY <1>2, <2>2 DEF UnlockSignal, Drop
      <3>2. sema = 0 /\ units[t] = MAX_COUNT
        BY <1>2, <2>1, <2>2 DEF UnlockSignal
      <3>3. sema' = MAX_COUNT
        BY <1>2, <3>2 DEF UnlockSignal, AfterSignal, SignalFits
      <3>4. Cardinality(reads') = 0
        BY <3>1, FS_EmptySet
      <3> QED
        BY <1>2, <2>1, <2>2, <3>1, <3>3, <3>4 DEF UnlockSignal
    <2>3. CASE t \notin writers
      <3>1. PICK i \in Slots : <<t, i>> \in reads /\ reads' = reads \ {<<t, i>>}
        BY <1>2, <2>3 DEF UnlockSignal, Drop
      <3>2. writers = {} /\ writers' = {}
        BY <1>2, <2>3, <3>1 DEF UnlockSignal, Drop
      <3>3. IsFiniteSet(reads') /\ Cardinality(reads') = Cardinality(reads) - 1
        BY <3>1, FS_RemoveElement
      <3>4. Cardinality(reads) \in Nat /\ Cardinality(reads') \in Nat
        BY <3>3, FS_CardinalityType
      <3>5. sema' = sema + 1 /\ sema + 1 <= MAX_COUNT
        <4>1. units[t] = 1
          BY <1>2, <2>3 DEF UnlockSignal
        <4>2. sema + 1 <= MAX_COUNT
          BY <2>1, <3>2, <3>3, <3>4
        <4> QED
          BY <1>2, <4>1, <4>2 DEF UnlockSignal, AfterSignal, SignalFits
      <3>6. UnitsExact' /\ sema' \in 0..MAX_COUNT
        BY <1>2, <2>1, <3>2, <3>3, <3>4, <3>5 DEF UnlockSignal
      <3>7. \A u \in Threads \ {t} : Reading(u) => Reading(u)'
        BY <3>1
      <3> QED
        BY <1>2, <2>1, <3>1, <3>2, <3>3, <3>6, <3>7 DEF UnlockSignal
    <2> QED
      BY <2>2, <2>3
  <1> QED
    BY <1>1, <1>2

LEMMA NextPreserves == Sound /\ [Next]_vars => Sound'
  <1> SUFFICES ASSUME Sound, [Next]_vars PROVE Sound'
    OBVIOUS
  <1>1. CASE UNCHANGED vars
    BY <1>1 DEF vars, Sound, TypeOK, Dynamic, Exclusion, UnitsExact, UnlockMatches,
                StageHolds, FlagExact, Reading, Holding
  <1>2. ASSUME NEW t \in Threads,
               \/ EnterCritical(t) \/ InitStaticCreate(t) \/ InitStaticFails(t)
               \/ InitStaticDone(t) \/ InitStaticFlag(t)
        PROVE  FALSE
    BY <1>2 DEF Sound, Dynamic, EnterCritical, InitStaticCreate, InitStaticFails,
                InitStaticDone, InitStaticFlag, Go, IsAt
  <1>3. CASE Next
    BY <1>2, <1>3, InitDestroyPreserve, LockPreserves, UnlockPreserves
    DEF Next, Running
  <1> QED
    BY <1>1, <1>3

--------------------------------------------------------------------------------
(* Static locks too.  Their initialisation may lose units, but never so that a  *)
(* writer gets in beside somebody else, if the readers do not use up all units. *)

FewReads == Cardinality(Threads \X Slots) < MAX_COUNT /\ IsFiniteSet(Threads)

Held == IF writers = {} THEN Cardinality(reads) ELSE MAX_COUNT
Exact == sema + Held = MAX_COUNT

\* A reader that has found the flag set, which init_static had not cleared yet.
GivesBackAll(t) == pc[t] = "u_signal" /\ t \notin writers /\ units[t] # 1

\* Threads hold and are in a call as the state of the object permits.
Placed == /\ rdwrQ = "STATIC" => writelock = 1
          /\ rdwrQ # "LIVE" =>
                /\ reads = {} /\ writers = {}
                /\ \A t \in Threads : pc[t] \in {"idle", "si_enter", "si_test"}
          /\ rdwrQ = "INVALID" => \A t \in Threads : pc[t] = "idle"

\* Once units are lost no writer gets in any more, and the flag stays clear.
Lossy == rdwrQ = "LIVE" =>
            /\ sema + Held <= MAX_COUNT
            /\ writers # {} \/ writelock = 1 => Exact
            /\ \A t \in writers : pc[t] = "u_signal" => writelock = 0
            /\ \A t \in Threads : GivesBackAll(t) =>
                  /\ Exact /\ writelock = 0
                  /\ \A u \in Threads : GivesBackAll(u) => u = t

Loose == TypeOK /\ IsFiniteSet(reads) /\ Exclusion /\ Placed /\ StageHolds /\ Lossy

LEMMA LooseUnits ==
    ASSUME Loose, rdwrQ = "LIVE"
    PROVE  /\ Cardinality(reads) \in Nat
           /\ sema > 0 => writers = {}
           /\ sema = MAX_COUNT => writers = {} /\ reads = {}
  <1>1. Cardinality(reads) \in Nat
    BY FS_CardinalityType DEF Loose
  <1>2. sema > 0 => writers = {}
    BY <1>1, MaxCountAssumption DEF Loose, TypeOK, Lossy, Held
  <1>3. sema = MAX_COUNT => Cardinality(reads) = 0
    BY <1>1, <1>2, MaxCountAssumption DEF Loose, TypeOK, Lossy, Held
  <1>4. Cardinality(reads) = 0 => reads = {}
    BY FS_EmptySet DEF Loose
  <1> QED
    BY <1>1, <1>2, <1>3, <1>4, MaxCountAssumption DEF Loose, TypeOK

LEMMA LooseInit == Init => Loose
  <1> SUFFICES ASSUME Init PROVE Loose
    OBVIOUS
  <1>1. IsFiniteSet(reads)
    BY FS_EmptySet DEF Init
  <1>2. rdwrQ \in {"STATIC", "INVALID"} /\ (rdwrQ = "STATIC" => static /\ writelock = 1)
    BY DEF Init, RWLOCK_SIG_
  <1>3. static \in BOOLEAN /\ writelock \in {0, 1}
    BY Zenon DEF Init, RWLOCK_SIG_
  <1>4. TypeOK
    BY <1>2, <1>3, MaxCountAssumption
    DEF Init, TypeOK, PCs, Calls, ReadCalls, WriteCalls
  <1> QED
    BY <1>1, <1>2, <1>4 DEF Init, Loose, Exclusion, Placed, StageHolds, Lossy

\* Most steps leave the holds and the units alone, and at most clear the flag.
LEMMA LooseFrame ==
    ASSUME Loose, UNCHANGED <<rdwrQ, sema, reads, writers, units>>,
           writelock' \in {0, writelock},
           \A u \in Threads : pc'[u] = "u_signal" => pc[u] = "u_signal"
    PROVE  IsFiniteSet(reads') /\ Exclusion' /\ Lossy'
  <1>1. \A u \in Threads : GivesBackAll(u)' => GivesBackAll(u)
    BY DEF GivesBackAll
  <1>2. Held' = Held /\ (Exact' <=> Exact)
    BY DEF Held, Exact
  <1>3. Lossy'
    <2>1. Lossy /\ writers \subseteq Threads /\ writelock \in {0, 1}
      BY DEF Loose, TypeOK
    <2> QED
      BY <1>1, <1>2, <2>1 DEF Lossy
  <1> QED
    BY <1>3 DEF Loose, Exclusion

LEMMA LooseFrameSteps ==
    ASSUME Loose, NEW t \in Threads,
           \/ EnterCritical(t) \/ InitStaticFails(t) \/ InitStaticDone(t)
           \/ InitStaticFlag(t) \/ GiveUp(t)
           \/ \E c \in Calls : LockCall(t, c)
           \/ SetWriteLock(t) /\ call[t] \notin WriteCalls
    PROVE  IsFiniteSet(reads') /\ Exclusion' /\ Lossy'
  <1>1. pc \in [Threads -> PCs]
    BY DEF Loose, TypeOK
  <1>2. UNCHANGED <<rdwrQ, sema, reads, writers, units>>
    BY DEF EnterCritical, InitStaticFails, InitStaticDone, InitStaticFlag, GiveUp, LockCall,
           SetWriteLock
  <1>3. writelock' \in {0, writelock}
    BY DEF EnterCritical, InitStaticFails, InitStaticDone, InitStaticFlag, GiveUp, LockCall,
           SetWriteLock, Flag
  <1>4. \A u \in Threads : pc'[u] = "u_signal" => pc[u] = "u_signal"
    BY <1>1 DEF EnterCritical, InitStaticFails, InitStaticDone, InitStaticFlag, GiveUp,
                LockCall, SetWriteLock, Go, IsAt
  <1> QED
    BY <1>2, <1>3, <1>4, LooseFrame

LEMMA LooseObject ==
    ASSUME Loose, InitRWLock \/ Destroy \/ \E t \in Threads : InitStaticCreate(t)
    PROVE  Loose'
  <1> USE MaxCountAssumption
      DEF Loose, TypeOK, PCs, Exclusion, Placed, StageHolds, Lossy, Exact, GivesBackAll,
          Reading, Holding
  <1>1. reads = {} /\ writers = {} /\ reads' = {} /\ writers' = {} /\ rdwrQ' # "STATIC"
    BY DEF InitRWLock, Destroy, InitStaticCreate, STATIC_INIT
  <1>2. Held' = 0
    BY <1>1, FS_EmptySet DEF Held
  <1>3. CASE InitRWLock
    BY <1>1, <1>2, <1>3 DEF InitRWLock
  <1>4. CASE Destroy
    BY <1>1, <1>4 DEF Destroy, NobodyInside, IsAt
  <1>5. ASSUME NEW t \in Threads, InitStaticCreate(t) PROVE Loose'
    BY <1>1, <1>2, <1>5 DEF InitStaticCreate, STATIC_INIT, Go, IsAt
  <1> QED
    BY <1>3, <1>4, <1>5

LEMMA LooseInitStatic ==
    ASSUME Loose, NEW t \in Threads,
           \/ EnterCritical(t) \/ InitStaticFails(t) \/ InitStaticDone(t)
           \/ InitStaticFlag(t)
    PROVE  Loose'
  <1> USE MaxCountAssumption
      DEF Loose, TypeOK, PCs, Calls, ReadCalls, WriteCalls, Exclusion, Placed, StageHolds,
          Lossy, Exact, Held, GivesBackAll, Reading, Holding, Go, IsAt, NoCall
  <1>1. CASE EnterCritical(t)
    <2>1. IsFiniteSet(reads') /\ Exclusion' /\ Lossy'
      BY <1>1, LooseFrameSteps
    <2>3. TypeOK' /\ Placed'
      BY <1>1 DEF EnterCritical
    <2>4. StageHolds'
      BY <1>1 DEF EnterCritical
    <2> QED
      BY <2>1, <2>3, <2>4
  <1>2. CASE InitStaticFails(t)
    <2>1. IsFiniteSet(reads') /\ Exclusion' /\ Lossy'
      BY <1>2, LooseFrameSteps
    <2>3. TypeOK' /\ Placed'
      BY <1>2 DEF InitStaticFails
    <2>4. StageHolds'
      BY <1>2 DEF InitStaticFails
    <2> QED
      BY <2>1, <2>3, <2>4
  <1>3. CASE InitStaticDone(t)
    <2>1. IsFiniteSet(reads') /\ Exclusion' /\ Lossy'
      BY <1>3, LooseFrameSteps
    <2>2. rdwrQ = "LIVE"
      BY <1>3 DEF InitStaticDone, STATIC_INIT, RWLOCK_SIG_
    <2>3. TypeOK' /\ Placed'
      BY <1>3, <2>2 DEF InitStaticDone
    <2>4. StageHolds'
      BY <1>3 DEF InitStaticDone
    <2> QED
      BY <2>1, <2>3, <2>4
  <1>4. CASE InitStaticFlag(t)
    <2>1. IsFiniteSet(reads') /\ Exclusion' /\ Lossy'
      BY <1>4, LooseFrameSteps
    <2>2. rdwrQ = "LIVE"
      BY <1>4 DEF InitStaticFlag
    <2> QED
      BY <1>4, <2>1, <2>2 DEF InitStaticFlag
  <1> QED
    BY <1>1, <1>2, <1>3, <1>4

LEMMA LooseLock ==
    ASSUME Loose, NEW t \in Threads,
           (\E c \in Calls : LockCall(t, c)) \/ Grant(t) \/ GiveUp(t) \/ SetWriteLock(t)
    PROVE  Loose'
  <1> USE MaxCountAssumption
      DEF Loose, TypeOK, PCs, Calls, ReadCalls, WriteCalls, Exclusion, Placed, StageHolds,
          Lossy, Exact, Held, GivesBackAll, Reading, Holding, Go, IsAt, NoCall
  <1>1. ASSUME NEW c \in Calls, LockCall(t, c) PROVE Loose'
    <2>1. IsFiniteSet(reads') /\ Exclusion' /\ Lossy'
      BY <1>1, LooseFrameSteps
    <2>2. TypeOK' /\ Placed'
      BY <1>1 DEF LockCall, STATIC_INIT, RWLOCK_SIG_
    <2>3. StageHolds'
      BY <1>1 DEF LockCall
    <2> QED
      BY <2>1, <2>2, <2>3
  <1>2. CASE GrantRead(t)
    <2>1. rdwrQ = "LIVE" /\ sema >= 1 /\ sema' = sema - 1
      BY <1>2 DEF GrantRead, Available, Demand
    <2>2. writers = {} /\ writers' = {}
      BY <1>2, <2>1, LooseUnits DEF GrantRead
    <2>3. PICK i \in Slots : <<t, i>> \notin reads /\ reads' = reads \cup {<<t, i>>}
      BY <1>2 DEF GrantRead
    <2>4. /\ IsFiniteSet(reads') /\ Cardinality(reads') = Cardinality(reads) + 1
          /\ Cardinality(reads) \in Nat
      BY <2>3, FS_AddElement, FS_CardinalityType
    <2>5. sema' + Held' = sema + Held
      BY <2>1, <2>2, <2>4
    <2>6. TypeOK' /\ Exclusion' /\ Placed'
      BY <1>2, <2>1, <2>2, <2>3 DEF GrantRead
    <2>7. StageHolds'
      BY <1>2, <2>2, <2>3 DEF GrantRead
    <2>8. Lossy'
      BY <1>2, <2>1, <2>2, <2>5 DEF GrantRead
    <2> QED
      BY <2>4, <2>6, <2>7, <2>8
  <1>3. CASE GrantWrite(t)
    <2>1. rdwrQ = "LIVE" /\ sema = MAX_COUNT /\ sema' = 0
      BY <1>3 DEF GrantWrite, Available, Demand
    <2>2. writers = {} /\ reads = {} /\ writers' = {t} /\ reads' = {}
      BY <1>3, <2>1, LooseUnits DEF GrantWrite
    <2>3. \A u \in Threads : ~ GivesBackAll(u)
      BY <2>2
    <2>4. TypeOK' /\ Exclusion' /\ Placed' /\ StageHolds'
      BY <1>3, <2>1, <2>2 DEF GrantWrite
    <2>5. Held' = MAX_COUNT /\ \A u \in Threads : ~ GivesBackAll(u)'
      BY <1>3, <2>2, <2>3 DEF GrantWrite
    <2>6. Lossy'
      BY <1>3, <2>1, <2>2, <2>5 DEF GrantWrite
    <2> QED
      BY <1>3, <2>2, <2>4, <2>6 DEF GrantWrite
  <1>4. CASE GiveUp(t)
    <2>1. IsFiniteSet(reads') /\ Exclusion' /\ Lossy'
      BY <1>4, LooseFrameSteps
    <2>3. TypeOK' /\ Placed'
      BY <1>4 DEF GiveUp
    <2>4. StageHolds'
      BY <1>4 DEF GiveUp
    <2> QED
      BY <2>1, <2>3, <2>4
  <1>5. CASE SetWriteLock(t)
    <2>1. CASE call[t] \in WriteCalls
      <3>1. t \in writers /\ writers = {t} /\ reads = {} /\ writelock' = 1
        BY <1>5, <2>1 DEF SetWriteLock, Flag
      <3>2. \A u \in Threads : ~ GivesBackAll(u)
        BY <3>1
      <3>3. TypeOK' /\ Exclusion' /\ Placed' /\ StageHolds'
        BY <1>5, <3>1 DEF SetWriteLock
      <3>4. Lossy'
        BY <1>5, <3>1, <3>2 DEF SetWriteLock
      <3> QED
        BY <1>5, <3>3, <3>4 DEF SetWriteLock
    <2>2. CASE call[t] \notin WriteCalls
      <3>1. writelock' = 0
        BY <1>5, <2>2 DEF SetWriteLock, Flag
      <3>2. IsFiniteSet(reads') /\ Exclusion' /\ Lossy'
        BY <1>5, <2>2, LooseFrameSteps
      <3>3. TypeOK'
        BY <1>5, <3>1 DEF SetWriteLock
      <3>4. Placed' /\ StageHolds'
        BY <1>5, <2>2 DEF SetWriteLock
      <3> QED
        BY <3>2, <3>3, <3>4
    <2> QED
      BY <2>1, <2>2
  <1> QED
    BY <1>1, <1>2, <1>3, <1>4, <1>5 DEF Grant

LEMMA LooseUnlockTest ==
    ASSUME Loose, NEW t \in Threads, UnlockTest(t) PROVE Loose'
  <1> USE MaxCountAssumption DEF Loose, TypeOK, PCs, Placed, Go, IsAt
  <1>1. /\ rdwrQ = "LIVE" /\ Holding(t) /\ writelock' = 0
        /\ pc' = [pc EXCEPT ![t] = "u_signal"]
        /\ units' = [units EXCEPT ![t] = IF writelock # 0 THEN MAX_COUNT ELSE 1]
        /\ UNCHANGED <<static, rdwrQ, sema, critical, call, reads, writers>>
    BY DEF UnlockTest, Holding, Reading
  <1>2. TypeOK' /\ Placed' /\ IsFiniteSet(reads')
    BY <1>1
  <1>3. Exclusion' /\ StageHolds'
    BY <1>1 DEF Exclusion, StageHolds, Holding, Reading
  <1>4. Held' = Held /\ (Exact' <=> Exact)
    BY <1>1 DEF Held, Exact
  <1>5. \A u \in Threads \ {t} : GivesBackAll(u)' <=> GivesBackAll(u)
    BY <1>1 DEF GivesBackAll
  <1>6. GivesBackAll(t)' => t \notin writers /\ writelock = 1
    BY <1>1 DEF GivesBackAll
  <1>7. Lossy'
    BY <1>1, <1>4, <1>5, <1>6 DEF Lossy
  <1> QED
    BY <1>2, <1>3, <1>7

LEMMA ReadsFew == FewReads /\ Loose => Cardinality(reads) < MAX_COUNT
  <1> SUFFICES ASSUME FewReads, Loose PROVE Cardinality(reads) < MAX_COUNT
    OBVIOUS
  <1>1. IsFiniteSet(Slots)
    BY FS_Interval, MaxReadsAssumption DEF Slots
  <1>2. IsFiniteSet(Threads \X Slots)
    BY <1>1, FS_Product DEF FewReads
  <1>3. /\ Cardinality(reads) \in Nat /\ Cardinality(Threads \X Slots) \in Nat
        /\ Cardinality(reads) <= Cardinality(Threads \X Slots)
    BY <1>2, FS_Subset, FS_CardinalityType DEF Loose, TypeOK
  <1> QED
    BY <1>3, MaxCountAssumption DEF FewReads

\* Units are lost here, when the signal is refused or gives back too few.
LEMMA LooseUnlockSignal ==
    ASSUME FewReads, Loose, NEW t \in Threads, UnlockSignal(t) PROVE Loose'
  <1> USE MaxCountAssumption DEF Loose, TypeOK, PCs, Placed, Go, IsAt
  <1>1. /\ pc[t] = "u_signal" /\ rdwrQ = "LIVE"
        /\ pc' = [pc EXCEPT ![t] = "idle"] /\ units' = [units EXCEPT ![t] = 1]
        /\ sema' = AfterSignal(sema, units[t], MAX_COUNT)
        /\ UNCHANGED <<static, rdwrQ, writelock, critical, call>>
    BY DEF UnlockSignal
  <1>2. \A u \in Threads : GivesBackAll(u)' => u # t /\ pc[u] = "u_signal" /\ units[u] # 1
    BY <1>1 DEF GivesBackAll
  <1>3. CASE t \in writers
    <2>1. writers = {t} /\ reads = {} /\ writers' = {} /\ reads' = {}
      BY <1>3 DEF UnlockSignal, Drop, Exclusion
    <2>2. sema = 0 /\ writelock = 0
      BY <1>1, <1>3, <2>1 DEF Lossy, Exact, Held
    <2>3. Held' = 0
      BY <2>1, FS_EmptySet DEF Held
    <2>4. sema' \in 0..MAX_COUNT
      BY <1>1, <2>2 DEF AfterSignal, SignalFits
    <2>5. TypeOK' /\ Placed' /\ Exclusion' /\ IsFiniteSet(reads')
      BY <1>1, <2>1, <2>4 DEF Exclusion
    <2>7. StageHolds'
      BY <1>1, <2>1 DEF StageHolds, Holding, Reading
    <2>8. \A u \in Threads : ~ GivesBackAll(u)'
      BY <1>2, <2>1 DEF StageHolds, Holding, Reading
    <2>9. Lossy'
      BY <1>1, <2>1, <2>2, <2>3, <2>4, <2>8 DEF Lossy
    <2> QED
      BY <2>5, <2>7, <2>9
  <1>4. CASE t \notin writers
    <2>1. PICK i \in Slots : <<t, i>> \in reads /\ reads' = reads \ {<<t, i>>}
      BY <1>4 DEF UnlockSignal, Drop
    <2>2. writers = {} /\ writers' = {}
      BY <1>4, <2>1 DEF UnlockSignal, Drop, Exclusion
    <2>3. IsFiniteSet(reads') /\ Cardinality(reads') = Cardinality(reads) - 1
      BY <2>1, FS_RemoveElement
    <2>4. Cardinality(reads) \in Nat /\ Cardinality(reads') \in Nat
      BY <2>3, FS_CardinalityType
    <2>5. Held = Cardinality(reads) /\ Held' = Cardinality(reads) - 1
      BY <2>2, <2>3 DEF Held
    <2>6. Exclusion'
      BY <2>2 DEF Exclusion
    <2>7. StageHolds'
      <3>1. \A u \in Threads \ {t} : Reading(u) => Reading(u)'
        BY <2>1 DEF Reading
      <3> QED
        BY <1>1, <2>2, <3>1 DEF StageHolds, Holding
    <2>8. CASE units[t] = 1
      <3>1. sema' = sema + 1 /\ sema' \in 0..MAX_COUNT
        <4>1. sema + Cardinality(reads) <= MAX_COUNT
          BY <1>1, <2>5 DEF Lossy
        <4>2. Cardinality(reads) >= 1 /\ sema \in Nat
          BY <2>3, <2>4
        <4> QED
          BY <1>1, <2>4, <2>8, <4>1, <4>2 DEF AfterSignal, SignalFits
      <3>2. TypeOK' /\ Placed'
        BY <1>1, <2>1, <2>2, <3>1
      <3>3. \A u \in Threads : GivesBackAll(u)' => GivesBackAll(u)
        BY <1>2, <2>2 DEF GivesBackAll
      <3>4. sema' + Held' = sema + Held
        BY <2>4, <2>5, <3>1
      <3>5. Lossy'
        BY <1>1, <2>2, <3>3, <3>4 DEF Lossy, Exact
      <3> QED
        BY <2>3, <2>6, <2>7, <3>2, <3>5
    <2>9. CASE units[t] # 1
      <3>1. GivesBackAll(t) /\ units[t] = MAX_COUNT
        BY <1>1, <1>4, <2>9 DEF GivesBackAll
      <3>2. Exact /\ writelock = 0 /\ \A u \in Threads : GivesBackAll(u) => u = t
        BY <1>1, <3>1 DEF Lossy
      <3>3. Cardinality(reads) < MAX_COUNT
        BY <2>4, ReadsFew
      <3>4. sema' = sema
        BY <1>1, <2>4, <2>5, <3>1, <3>2, <3>3 DEF Exact, AfterSignal, SignalFits
      <3>5. TypeOK' /\ Placed'
        BY <1>1, <2>1, <2>2, <3>4
      <3>6. \A u \in Threads : ~ GivesBackAll(u)'
        BY <1>2, <2>2, <3>2 DEF GivesBackAll
      <3>7. Lossy'
        BY <1>1, <2>2, <2>4, <2>5, <3>2, <3>4, <3>6 DEF Lossy, Exact
      <3> QED
        BY <2>3, <2>6, <2>7, <3>5, <3>7
    <2> QED
      BY <2>8, <2>9
  <1> QED
    BY <1>3, <1>4

LEMMA LooseNext == FewReads /\ Loose /\ [Next]_vars => Loose'
  <1> SUFFICES ASSUME FewReads, Loose, [Next]_vars PROVE Loose'
    OBVIOUS
  <1>1. CASE UNCHANGED vars
    BY <1>1 DEF vars, Loose, TypeOK, Exclusion, Placed, StageHolds, Lossy, Exact, Held,
                GivesBackAll, Reading, Holding
  <1>2. CASE Next
    BY <1>2, LooseObject, LooseInitStatic, LooseLock, LooseUnlockTest, LooseUnlockSignal
    DEF Next, Running
  <1> QED
    BY <1>1, <1>2

LEMMA StaticKept == [Next]_vars => UNCHANGED static
  BY DEF Next, vars, InitRWLock, Destroy, LockCall, EnterCritical, Grant, GrantRead,
         GrantWrite, GiveUp, UnlockTest, Running, InitStaticCreate, InitStaticFails,
         InitStaticDone, InitStaticFlag, SetWriteLock, UnlockSignal

LEMMA Inductive == Spec => []IInv
  <1>1. Init => IInv
    BY InitEstablishes DEF IInv, Init
  <1>2. IInv /\ [Next]_vars => IInv'
    BY NextPreserves, StaticKept DEF IInv
  <1> QED
    BY <1>1, <1>2, PTL DEF Spec

--------------------------------------------------------------------------------
\* A writer excludes writers and readers, of a static lock too, although its units may
\* be lost: for any threads that do not make MAX_COUNT (2^31 - 1) read locks at once.
THEOREM WritersAlone == FewReads => (Spec => []Exclusion)
  <1> SUFFICES ASSUME FewReads PROVE Spec => []Exclusion
    OBVIOUS
  <1>1. Loose => Exclusion
    BY DEF Loose
  <1>2. Loose /\ [Next]_vars => Loose'
    BY LooseNext
  <1> QED
    BY <1>1, <1>2, LooseInit, PTL DEF Spec

\* The semaphore always accounts for exactly the present holders.
THEOREM UnitsAccounted == Spec => []UnitsExact
  <1>1. IInv => UnitsExact
    BY DEF IInv, Sound, UnitsExact
  <1> QED
    BY Inductive, <1>1, PTL

\* unlock finds in writelock what kind of lock its caller holds.
THEOREM UnlockFindsKind == Spec => []UnlockMatches
  <1>1. IInv => UnlockMatches
    BY DEF IInv, Sound, UnlockMatches
  <1> QED
    BY Inductive, <1>1, PTL
================================================================================
