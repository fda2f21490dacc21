------------------------------- MODULE SpinProofs -------------------------------
(* The spin lock is a lock, for any number of threads, any order of their      *)
(* accesses and any loss of reservations.                                      *)
EXTENDS Spin, TLAPS

\* The word is locked exactly while somebody has the lock: no store of a thread
\* that spins, or that lost a race, sets or clears the bit for somebody else.
WordExact == (lock = 1) <=> \E t \in Threads : held[t] = 1

\* The reservations are what makes the word exact: while a thread between ldrex
\* and strex has one, the word still holds the value it compared.
ReservedSame == \A t \in Threads : t \in reserved /\ pc[t] = "strex" => lock = t1[t]

AtMostOne == \A s, t \in Threads : held[s] = 1 /\ held[t] = 1 => s = t

\* Only a holder unlocks and only a thread that does not hold the lock locks it.
CallsSound == \A t \in Threads :
    pc[t] # "idle" => lock # INVALID /\ held[t] = IF op[t] = "unlock" THEN 1 ELSE 0

IInv == TypeOK /\ WordExact /\ ReservedSame /\ AtMostOne /\ CallsSound

LEMMA InitEstablishes == Init => IInv
  BY DEF Init, IInv, TypeOK, WordExact, ReservedSame, AtMostOne, CallsSound,
         INVALID, PCs, Calls

\* What a store that succeeds does: a locker or trylocker takes the free lock or
\* leaves the locked word as it was, and the holder frees it.
LEMMA StoreEffect ==
    ASSUME IInv, NEW t \in Threads, StrexSucceeds(t)
    PROVE  /\ lock = t1[t] /\ lock \in {0, 1}
           /\ op[t] = "unlock" => lock = 1 /\ lock' = 0 /\ held' = [held EXCEPT ![t] = 0]
           /\ op[t] # "unlock" /\ lock = 0 => lock' = 1 /\ held' = [held EXCEPT ![t] = 1]
           /\ op[t] # "unlock" /\ lock = 1 => lock' = 1 /\ held' = held
  <1>1. lock = t1[t] /\ lock \in {0, 1}
    BY DEF IInv, StrexSucceeds, Store, Go, IsAt, ReservedSame, CallsSound, TypeOK, INVALID
  <1>2. op[t] = "unlock" => lock = 1
    BY DEF IInv, StrexSucceeds, Store, Go, IsAt, CallsSound, WordExact
  <1>3. Bit(0) = 0 /\ Bit(1) = 1
    BY DEF Bit
  <1>4. /\ lock = 0 => Set(lock) = 1
        /\ lock = 1 => Set(lock) = 1 /\ Flip(lock) = 0
    BY <1>3 DEF Set, Flip
  <1>5. held' = [held EXCEPT ![t] = HeldAfter(t)] /\ lock' = Desired(t, lock)
    BY <1>1 DEF StrexSucceeds, Store
  <1>6. held[t] = IF op[t] = "unlock" THEN 1 ELSE 0
    BY DEF IInv, StrexSucceeds, Store, Go, IsAt, CallsSound
  <1>7. CASE op[t] = "unlock"
    <2>1. HeldAfter(t) = 0
      BY <1>1, <1>2, <1>3, <1>7, <1>6 DEF HeldAfter
    <2> QED
      BY <1>1, <1>2, <1>4, <1>5, <1>7, <2>1 DEF Desired
  <1>8. CASE op[t] # "unlock" /\ lock = 0
    <2>1. HeldAfter(t) = 1
      BY <1>1, <1>3, <1>8, <1>6 DEF HeldAfter
    <2> QED
      BY <1>1, <1>4, <1>5, <1>8, <2>1 DEF Desired
  <1>9. CASE op[t] # "unlock" /\ lock = 1
    <2>1. HeldAfter(t) = held[t]
      BY <1>1, <1>3, <1>9 DEF HeldAfter
    <2>2. held' = held
      BY <1>5, <2>1 DEF IInv, TypeOK
    <2> QED
      BY <1>1, <1>4, <1>5, <1>9, <2>2 DEF Desired
  <1> QED
    BY <1>1, <1>2, <1>7, <1>8, <1>9

LEMMA StorePreserves ==
    ASSUME IInv, NEW t \in Threads, StrexSucceeds(t)
    PROVE  IInv'
  <1> USE StoreEffect
  <1>1. /\ reserved' = {} /\ UNCHANGED <<op, t1>> /\ pc[t] = "strex"
        /\ pc' = [pc EXCEPT ![t] = AfterStore(t)] /\ AfterStore(t) \in {"load", "idle"}
        /\ AfterStore(t) = "load" => op[t] = "lock" /\ lock = 1
    <2>1. t1[t] = 1 <=> Bit(t1[t]) = 1
      BY DEF Bit
    <2> QED
      BY <2>1 DEF StrexSucceeds, Store, Go, IsAt, AfterStore
  <1>2. TypeOK'
    BY <1>1 DEF IInv, TypeOK, PCs, Calls, INVALID
  <1>3. WordExact' /\ AtMostOne'
    <2>1. CASE op[t] = "unlock"
      <3>1. held[t] = 1 /\ held' = [held EXCEPT ![t] = 0] /\ lock' = 0
        BY <1>1, <2>1 DEF IInv, CallsSound
      <3>2. \A s \in Threads \ {t} : held[s] = 0
        BY <3>1 DEF IInv, TypeOK, AtMostOne
      <3> QED
        BY <3>1, <3>2 DEF IInv, TypeOK, WordExact, AtMostOne
    <2>2. CASE op[t] # "unlock" /\ lock = 0
      BY <2>2, <1>1 DEF IInv, TypeOK, WordExact, AtMostOne
    <2>3. CASE op[t] # "unlock" /\ lock = 1
      BY <2>3, <1>1 DEF IInv, TypeOK, WordExact, AtMostOne
    <2> QED
      BY <2>1, <2>2, <2>3
  <1>4. ReservedSame'
    BY <1>1 DEF ReservedSame
  <1>5. CallsSound'
    BY <1>1 DEF IInv, TypeOK, CallsSound, INVALID
  <1> QED
    BY <1>2, <1>3, <1>4, <1>5 DEF IInv

LEMMA NextPreserves == IInv /\ [Next]_vars => IInv'
  <1> SUFFICES ASSUME IInv, [Next]_vars PROVE IInv'
    OBVIOUS
  <1> USE DEF IInv, TypeOK, WordExact, ReservedSame, AtMostOne, CallsSound,
              INVALID, PCs, Calls
  <1>1. CASE InitLock
    BY <1>1 DEF InitLock, Unused
  <1>2. CASE Destroy
    BY <1>2 DEF Destroy, Unused
  <1>3. ASSUME NEW t \in Threads, NEW c \in Calls, Call(t, c) PROVE IInv'
    BY <1>3 DEF Call, CallerMay, Go, IsAt
  <1>4. ASSUME NEW t \in Threads, Load(t) PROVE IInv'
    BY <1>4 DEF Load, Go, IsAt
  <1>5. ASSUME NEW t \in Threads, LdrexSame(t) PROVE IInv'
    BY <1>5 DEF LdrexSame, Go, IsAt
  <1>6. ASSUME NEW t \in Threads, LdrexDiffers(t) PROVE IInv'
    BY <1>6 DEF LdrexDiffers
  <1>7. ASSUME NEW t \in Threads, StrexFails(t) PROVE IInv'
    BY <1>7 DEF StrexFails, Go, IsAt
  <1>8. ASSUME NEW t \in Threads, LoseReservation(t) PROVE IInv'
    BY <1>8 DEF LoseReservation
  <1>9. ASSUME NEW t \in Threads, StrexSucceeds(t) PROVE IInv'
    BY <1>9, StorePreserves
  <1>10. CASE UNCHANGED vars
    BY <1>10 DEF vars
  <1> QED
    BY <1>1, <1>2, <1>3, <1>4, <1>5, <1>6, <1>7, <1>8, <1>9, <1>10 DEF Next, Running

LEMMA Inductive == Spec => []IInv
  BY InitEstablishes, NextPreserves, PTL DEF Spec

--------------------------------------------------------------------------------
\* The bit is set exactly while somebody has the lock.
THEOREM WordIsExact == Spec => []WordExact
  <1>1. IInv => WordExact
    BY DEF IInv
  <1> QED
    BY Inductive, <1>1, PTL

LEMMA StepRefines == IInv /\ [Next]_vars => [Abstract!Next]_<<held, "NORMAL">>
  <1> SUFFICES ASSUME IInv, [Next]_vars PROVE Abstract!Next \/ UNCHANGED held
    OBVIOUS
  <1> USE DEF Abstract!Next
  <1>1. ASSUME NEW t \in Threads, StrexSucceeds(t)
        PROVE  Abstract!Acquire(t) \/ Abstract!Release(t) \/ UNCHANGED held
    <2>1. CASE op[t] = "unlock"
      <3>1. held[t] = 1 /\ held' = [held EXCEPT ![t] = 0]
        BY <1>1, <2>1, StoreEffect DEF IInv, CallsSound, StrexSucceeds, Store, Go, IsAt
      <3> QED
        BY <3>1 DEF Abstract!Release
    <2>2. CASE op[t] # "unlock" /\ lock = 0
      BY <1>1, <2>2, StoreEffect DEF Abstract!Acquire, Abstract!Free, IInv, WordExact, TypeOK
    <2> QED
      BY <1>1, <2>1, <2>2, StoreEffect
  <1>2. ASSUME NEW t \in Threads,
               \/ Running(t) \/ LoseReservation(t)
               \/ \E c \in Calls : Call(t, c)
        PROVE  UNCHANGED held
    BY <1>2 DEF Running, Load, LdrexSame, LdrexDiffers, StrexFails, LoseReservation, Call
  <1>3. CASE InitLock \/ Destroy \/ UNCHANGED vars
    BY <1>3 DEF InitLock, Destroy, vars
  <1> QED
    BY <1>1, <1>2, <1>3 DEF Next

\* Every behaviour of the ldrex/strex loops is one of the abstract lock: no lost
\* or repeated store gives the lock to two threads or to none.
THEOREM RefinesLock == Spec => ImplementsLock
  <1>1. Init => Abstract!Init
    BY DEF Init, Abstract!Init
  <1> QED
    BY <1>1, StepRefines, Inductive, PTL DEF Spec, ImplementsLock, Abstract!Spec
================================================================================
