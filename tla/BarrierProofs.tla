----------------------------- MODULE BarrierProofs -----------------------------
(***************************************************************************)
(* Proofs about Barrier for every finite set of threads and every count.   *)
(***************************************************************************)
EXTENDS Barrier, FiniteSetTheorems, TLAPS

\* The signal of the last arrival is never refused by the kernel
\* (pthread_barrier.c:159-160 checks that it succeeds).
SignalSucceeds ==
    \A t \in Threads : pc[t] = "arrive" /\ ~Early => SignalFits(queue, Releases, Count)

\* With more threads than this the queue semaphore can overflow: see the
\* counterexample to SignalSucceeds.
FewThreads == Cardinality(Threads) <= Count + 1

InControl(t) == pc[t] \in {"arrive", "unlock_wait", "unlock_serial"}

\* The control semaphore is a lock around the arrivals.
ControlExact == /\ \A t \in Threads : InControl(t) => control = 0
                /\ \A s, t \in Threads : InControl(s) /\ InControl(t) => s = t

\* The returns still due are the units in the queue and the serial thread's own.
PermitsExact == /\ (\E t \in Threads : pc[t] = "unlock_serial") => permits = queue + 1
                /\ (\A t \in Threads : pc[t] # "unlock_serial") => permits = queue

\* Nobody is inside of a barrier that does not exist.
Quiet == ~valid => /\ \A t \in Threads : pc[t] = "idle"
                   /\ count = 0 /\ queue = 0

IInv == TypeOK /\ ControlExact /\ Conservation /\ PermitsExact /\ Quiet

--------------------------------------------------------------------------------
(* Pending is finite, and loses or gains one thread at a time. *)

LEMMA PendingFinite ==
    /\ IsFiniteSet(Pending) /\ Cardinality(Pending) \in Nat
    /\ Cardinality(Pending) <= Cardinality(Threads)
  <1>1. Pending \subseteq Threads
    BY DEF Pending
  <1> QED
    BY <1>1, ThreadsAssumption, FS_Subset, FS_CardinalityType

LEMMA PendingKept ==
    ASSUME NEW t \in Threads, pc \in [Threads -> PCs], NEW p \in PCs,
           pc' = [pc EXCEPT ![t] = p],
           pc[t] \in {"unlock_wait", "wait"} <=> p \in {"unlock_wait", "wait"}
    PROVE  Pending' = Pending
  BY DEF Pending

LEMMA PendingGains ==
    ASSUME NEW t \in Threads, pc \in [Threads -> PCs], pc[t] = "arrive",
           pc' = [pc EXCEPT ![t] = "unlock_wait"]
    PROVE  Cardinality(Pending') = Cardinality(Pending) + 1
  <1>1. Pending' = Pending \cup {t} /\ t \notin Pending
    BY DEF Pending
  <1> QED
    BY <1>1, PendingFinite, FS_AddElement

LEMMA PendingLoses ==
    ASSUME NEW t \in Threads, pc \in [Threads -> PCs], pc[t] = "wait",
           pc' = [pc EXCEPT ![t] = "idle"]
    PROVE  Cardinality(Pending') = Cardinality(Pending) - 1
  <1>1. Pending' = Pending \ {t} /\ t \in Pending
    BY DEF Pending
  <1> QED
    BY <1>1, PendingFinite, FS_RemoveElement

\* A thread that is not pending leaves at most Count others to be.
LEMMA PendingBounded ==
    ASSUME FewThreads, NEW t \in Threads, t \notin Pending
    PROVE  Cardinality(Pending) <= Count
  <1>1. Cardinality(Threads \ {t}) = Cardinality(Threads) - 1
    BY ThreadsAssumption, FS_RemoveElement
  <1>2. IsFiniteSet(Threads \ {t})
    BY ThreadsAssumption, FS_RemoveElement
  <1>3. Pending \subseteq Threads \ {t}
    BY DEF Pending
  <1>4. Cardinality(Pending) <= Cardinality(Threads \ {t})
    BY <1>2, <1>3, FS_Subset
  <1>5. Cardinality(Threads) \in Nat /\ Cardinality(Pending) \in Nat
    BY ThreadsAssumption, FS_CardinalityType, PendingFinite
  <1> QED
    BY <1>1, <1>4, <1>5, CountAssumption DEF FewThreads

--------------------------------------------------------------------------------
\* With at most Count + 1 threads the queue has at most one unit left when a group
\* completes, so that the Count - 1 units of the signal fit under its maximum.
LEMMA LastSignalFits == FewThreads /\ IInv => SignalSucceeds
  <1> SUFFICES ASSUME FewThreads, IInv, NEW t \in Threads, pc[t] = "arrive", ~Early
               PROVE  SignalFits(queue, Releases, Count)
    BY DEF SignalSucceeds
  <1>1. Cardinality(Pending) <= Count
    <2>1. t \notin Pending
      BY DEF Pending
    <2> QED
      BY <2>1, PendingBounded
  <1>2. count = Count - 1
    BY CountAssumption DEF IInv, TypeOK, Early
  <1>3. queue <= 1
    BY <1>1, <1>2, PendingFinite, CountAssumption DEF IInv, TypeOK, Conservation
  <1> QED
    BY <1>3, CountAssumption DEF IInv, TypeOK, SignalFits, Releases

LEMMA InitEstablishes == Init => IInv
  <1> SUFFICES ASSUME Init PROVE IInv
    OBVIOUS
  <1>1. Pending = {}
    BY DEF Init, Pending
  <1>2. Conservation
    BY <1>1, FS_EmptySet DEF Init, Conservation
  <1>3. TypeOK
    <2>1. valid \in BOOLEAN
      BY Zenon DEF Init
    <2> QED
      BY <2>1, CountAssumption DEF Init, TypeOK, PCs
  <1>4. ControlExact /\ Quiet
    BY DEF Init, ControlExact, InControl, Quiet
  <1>5. PermitsExact
    BY DEF Init, PermitsExact
  <1> QED
    BY <1>2, <1>3, <1>4, <1>5 DEF IInv

LEMMA NextPreserves == FewThreads /\ IInv /\ [Next]_vars => IInv'
  <1> SUFFICES ASSUME FewThreads, IInv, [Next]_vars PROVE IInv'
    OBVIOUS
  <1> USE CountAssumption, PendingFinite
      DEF IInv, TypeOK, PCs, ControlExact, InControl, Conservation, PermitsExact, Quiet, Go, IsAt
  <1>1. CASE InitBarrier
    <2>1. Pending' = Pending
      BY <1>1 DEF InitBarrier, Pending
    <2> QED
      BY <1>1, <2>1 DEF InitBarrier
  <1>2. CASE DestroyBarrier
    <2>1. Pending = {} /\ Pending' = {}
      BY <1>2 DEF DestroyBarrier, NobodyInside, Pending
    <2>2. count = 0 /\ queue = 0
      BY <2>1, FS_EmptySet
    <2> QED
      BY <1>2, <2>1, <2>2 DEF DestroyBarrier, NobodyInside
  <1>3. ASSUME NEW t \in Threads, WaitCall(t) PROVE IInv'
    <2>1. Pending' = Pending
      BY <1>3, PendingKept DEF WaitCall
    <2> QED
      BY <1>3, <2>1 DEF WaitCall
  <1>4. ASSUME NEW t \in Threads, LockControl(t) PROVE IInv'
    <2>1. Pending' = Pending
      BY <1>4, PendingKept DEF LockControl
    <2> QED
      BY <1>4, <2>1 DEF LockControl, Available
  <1>5. ASSUME NEW t \in Threads, ArriveEarly(t) PROVE IInv'
    <2>1. Cardinality(Pending') = Cardinality(Pending) + 1
      BY <1>5, PendingGains DEF ArriveEarly
    <2> QED
      BY <1>5, <2>1 DEF ArriveEarly, Early
  <1>6. ASSUME NEW t \in Threads, ArriveLast(t) PROVE IInv'
    <2>1. Pending' = Pending
      BY <1>6, PendingKept DEF ArriveLast
    <2>2. queue' = queue + (Count - 1) /\ queue' <= Count
      BY <1>6, LastSignalFits
      DEF ArriveLast, SignalSucceeds, AfterSignal, SignalFits, Releases
    <2>3. count = Count - 1
      BY <1>6 DEF ArriveLast, Early
    <2> QED
      BY <1>6, <2>1, <2>2, <2>3 DEF ArriveLast
  <1>7. ASSUME NEW t \in Threads, UnlockEarly(t) PROVE IInv'
    <2>1. Pending' = Pending
      BY <1>7, PendingKept DEF UnlockEarly
    <2> QED
      BY <1>7, <2>1 DEF UnlockEarly
  <1>8. ASSUME NEW t \in Threads, ReturnEarly(t) PROVE IInv'
    <2>1. Cardinality(Pending') = Cardinality(Pending) - 1
      BY <1>8, PendingLoses DEF ReturnEarly
    <2> QED
      BY <1>8, <2>1 DEF ReturnEarly, Available
  <1>9. ASSUME NEW t \in Threads, ReturnSerial(t) PROVE IInv'
    <2>1. Pending' = Pending
      BY <1>9, PendingKept DEF ReturnSerial
    <2> QED
      BY <1>9, <2>1 DEF ReturnSerial
  <1>10. CASE UNCHANGED vars
    BY <1>10 DEF vars, Pending
  <1> QED
    BY <1>1, <1>2, <1>3, <1>4, <1>5, <1>6, <1>7, <1>8, <1>9, <1>10 DEF Next, Running

LEMMA Inductive == FewThreads => (Spec => []IInv)
  <1> SUFFICES ASSUME FewThreads PROVE Spec => []IInv
    OBVIOUS
  <1>1. IInv /\ [Next]_vars => IInv'
    BY NextPreserves
  <1> QED
    BY InitEstablishes, <1>1, PTL DEF Spec

--------------------------------------------------------------------------------
\* No wake-up is lost or invented, for every count and up to Count + 1 threads.
THEOREM WakeupsConserved == FewThreads => (Spec => []Conservation)
  <1>1. IInv => Conservation
    BY DEF IInv
  <1> QED
    BY Inductive, <1>1, PTL

\* Under the same condition the kernel never refuses the signal of a last arrival.
THEOREM NoOverflow == FewThreads => (Spec => []SignalSucceeds)
  <1> SUFFICES ASSUME FewThreads PROVE Spec => []SignalSucceeds
    OBVIOUS
  <1>1. IInv => SignalSucceeds
    BY LastSignalFits
  <1> QED
    BY Inductive, <1>1, PTL

\* Waits return only for complete groups of Count arrivals.
THEOREM ReturnsArePermitted == FewThreads => (Spec => []NoEarlyReturn)
  <1>1. IInv => NoEarlyReturn
    BY CountAssumption DEF IInv, TypeOK, PermitsExact, NoEarlyReturn
  <1> QED
    BY Inductive, <1>1, PTL
================================================================================
