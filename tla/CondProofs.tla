------------------------------- MODULE CondProofs -------------------------------
(***************************************************************************)
(* Proofs about Cond for every finite set of threads, with and without the *)
(* static initialiser, timeouts and cancellation.                          *)
(***************************************************************************)
EXTENDS Cond, FiniteSetTheorems, TLAPS

\* One thread at a time changes NbWait: nobody reaches an object whose control does
\* not exist yet, although init_static publishes its fields one by one.
ControlExclusion ==
    \A t, u \in Threads : InControl(t) /\ InControl(u) => t = u /\ control = 0

\* A thread cancelled in a wait has neither the mutex nor the control.
CancelledHoldNothing ==
    \A t \in Threads : pc[t] \in DeadPCs =>
        /\ mutex # t
        /\ id = "LIVE" /\ control = 0 => \E u \in Threads : InControl(u)

\* Where threads can be before the object is live; init_static has it to itself,
\* because its thread has the mutex of all waiters.
Phases ==
    /\ id = "INVALID" => \A t \in Threads : pc[t] \in {"idle", "dead"}
    /\ id = "STATIC" => /\ \A t \in Threads : pc[t] \in {"idle", "si_create", "si_control"}
                        /\ NbWait \in {0, COND_SIG_}
                        /\ NbWait = 0 => \E t \in Threads : pc[t] = "si_control"
    /\ \A t \in Threads : pc[t] = "si_create" => STATIC_INIT
    /\ \A t \in Threads : pc[t] = "si_control" => id = "STATIC" /\ NbWait = 0 /\ lock = 0

HeldPCs == {"si_create", "si_control", "lock", "count", "cb_mutex"}
ReleasedPCs == {"cb_control", "cb_inwait", "asleep", "woken", "relock"}
                  \cup LatePCs \cup DeadPCs

\* A wait has the mutex up to its callback, and not again before it returns.
MutexHeld == /\ \A t \in Threads : pc[t] \in HeldPCs => mutex = t
             /\ \A t \in Threads : pc[t] \in ReleasedPCs => mutex # t

\* The control is a lock, and inWAIT is set only where a wait has nothing locked.
ControlExact ==
    /\ ControlExclusion
    /\ id = "LIVE" /\ control = 0 => \E t \in Threads : InControl(t)
    /\ \A t \in inWAIT : pc[t] \in {"asleep", "woken", "late"} \cup DeadPCs

Shape == Types /\ Phases /\ MutexHeld /\ ControlExact

--------------------------------------------------------------------------------
(* The shape: pcs, the mutex and the control. *)

LEMMA InitShape == Init => Shape
  <1> SUFFICES ASSUME Init PROVE Shape
    OBVIOUS
  <1> USE DEF Init, PCs, WaitPCs, SignalPCs, CallbackPCs, LatePCs, DeadPCs
  <1>1. id \in {"STATIC", "INVALID"} /\ NbWait \in {0, COND_SIG_}
        /\ (id = "STATIC" => NbWait = COND_SIG_)
    BY Zenon
  <1>2. Types
    BY <1>1 DEF Types, WaitCalls, SignalCalls, COND_SIG_
  <1>3. Phases
    BY <1>1 DEF Phases, STATIC_INIT, COND_SIG_
  <1>4. MutexHeld /\ ControlExact
    BY <1>1 DEF MutexHeld, HeldPCs, ReleasedPCs, ControlExact, ControlExclusion, InControl
  <1> QED
    BY <1>2, <1>3, <1>4 DEF Shape

LEMMA ObjectShape ==
    ASSUME Shape,
           \/ InitCond \/ Destroy
           \/ \E t \in Threads : MutexLock(t) \/ MutexUnlock(t)
    PROVE  Shape'
  <1> USE ThreadsAssumption
      DEF Shape, Types, Phases, MutexHeld, ControlExact, ControlExclusion, InControl,
          HeldPCs, ReleasedPCs, PCs, WaitPCs, SignalPCs, CallbackPCs, LatePCs, DeadPCs,
          STATIC_INIT, object
  <1>1. CASE InitCond
    BY <1>1 DEF InitCond
  <1>2. CASE Destroy
    <2>1. Types'
      BY <1>2 DEF Destroy
    <2>2. \A t \in Threads : pc'[t] = pc[t] \/ (pc[t] \in DeadPCs /\ pc'[t] = "dead")
      BY <1>2 DEF Destroy
    <2> QED
      BY <1>2, <2>1, <2>2 DEF Destroy
  <1>3. ASSUME NEW t \in Threads, MutexLock(t) PROVE Shape'
    BY <1>3 DEF MutexLock, IsAt
  <1>4. ASSUME NEW t \in Threads, MutexUnlock(t) PROVE Shape'
    BY <1>4 DEF MutexUnlock, IsAt
  <1> QED
    BY <1>1, <1>2, <1>3, <1>4

LEMMA WaitShape ==
    ASSUME Shape, NEW t \in Threads,
           \/ \E c \in WaitCalls : WaitCall(t, c)
           \/ Initialising(t) \/ LockControl(t) \/ Waiting(t)
           \/ Wake(t) \/ TimeOut(t) \/ CountLate(t) \/ Relock(t)
    PROVE  Shape'
  <1> USE ThreadsAssumption
      DEF Shape, Types, Phases, MutexHeld, ControlExact, ControlExclusion, InControl,
          HeldPCs, ReleasedPCs, PCs, WaitPCs, SignalPCs, CallbackPCs, LatePCs, DeadPCs,
          STATIC_INIT, COND_SIG_, object, Go, IsAt
  <1>1. ASSUME NEW c \in WaitCalls, WaitCall(t, c) PROVE Shape'
    BY <1>1 DEF WaitCall
  <1>2. CASE InitStaticCreate(t)
    BY <1>2 DEF InitStaticCreate
  <1>3. CASE InitStaticFails(t)
    BY <1>3 DEF InitStaticFails, NoCall, WaitCalls
  <1>4. CASE InitStaticControl(t)
    BY <1>4 DEF InitStaticControl
  <1>5. CASE LockControl(t)
    BY <1>5 DEF LockControl, Available
  <1>6. CASE CountWaiter(t)
    BY <1>6 DEF CountWaiter
  <1>7. CASE CallbackMutex(t)
    BY <1>7 DEF CallbackMutex
  <1>8. CASE CallbackControl(t)
    BY <1>8 DEF CallbackControl, AfterSignal, SignalFits
  <1>9. CASE CallbackInWait(t)
    BY <1>9 DEF CallbackInWait
  <1>10. CASE LeaveWAIT(t)
    BY <1>10 DEF LeaveWAIT
  <1>11. CASE Wake(t)
    BY <1>11 DEF Wake, Available
  <1>12. CASE TimeOut(t)
    BY <1>12 DEF TimeOut
  <1>13. CASE CountLate(t)
    BY <1>13 DEF CountLate
  <1>14. CASE Relock(t)
    BY <1>14 DEF Relock, NoCall, WaitCalls
  <1> QED
    BY <1>1, <1>2, <1>3, <1>4, <1>5, <1>6, <1>7, <1>8, <1>9, <1>10, <1>11, <1>12, <1>13,
       <1>14 DEF Initialising, Waiting

LEMMA SignalShape ==
    ASSUME Shape, NEW t \in Threads,
           \/ \E c \in SignalCalls : SignalCall(t, c)
           \/ SignalLock(t) \/ Signalling(t)
    PROVE  Shape'
  <1> USE ThreadsAssumption
      DEF Shape, Types, Phases, MutexHeld, ControlExact, ControlExclusion, InControl,
          HeldPCs, ReleasedPCs, PCs, WaitPCs, SignalPCs, CallbackPCs, LatePCs, DeadPCs,
          STATIC_INIT, COND_SIG_, object, Go, IsAt
  <1>1. ASSUME NEW c \in SignalCalls, SignalCall(t, c) PROVE Shape'
    BY <1>1 DEF SignalCall
  <1>2. CASE SignalLock(t)
    BY <1>2 DEF SignalLock, Available
  <1>3. CASE SignalPost(t)
    BY <1>3 DEF SignalPost, Posts
  <1>4. CASE SignalNobody(t)
    BY <1>4 DEF SignalNobody
  <1>5. CASE SignalCount(t)
    BY <1>5 DEF SignalCount
  <1>6. CASE SignalUnlock(t)
    BY <1>6 DEF SignalUnlock, AfterSignal, SignalFits, NoCall, WaitCalls
  <1> QED
    BY <1>1, <1>2, <1>3, <1>4, <1>5, <1>6 DEF Signalling

LEMMA CancelShape == ASSUME Shape, NEW t \in Threads, Cancel(t) PROVE Shape'
  <1> USE DEF Shape, Types, Phases, MutexHeld, ControlExact, ControlExclusion, InControl,
          HeldPCs, ReleasedPCs, PCs, WaitPCs, SignalPCs, CallbackPCs, LatePCs, DeadPCs,
          STATIC_INIT, COND_SIG_, object
  <1>1. CASE t \notin inWAIT
    BY <1>1 DEF Cancel
  <1>2. CASE t \in inWAIT
    <2>1. pc[t] \in {"asleep", "woken", "late"} /\ id = "LIVE"
      BY <1>2 DEF Cancel
    <2>2. pc' = [pc EXCEPT ![t] = IF pc[t] = "woken" THEN "dead" ELSE "dead_counted"]
      BY <1>2 DEF Cancel
    <2>3. \A u \in Threads : InControl(u)' <=> InControl(u)
      BY <2>1, <2>2
    <2> QED
      BY <2>1, <2>2, <2>3 DEF Cancel
  <1> QED
    BY <1>1, <1>2

LEMMA NextShape == Shape /\ [Next]_vars => Shape'
  <1> SUFFICES ASSUME Shape, [Next]_vars PROVE Shape'
    OBVIOUS
  <1>1. CASE UNCHANGED vars
    BY <1>1 DEF vars, Shape, Types, Phases, MutexHeld, ControlExact, ControlExclusion,
                InControl, STATIC_INIT
  <1>2. CASE Next
    BY <1>2, ObjectShape, WaitShape, SignalShape, CancelShape DEF Next
  <1> QED
    BY <1>1, <1>2

--------------------------------------------------------------------------------
(* The count: where the threads that NbWait counts are. *)

CountedPCs == CallbackPCs \cup LatePCs \cup {"asleep", "dead_counted"}
Counted == {t \in Threads : pc[t] \in CountedPCs}

\* NbWait and the units of the semaphore add up to the threads that have been
\* counted; in the middle of a signal, one more unit is out than NbWait tells, and in
\* the middle of a broadcast all of NbWait.
Conservation ==
    id = "LIVE" =>
        /\ (\A t \in Threads : pc[t] # "s_count") => NbWait + lock = Cardinality(Counted)
        /\ \A t \in Threads : pc[t] = "s_count" =>
              /\ NbWait > 0
              /\ call[t] = "signal" => NbWait + lock = Cardinality(Counted) + 1
              /\ call[t] = "broadcast" => lock = Cardinality(Counted)

\* A broadcast leaves nobody counted behind, while it has the control.
BroadcastEmpties ==
    \A t \in Threads : pc[t] = "s_unlock" /\ call[t] = "broadcast" => NbWait <= 0

\* The calls of threads on the signalling side are signals or broadcasts.
SignalCallOnly == \A t \in Threads : pc[t] \in SignalPCs => call[t] \in SignalCalls

IInv == Shape /\ Conservation /\ BroadcastEmpties /\ SignalCallOnly

LEMMA CountedFinite ==
    /\ IsFiniteSet(Counted) /\ Cardinality(Counted) \in Nat
    /\ Cardinality(Counted) <= Cardinality(Threads)
  <1>1. Counted \subseteq Threads
    BY DEF Counted
  <1> QED
    BY <1>1, ThreadsAssumption, FS_Subset, FS_CardinalityType

LEMMA CountedKept ==
    ASSUME NEW t \in Threads, pc \in [Threads -> PCs], NEW p \in PCs,
           pc' = [pc EXCEPT ![t] = p], pc[t] \in CountedPCs <=> p \in CountedPCs
    PROVE  Counted' = Counted
  BY DEF Counted

LEMMA CountedGains ==
    ASSUME NEW t \in Threads, pc \in [Threads -> PCs], NEW p \in CountedPCs,
           pc' = [pc EXCEPT ![t] = p], pc[t] \notin CountedPCs
    PROVE  Cardinality(Counted') = Cardinality(Counted) + 1
  <1>1. Counted' = Counted \cup {t} /\ t \notin Counted
    BY DEF Counted
  <1> QED
    BY <1>1, CountedFinite, FS_AddElement

LEMMA CountedLoses ==
    ASSUME NEW t \in Threads, pc \in [Threads -> PCs], NEW p \in PCs \ CountedPCs,
           pc' = [pc EXCEPT ![t] = p], pc[t] \in CountedPCs
    PROVE  Cardinality(Counted') = Cardinality(Counted) - 1
  <1>1. Counted' = Counted \ {t} /\ t \in Counted
    BY DEF Counted
  <1> QED
    BY <1>1, CountedFinite, FS_RemoveElement

LEMMA InitCount == Init => Conservation /\ BroadcastEmpties /\ SignalCallOnly
  BY DEF Init, Conservation, BroadcastEmpties, SignalCallOnly, SignalPCs

LEMMA ObjectCount ==
    ASSUME IInv,
           \/ InitCond \/ Destroy
           \/ \E t \in Threads : MutexLock(t) \/ MutexUnlock(t)
    PROVE  (Conservation /\ BroadcastEmpties /\ SignalCallOnly)'
  <1> USE DEF IInv, Shape, Types, Conservation, BroadcastEmpties, SignalCallOnly, SignalPCs
  <1>1. CASE InitCond
    <2>1. \A t \in Threads : pc'[t] \in {"idle", "dead"}
      BY <1>1 DEF InitCond, Phases
    <2>2. Counted' = {}
      BY <2>1 DEF Counted, CountedPCs, CallbackPCs, LatePCs
    <2>3. Cardinality(Counted') = 0
      BY <2>2, FS_EmptySet
    <2> QED
      BY <1>1, <2>1, <2>3 DEF InitCond
  <1>2. CASE Destroy
    <2>1. \A t \in Threads : pc'[t] \in {"idle", "dead"}
      BY <1>2 DEF Destroy, DeadPCs
    <2> QED
      BY <1>2, <2>1 DEF Destroy
  <1>3. ASSUME NEW t \in Threads, MutexLock(t) \/ MutexUnlock(t)
        PROVE  (Conservation /\ BroadcastEmpties /\ SignalCallOnly)'
    <2>1. Counted' = Counted
      BY <1>3 DEF MutexLock, MutexUnlock, Counted
    <2> QED
      BY <1>3, <2>1 DEF MutexLock, MutexUnlock, object
  <1> QED
    BY <1>1, <1>2, <1>3

\* Steps of a wait that count and uncount nobody.
LEMMA QuietCount ==
    ASSUME IInv, NEW t \in Threads,
           \/ \E c \in WaitCalls : WaitCall(t, c)
           \/ InitStaticCreate(t) \/ InitStaticFails(t) \/ LockControl(t)
           \/ CallbackMutex(t) \/ CallbackControl(t) \/ CallbackInWait(t)
           \/ LeaveWAIT(t) \/ TimeOut(t) \/ Relock(t)
    PROVE  (Conservation /\ BroadcastEmpties /\ SignalCallOnly)'
  <1>1. PICK p \in PCs : /\ pc' = [pc EXCEPT ![t] = p]
                         /\ pc[t] \notin SignalPCs /\ p \notin SignalPCs
                         /\ pc[t] \in CountedPCs <=> p \in CountedPCs
    BY DEF WaitCall, InitStaticCreate, InitStaticFails, LockControl, CallbackMutex,
           CallbackControl, CallbackInWait, LeaveWAIT, TimeOut, Relock, Go, IsAt, PCs, WaitPCs,
           SignalPCs, CallbackPCs, LatePCs, CountedPCs
  <1>2. Counted' = Counted
    BY <1>1, CountedKept DEF IInv, Shape, Types
  <1>3. \/ lock' = lock /\ NbWait' = NbWait /\ id' = id
        \/ id' = "STATIC" /\ NbWait' = 0 /\ \A u \in Threads : pc[u] \notin SignalPCs
    BY DEF WaitCall, InitStaticCreate, InitStaticFails, LockControl, CallbackMutex,
           CallbackControl, CallbackInWait, LeaveWAIT, TimeOut, Relock, object, IInv, Shape,
           Phases, SignalPCs, STATIC_INIT, Go, IsAt
  <1>4. \A u \in Threads : pc'[u] \in SignalPCs => pc'[u] = pc[u] /\ call'[u] = call[u]
    BY <1>1 DEF WaitCall, InitStaticCreate, InitStaticFails, LockControl, CallbackMutex,
           CallbackControl, CallbackInWait, LeaveWAIT, TimeOut, Relock, NoCall, IInv, Shape, Types
  <1>5. \A u \in Threads : pc[u] \in SignalPCs => pc'[u] = pc[u]
    BY <1>1 DEF IInv, Shape, Types
  <1>6. Conservation'
    BY <1>2, <1>3, <1>4, <1>5 DEF IInv, Conservation, SignalPCs
  <1>7. BroadcastEmpties' /\ SignalCallOnly'
    BY <1>3, <1>4, <1>5 DEF IInv, BroadcastEmpties, SignalCallOnly, SignalPCs
  <1> QED
    BY <1>6, <1>7

LEMMA WaitCount ==
    ASSUME IInv, NEW t \in Threads,
           InitStaticControl(t) \/ CountWaiter(t) \/ Wake(t) \/ CountLate(t)
    PROVE  (Conservation /\ BroadcastEmpties /\ SignalCallOnly)'
  <1> USE CountedFinite
      DEF IInv, Shape, Types, Conservation, BroadcastEmpties, SignalCallOnly, SignalPCs
  <1>1. CASE InitStaticControl(t)
    <2>1. NbWait = 0 /\ lock = 0 /\ id = "STATIC"
      BY <1>1 DEF InitStaticControl, Phases, Go, IsAt
    <2>2. \A u \in Threads : pc'[u] \in {"idle", "si_create", "si_control", "lock"}
      BY <1>1, <2>1 DEF InitStaticControl, Phases, Go, IsAt
    <2>3. Counted' = {}
      BY <2>2 DEF Counted, CountedPCs, CallbackPCs, LatePCs
    <2>4. Cardinality(Counted') = 0
      BY <2>3, FS_EmptySet
    <2> QED
      BY <1>1, <2>1, <2>2, <2>4 DEF InitStaticControl
  <1>2. CASE CountWaiter(t)
    <2>1. Cardinality(Counted') = Cardinality(Counted) + 1
      BY <1>2, CountedGains DEF CountWaiter, Go, IsAt, CountedPCs, CallbackPCs, LatePCs
    <2>2. \A u \in Threads : pc[u] \notin {"s_count", "s_unlock"}
      BY <1>2 DEF CountWaiter, Go, IsAt, ControlExact, ControlExclusion, InControl
    <2>3. \A u \in Threads : pc'[u] \notin {"s_count", "s_unlock"}
      BY <1>2, <2>2 DEF CountWaiter, Go, IsAt
    <2> QED
      BY <1>2, <2>1, <2>2, <2>3 DEF CountWaiter, Go, IsAt
  <1>3. CASE Wake(t)
    <2>1. Cardinality(Counted') = Cardinality(Counted) - 1
      BY <1>3, CountedLoses
      DEF Wake, Go, IsAt, CountedPCs, CallbackPCs, LatePCs, PCs, WaitPCs
    <2> QED
      BY <1>3, <2>1 DEF Wake, Go, IsAt, Available
  <1>4. CASE CountLate(t)
    <2>1. Cardinality(Counted') = Cardinality(Counted) - 1
      BY <1>4, CountedLoses
      DEF CountLate, Go, IsAt, CountedPCs, CallbackPCs, LatePCs, PCs, WaitPCs
    <2>2. \A u \in Threads : pc[u] \notin {"s_count", "s_unlock"}
      BY <1>4 DEF CountLate, Available, ControlExact, ControlExclusion, InControl
    <2>3. \A u \in Threads : pc'[u] \notin {"s_count", "s_unlock"}
      BY <1>4, <2>2 DEF CountLate, Go, IsAt
    <2> QED
      BY <1>4, <2>1, <2>2, <2>3 DEF CountLate, Go, IsAt
  <1> QED
    BY <1>1, <1>2, <1>3, <1>4

LEMMA SignalCountKept ==
    ASSUME IInv, NEW t \in Threads,
           \/ \E c \in SignalCalls : SignalCall(t, c)
           \/ SignalLock(t) \/ Signalling(t)
    PROVE  (Conservation /\ BroadcastEmpties /\ SignalCallOnly)'
  <1>1. Counted' = Counted
    BY CountedKept
    DEF SignalCall, SignalLock, Signalling, SignalPost, SignalNobody, SignalCount,
        SignalUnlock, Go, IsAt, CountedPCs, CallbackPCs, LatePCs, PCs, SignalPCs, IInv, Shape, Types
  <1> USE CountedFinite
      DEF IInv, Shape, Types, Conservation, BroadcastEmpties, SignalCallOnly, SignalPCs,
          SignalCalls, WaitCalls, Go, IsAt
  <1>2. ASSUME NEW c \in SignalCalls, SignalCall(t, c)
        PROVE  (Conservation /\ BroadcastEmpties /\ SignalCallOnly)'
    BY <1>1, <1>2 DEF SignalCall, object
  <1>3. CASE SignalLock(t)
    BY <1>1, <1>3 DEF SignalLock
  \* From here the thread has the control, so that no other is in s_count or s_unlock.
  <1>4. CASE SignalPost(t)
    <2>1. \A u \in Threads \ {t} : pc[u] \notin {"s_count", "s_unlock"}
      BY <1>4 DEF SignalPost, ControlExact, ControlExclusion, InControl
    <2>2. NbWait + lock = Cardinality(Counted) /\ id = "LIVE"
      BY <1>4, <2>1 DEF SignalPost, Phases
    <2>3. \/ call[t] = "signal" /\ lock' = lock + 1
          \/ call[t] = "broadcast" /\ lock' = lock + NbWait
      BY <1>4 DEF SignalPost, Posts
    <2>4. pc'[t] = "s_count" /\ \A u \in Threads \ {t} : pc'[u] = pc[u]
      BY <1>4 DEF SignalPost
    <2>5. id' = id /\ NbWait' = NbWait /\ call' = call /\ NbWait > 0
      BY <1>4 DEF SignalPost
    <2>6. Conservation'
      BY <1>1, <2>1, <2>2, <2>3, <2>4, <2>5
    <2>7. BroadcastEmpties' /\ SignalCallOnly'
      BY <1>4, <2>1, <2>4, <2>5 DEF SignalPost
    <2> QED
      BY <2>6, <2>7
  <1>5. CASE SignalNobody(t)
    BY <1>1, <1>5 DEF SignalNobody, object
  <1>6. CASE SignalCount(t)
    <2>1. \A u \in Threads \ {t} : pc[u] \notin {"s_count", "s_unlock"}
      BY <1>6 DEF SignalCount, ControlExact, ControlExclusion, InControl
    <2>2. pc[t] = "s_count" /\ id = "LIVE"
      BY <1>6 DEF SignalCount, Phases
    <2>3. pc'[t] = "s_unlock" /\ \A u \in Threads \ {t} : pc'[u] = pc[u]
      BY <1>6 DEF SignalCount
    <2>4. id' = id /\ lock' = lock /\ call' = call
      BY <1>6 DEF SignalCount
    <2>5. \/ call[t] = "signal" /\ NbWait' = NbWait - 1
          \/ call[t] = "broadcast" /\ NbWait' = 0
      BY <1>6 DEF SignalCount
    <2>6. NbWait' + lock' = Cardinality(Counted')
      BY <1>1, <2>2, <2>4, <2>5
    <2>7. Conservation'
      BY <2>1, <2>3, <2>6
    <2>8. BroadcastEmpties' /\ SignalCallOnly'
      BY <2>1, <2>2, <2>3, <2>4, <2>5
    <2> QED
      BY <2>7, <2>8
  <1>7. CASE SignalUnlock(t)
    BY <1>1, <1>7 DEF SignalUnlock, NoCall
  <1> QED
    BY <1>2, <1>3, <1>4, <1>5, <1>6, <1>7 DEF Signalling

LEMMA CancelCount ==
    ASSUME IInv, NEW t \in Threads, Cancel(t)
    PROVE  (Conservation /\ BroadcastEmpties /\ SignalCallOnly)'
  <1>1. id' = id /\ NbWait' = NbWait /\ lock' = lock /\ call' = call
    BY DEF Cancel, object
  <1>2. \A u \in Threads :
            pc'[u] = pc[u] \/ (pc[u] \notin SignalPCs /\ pc'[u] \notin SignalPCs)
    BY DEF Cancel, IInv, Shape, Types, ControlExact, SignalPCs, DeadPCs
  <1>3. \A u \in Threads : pc'[u] \in CountedPCs <=> pc[u] \in CountedPCs
    BY DEF Cancel, IInv, Shape, Types, ControlExact, CountedPCs, CallbackPCs, LatePCs,
           DeadPCs
  <1>4. Counted' = Counted
    BY <1>3 DEF Counted
  <1> QED
    BY <1>1, <1>2, <1>4
    DEF IInv, Conservation, BroadcastEmpties, SignalCallOnly, SignalPCs

LEMMA Inductive == Spec => []IInv
  <1>1. Init => IInv
    BY InitShape, InitCount DEF IInv
  <1>2. IInv /\ [Next]_vars => IInv'
    <2> SUFFICES ASSUME IInv, [Next]_vars PROVE IInv'
      OBVIOUS
    <2>1. Shape'
      BY NextShape DEF IInv
    <2>2. CASE UNCHANGED vars
      <3>1. Counted' = Counted
        BY <2>2 DEF vars, Counted
      <3> QED
        BY <2>1, <2>2, <3>1
        DEF vars, IInv, Conservation, BroadcastEmpties, SignalCallOnly
    <2>3. CASE Next
      <3>1. (Conservation /\ BroadcastEmpties /\ SignalCallOnly)'
        BY <2>3, ObjectCount, QuietCount, WaitCount, SignalCountKept, CancelCount
        DEF Next, Initialising, Waiting
      <3> QED
        BY <2>1, <3>1 DEF IInv
    <2> QED
      BY <2>2, <2>3
  <1> QED
    BY <1>1, <1>2, PTL DEF Spec

--------------------------------------------------------------------------------
LEMMA SleepersCounted == Cardinality(Sleepers) \in Nat /\ Cardinality(Sleepers) <= Cardinality(Counted)
  <1>1. Sleepers \subseteq Counted
    BY DEF Sleepers, Counted, CountedPCs
  <1> QED
    BY <1>1, CountedFinite, FS_Subset, FS_CardinalityType

\* Whatever interleaves, times out or is cancelled, a sleeper is either counted in
\* NbWait or has a unit in the semaphore.
THEOREM WakeupsKept == Spec => []NoLostWakeup
  <1>1. IInv => NoLostWakeup
    <2> SUFFICES ASSUME IInv, id = "LIVE" PROVE NbWait + lock >= Cardinality(Sleepers)
      BY DEF NoLostWakeup
    <2>1. CASE \A t \in Threads : pc[t] # "s_count"
      BY <2>1, SleepersCounted, CountedFinite DEF IInv, Shape, Types, Conservation
    <2>2. ASSUME NEW t \in Threads, pc[t] = "s_count"
          PROVE  NbWait + lock >= Cardinality(Sleepers)
      <3>1. call[t] \in {"signal", "broadcast"}
        BY <2>2 DEF IInv, SignalCallOnly, SignalPCs, SignalCalls
      <3> QED
        BY <2>2, <3>1, SleepersCounted, CountedFinite
        DEF IInv, Shape, Types, Conservation
    <2> QED
      BY <2>1, <2>2
  <1> QED
    BY Inductive, <1>1, PTL

\* A broadcast that is about to return has posted a unit for every sleeper.
THEOREM BroadcastReachesAll == Spec => []BroadcastWakesAll
  <1>1. IInv => BroadcastWakesAll
    <2> SUFFICES ASSUME IInv, NEW t \in Threads, pc[t] = "s_unlock", call[t] = "broadcast"
                 PROVE  lock >= Cardinality(Sleepers)
      BY DEF BroadcastWakesAll
    <2>1. id = "LIVE" /\ \A u \in Threads : pc[u] # "s_count"
      BY DEF IInv, Shape, Types, Phases, ControlExact, ControlExclusion, InControl
    <2>2. NbWait <= 0
      BY DEF IInv, BroadcastEmpties
    <2> QED
      BY <2>1, <2>2, SleepersCounted, CountedFinite DEF IInv, Shape, Types, Conservation
  <1> QED
    BY Inductive, <1>1, PTL

\* The control semaphore is a lock, from static initialisation on.
THEOREM ControlIsLock == Spec => []ControlExclusion
  <1>1. IInv => ControlExclusion
    BY DEF IInv, Shape, ControlExact
  <1> QED
    BY Inductive, <1>1, PTL

\* A cancelled waiter leaves neither the mutex nor the control locked.
THEOREM CancelIsClean == Spec => []CancelledHoldNothing
  <1>1. IInv => CancelledHoldNothing
    BY DEF IInv, Shape, MutexHeld, ReleasedPCs, ControlExact, CancelledHoldNothing
  <1> QED
    BY Inductive, <1>1, PTL

\* When no call is running, the count and the units cancel out, but for the waiters
\* that were cancelled while counted.
THEOREM NothingLeftOver == Spec => []NothingLeft
  <1>1. IInv => NothingLeft
    <2> SUFFICES ASSUME IInv, id = "LIVE",
                        \A t \in Threads : pc[t] \in {"idle"} \cup DeadPCs
                 PROVE  NbWait + lock = Cardinality({t \in Threads : pc[t] = "dead_counted"})
      BY DEF NothingLeft
    <2>1. Counted = {t \in Threads : pc[t] = "dead_counted"}
      BY DEF Counted, CountedPCs, CallbackPCs, LatePCs, DeadPCs
    <2>2. \A t \in Threads : pc[t] # "s_count"
      BY DEF DeadPCs
    <2> QED
      BY <2>1, <2>2 DEF IInv, Conservation
  <1> QED
    BY Inductive, <1>1, PTL
================================================================================
