------------------------------ MODULE PthreadProofs ------------------------------
(***************************************************************************)
(* Proofs about the two components of src/src/pthread.c: InitOnce, for     *)
(* every set of threads and every mix of calls, and Threads, for every     *)
(* program that callers may write, every status and every depth of the     *)
(* cleanup stack; and about what the mutexes do to priorities, Priority,   *)
(* for every set of threads, mutexes, priorities and programs.             *)
(***************************************************************************)
EXTENDS InitOnce, Threads, Priority, FiniteSetTheorems, WellFoundedInduction, TLAPS

(* InitOnce: what the spinning loop costs in liveness, it does not cost in safety. *)

InBody(t) == pc[t] \in BodyPCs

\* Who holds the value 2, in init_control or in a local variable, got it from an End.
TwoMeansDone ==
    /\ init_control = 2 => complete
    /\ \A t \in Threads : s[t] = 2 => complete
    /\ \A t \in Threads : pc[t] = "restore" => complete

\* The body is begun by the swap of 0, and init_control never is 0 again.
BodyStartedOnce ==
    /\ init_control = 0 <=> runs = 0
    /\ runs <= 1
    /\ complete => runs = 1
    /\ \A t \in Threads : InBody(t) => runs = 1 /\ ~complete
    /\ \A t, u \in Threads : InBody(t) /\ InBody(u) => t = u

\* The real critical section is on before any guarded call comes to it, so that a
\* guarded call inside owns the global mutex.
InsideOwns ==
    /\ \A t \in Threads : pc[t] \in {"set_leave", "end"} => enter = "real"
    /\ complete => enter = "real"
    /\ \A t \in Threads : kind[t] = "guarded" /\ pc[t] = "inside" => global = t

LibraryInv == /\ TypeOK
              /\ TwoMeansDone
              /\ BodyStartedOnce
              /\ CompleteOnReturn
              /\ InsideOwns

--------------------------------------------------------------------------------
LEMMA LibraryInitEstablishes == LibraryInit => LibraryInv
  <1> SUFFICES ASSUME LibraryInit PROVE LibraryInv
    OBVIOUS
  <1>1. TypeOK
    <2>1. complete \in BOOLEAN
      BY Zenon DEF LibraryInit
    <2> QED
      BY <2>1 DEF LibraryInit, TypeOK, PCs
  <1>2. TwoMeansDone /\ CompleteOnReturn
    BY DEF LibraryInit, TwoMeansDone, CompleteOnReturn, SectionPCs
  <1>3. ~complete
    BY Zenon DEF LibraryInit
  <1>4. BodyStartedOnce /\ InsideOwns
    BY <1>3 DEF LibraryInit, BodyStartedOnce, InBody, BodyPCs, InsideOwns
  <1> QED
    BY <1>1, <1>2, <1>4 DEF LibraryInv

\* Calls begin without the local variable of an earlier one being used.
LEMMA CallPreserves ==
    ASSUME LibraryInv, NEW t \in Threads,
           \/ \E k \in Kinds : Call(t, k)
           \/ EnterCritical(t) \/ LeaveCritical(t)
    PROVE  LibraryInv'
  <1> USE KindsAssumption
      DEF LibraryInv, TypeOK, PCs, BodyPCs, SectionPCs, TwoMeansDone, BodyStartedOnce,
          InBody, CompleteOnReturn, InsideOwns, Go, IsAt
  <1>1. ASSUME NEW k \in Kinds, Call(t, k) PROVE LibraryInv'
    <2>1. TypeOK'
      BY <1>1 DEF Call
    <2>2. TwoMeansDone' /\ BodyStartedOnce'
      BY <1>1 DEF Call
    <2>3. /\ kind'[t] = "guarded" => pc'[t] = "test"
          /\ pc'[t] \in {"test", "enter"}
          /\ \A u \in Threads \ {t} : pc'[u] = pc[u] /\ kind'[u] = kind[u]
      BY <1>1 DEF Call
    <2>4. complete' = complete /\ enter' = enter /\ global' = global
      BY <1>1 DEF Call
    <2>5. CompleteOnReturn'
      BY <2>3, <2>4
    <2>6. InsideOwns'
      <3>1. complete' => enter' = "real"
        BY <2>4, Zenon
      <3>2. \A u \in Threads : pc'[u] \in {"set_leave", "end"} => enter' = "real"
        BY <2>3, <2>4
      <3>3. \A u \in Threads : kind'[u] = "guarded" /\ pc'[u] = "inside" => global' = u
        BY <2>3, <2>4
      <3> QED
        BY <3>1, <3>2, <3>3, Zenon DEF InsideOwns
    <2> QED
      BY <2>1, <2>2, <2>5, <2>6
  <1>2. CASE EnterCritical(t)
    <2>1. TypeOK'
      <3>1. global' \in Threads \cup {NoThread}
        BY <1>2 DEF EnterCritical
      <3> QED
        BY <1>2, <3>1 DEF EnterCritical
    <2>2. TwoMeansDone' /\ BodyStartedOnce' /\ CompleteOnReturn'
      BY <1>2 DEF EnterCritical
    <2>3. enter = "real" => global = NoThread /\ global' = t
      BY <1>2 DEF EnterCritical
    <2>4. kind[t] = "guarded" => enter = "real"
      BY <1>2 DEF EnterCritical
    <2>5. InsideOwns'
      BY <1>2, <2>3, <2>4, NoThreadAssumption DEF EnterCritical
    <2> QED
      BY <2>1, <2>2, <2>5
  <1>3. CASE LeaveCritical(t)
    BY <1>3 DEF LeaveCritical
  <1> QED
    BY <1>1, <1>2, <1>3

LEMMA ControlPreserves ==
    ASSUME LibraryInv, NEW t \in Threads,
           Test(t) \/ Load(t) \/ SwapFails(t) \/ Swap(t) \/ Restore(t)
    PROVE  LibraryInv'
  <1> USE DEF LibraryInv, TypeOK, PCs, BodyPCs, SectionPCs, TwoMeansDone, BodyStartedOnce,
              InBody, CompleteOnReturn, InsideOwns, Go, IsAt
  <1>1. CASE Test(t)
    BY <1>1 DEF Test
  <1>2. CASE Load(t)
    BY <1>2 DEF Load
  <1>3. CASE SwapFails(t)
    BY <1>3 DEF SwapFails
  <1>4. CASE Swap(t)
    \* Nobody is in the body when init_control is still 0.
    <2>1. CASE s[t] = 0
      BY <1>4, <2>1 DEF Swap
    <2>2. CASE s[t] = 1
      BY <1>4, <2>2 DEF Swap
    <2>3. CASE s[t] = 2
      BY <1>4, <2>3 DEF Swap
    <2> QED
      BY <2>1, <2>2, <2>3
  <1>5. CASE Restore(t)
    BY <1>5 DEF Restore
  <1> QED
    BY <1>1, <1>2, <1>3, <1>4, <1>5

LEMMA BodyPreserves ==
    ASSUME LibraryInv, NEW t \in Threads,
           InitMutexes(t) \/ SetEnter(t) \/ SetLeave(t) \/ End(t)
    PROVE  LibraryInv'
  <1> USE DEF LibraryInv, TypeOK, PCs, BodyPCs, SectionPCs, TwoMeansDone, BodyStartedOnce,
              InBody, CompleteOnReturn, InsideOwns, Go, IsAt
  <1>1. CASE InitMutexes(t)
    BY <1>1 DEF InitMutexes
  <1>2. CASE SetEnter(t)
    BY <1>2 DEF SetEnter
  <1>3. CASE SetLeave(t)
    BY <1>3 DEF SetLeave
  <1>4. CASE End(t)
    BY <1>4 DEF End
  <1> QED
    BY <1>1, <1>2, <1>3, <1>4

LEMMA LibraryNextPreserves == LibraryInv /\ [LibraryNext]_library => LibraryInv'
  <1> SUFFICES ASSUME LibraryInv, [LibraryNext]_library PROVE LibraryInv'
    OBVIOUS
  <1>1. CASE UNCHANGED library
    BY <1>1 DEF library, LibraryInv, TypeOK, TwoMeansDone, BodyStartedOnce, InBody,
                CompleteOnReturn, InsideOwns
  <1>2. CASE LibraryNext
    BY <1>2, CallPreserves, ControlPreserves, BodyPreserves DEF LibraryNext, Once
  <1> QED
    BY <1>1, <1>2

LEMMA LibraryInductive == LibrarySpec => []LibraryInv
  BY LibraryInitEstablishes, LibraryNextPreserves, PTL DEF LibrarySpec

--------------------------------------------------------------------------------
\* The body of pthread_init_ is executed at most once.
THEOREM BodyOnce == LibrarySpec => []RunsOnce
  <1>1. LibraryInv => RunsOnce
    BY DEF LibraryInv, BodyStartedOnce, RunsOnce
  <1> QED
    BY LibraryInductive, <1>1, PTL

\* Whoever gets past PTHREAD_INIT() finds the library initialised.
THEOREM InitialisedOnReturn == LibrarySpec => []CompleteOnReturn
  <1>1. LibraryInv => CompleteOnReturn
    BY DEF LibraryInv
  <1> QED
    BY LibraryInductive, <1>1, PTL

\* Guarded calls exclude each other, the very first ones included, whatever plain
\* calls do meanwhile.
THEOREM CriticalSection == LibrarySpec => []GuardedExclusion
  <1>1. LibraryInv => GuardedExclusion
    BY DEF LibraryInv, InsideOwns, GuardedExclusion
  <1> QED
    BY LibraryInductive, <1>1, PTL

--------------------------------------------------------------------------------
(* Threads: the storage of a thread, its control, and what a join returns. *)

TargetPCs == {"none", "exit", "exit_delete", "gone"} \cup TargetUses

\* Where the thread has not left its start routine, or not begun it.
NotLeft == {"none", "glue"} \cup Inside

ThreadTypeOK ==
    /\ uses \in SUBSET AllUses
    /\ storage \in {"none", "live", "freed"}
    /\ kthread \in {"absent", "running", "dormant", "deleted"}
    /\ id \in {"live", "DELETED"} /\ endarg \in {"live", "DELETED"}
    /\ control \in {-1, 0, 1}
    /\ returncode \in Statuses \cup {Null, Canceled}
    /\ detached \in BOOLEAN
    /\ waiting \in Nat
    /\ cancel \in [type : {"deferred", "async"}, disabled : BOOLEAN, pending : BOOLEAN,
                   inWAIT : BOOLEAN]
    /\ handlers \in Nat
    /\ left \in Statuses \cup {Null, Canceled}
    /\ tpc \in TargetPCs /\ jpc \in JoinerPCs /\ cpc \in CancellerPCs
    /\ value \in Statuses \cup {Null, Canceled}

JoinerHolds == jpc \in {"j_test", "j_deleted", "j_arg", "j_callback", "j_value"}
JoinerCounted == jpc \in {"j_arg", "j_callback", "j_end", "j_lock", "j_value"}

\* The control is a lock between the joiner and the canceller, and both use it only
\* while there is a thread that has its storage.
ControlExact ==
    /\ JoinerHolds => cpc = "idle" /\ control = 0
    /\ cpc # "idle" => control = 0
    /\ storage # "live" => cpc = "idle" /\ jpc \in {"idle", "done", "late"}
    /\ storage # "freed" => (storage = "none" <=> tpc = "none")
    /\ tpc = "none" => jpc = "idle" /\ cpc = "idle"
    /\ jpc # "idle" => "join" \in uses
    /\ JoinerCounted => waiting > 0

\* Three threads may free the storage: the thread and the canceller only when it is
\* detached, and then nobody joins, and the thread stays while it is cancelled.
OneReleases ==
    /\ detached => jpc = "idle"
    /\ detached /\ cpc # "idle" => tpc \in Inside
    /\ tpc \in {"detach", "c_detach"} => detached
    /\ tpc = "none" => ~detached
    /\ JoinsWait /\ storage = "freed" => tpc \in {"none", "exit", "exit_delete", "gone"}

\* A thread that wakes up takes its own control before it stops being one that waits, so
\* that a canceller that found it waiting has it waiting until it is deleted.
WaitSound ==
    /\ cancel.inWAIT => tpc = "w_asleep" \/ (tpc = "gone" /\ id = "DELETED")
    /\ tpc = "w_awake" => control = 0 /\ cpc = "idle" /\ ~JoinerHolds
    /\ tpc \in Inside \ {"run"} => handlers > 0

\* Asynchronous cancellation is chosen by a thread that has started.  Whoever else is
\* deleted waits for a condition.
AsyncChosen ==
    /\ cancel.type = "async" => "async" \in uses /\ tpc \notin {"none", "glue"}
    /\ cpc \in {"k_alive", "k_code", "k_id", "k_delete"}
           => /\ tpc \notin {"none", "glue"}
              /\ \/ "async" \in uses
                 \/ tpc = "w_asleep"
                 \/ cpc = "k_alive" /\ tpc = "gone" /\ id = "DELETED"
    /\ cpc = "k_delete" => id = "DELETED"

Joined == "join" \in uses /\ "testcancel" \notin uses

\* The id is marked while the thread runs by its canceller only, who has the control
\* then: a joiner takes it unmarked into its wait, and waits for the end.
JoinSound == Joined =>
    /\ tpc \notin {"cleanup", "c_test", "c_detach", "c_id", "c_code", "exit_delete"}
    /\ tpc # "none" => kthread = "running" \/ tpc = "gone"
    /\ storage = "live" /\ id = "DELETED" => tpc = "gone" \/ cpc = "k_delete"
    /\ jpc = "j_arg" => id = "live"
    /\ jpc \in {"j_callback", "j_end"} => endarg = "live"
    /\ jpc \in {"j_deleted", "j_lock", "j_value", "done", "late"} => tpc = "gone"

StatusOf(v) == v = left \/ ("async" \in uses /\ v = Canceled)

\* returncode says how a thread that is not detached has ended, from its store on, unless
\* it may be cancelled asynchronously; a canceller leaves PTHREAD_CANCELED there before
\* the thread has ended, or comes after a status.
CodeSound == Joined /\ ~detached =>
    /\ left = Null <=> tpc \in NotLeft
    /\ cpc \in {"k_id", "k_delete"}
           => returncode = Canceled \/ (returncode = left /\ left # Null)
    /\ tpc \in {"test", "exit", "gone"} => StatusOf(returncode)
    /\ HasJoined => StatusOf(value)

\* When nobody interferes the thread frees its storage before it ends, or its canceller
\* does, or the joiner finds itself the only one who waits, and does.
ReleaseInTime == uses \cap {"detach", "callback"} = {} =>
    /\ tpc \in {"x_store", "c_id", "c_code"} => ~detached
    /\ tpc \in {"exit", "exit_delete", "gone"} /\ detached => storage = "freed"
    /\ Joined => /\ waiting = IF JoinerCounted THEN 1 ELSE 0
                 /\ jpc = "done" => storage = "freed"

ThreadInv == /\ ThreadTypeOK
             /\ ControlExact
             /\ OneReleases
             /\ WaitSound
             /\ AsyncChosen
             /\ JoinSound
             /\ CodeSound
             /\ ReleaseInTime

--------------------------------------------------------------------------------
LEMMA ThreadInitEstablishes == Init => ThreadInv
  <1> SUFFICES ASSUME Init PROVE ThreadInv
    OBVIOUS
  <1>1. detached \in BOOLEAN /\ ~detached
    BY DEF Init
  <1>2. ThreadTypeOK
    BY <1>1, ProgramsAssumption DEF Init, ThreadTypeOK, TargetPCs, JoinerPCs, CancellerPCs
  <1>3. ControlExact /\ OneReleases /\ WaitSound /\ AsyncChosen
    BY <1>1 DEF Init, ControlExact, JoinerHolds, JoinerCounted, OneReleases, WaitSound,
       AsyncChosen, Inside
  <1>4. JoinSound /\ CodeSound /\ ReleaseInTime
    BY <1>1 DEF Init, JoinSound, CodeSound, HasJoined, ReleaseInTime, JoinerCounted, NotLeft
  <1> QED
    BY <1>2, <1>3, <1>4 DEF ThreadInv

(* One lemma for each thread, one step for each action. *)

LEMMA CreatePreserves ==
    ASSUME ThreadInv, (\E d \in BOOLEAN : Create(d)) \/ CreateFails PROVE ThreadInv'
  <1> USE DEF ThreadInv, ThreadTypeOK, TargetPCs, TargetUses, JoinerPCs, CancellerPCs,
      ControlExact, JoinerHolds, JoinerCounted, OneReleases, JoinsWait, AsyncChosen,
      WaitSound, JoinSound, Joined, CodeSound, StatusOf, HasJoined, ReleaseInTime,
      NotLeft, Inside, fields, joiner
  <1>1. ASSUME NEW d \in BOOLEAN, Create(d) PROVE ThreadInv'
    <2>1. detached' \in BOOLEAN
      BY <1>1 DEF Create
    <2> QED
      BY <1>1, <2>1 DEF Create
  <1>2. CASE CreateFails
    BY <1>2 DEF CreateFails
  <1> QED
    BY <1>1, <1>2

\* The thread in its start routine, and leaving it.
LEMMA RunPreserves ==
    ASSUME ThreadInv,
           \/ Glue \/ PushHandler \/ PopHandler \/ SetCancel
           \/ (\E status \in Statuses : Return(status) \/ Exit(status)) \/ TestCancel
           \/ CleanupPop \/ CleanupEnd
    PROVE  ThreadInv'
  <1> USE StatusesAssumption
      DEF ThreadInv, ThreadTypeOK, TargetPCs, TargetUses, JoinerPCs, CancellerPCs,
      ControlExact, JoinerHolds, JoinerCounted, OneReleases, JoinsWait, AsyncChosen,
      WaitSound, JoinSound, Joined, CodeSound, StatusOf, HasJoined, ReleaseInTime,
      NotLeft, Inside, fields, joiner, At
  <1>1. CASE Glue
    BY <1>1 DEF Glue
  <1>2. CASE PushHandler \/ PopHandler
    BY <1>2 DEF PushHandler, PopHandler
  <1>3. CASE SetCancel
    BY <1>3 DEF SetCancel, AllUses
  <1>4. ASSUME NEW status \in Statuses, Return(status) \/ Exit(status) PROVE ThreadInv'
    BY <1>4 DEF Return, Exit, MayLeave
  <1>5. CASE TestCancel
    BY <1>5 DEF TestCancel, MayLeave
  <1>6. CASE CleanupPop \/ CleanupEnd
    BY <1>6 DEF CleanupPop, CleanupEnd
  <1> QED
    BY <1>1, <1>2, <1>3, <1>4, <1>5, <1>6

\* The thread in pthread_cond_wait.
LEMMA WaitPreserves ==
    ASSUME ThreadInv, WaitCall \/ WaitCallback \/ WaitLock \/ WaitUnlock \/ WaitPop
    PROVE  ThreadInv'
  <1> USE StatusesAssumption
      DEF ThreadInv, ThreadTypeOK, TargetPCs, TargetUses, JoinerPCs, CancellerPCs,
      ControlExact, JoinerHolds, JoinerCounted, OneReleases, JoinsWait, AsyncChosen,
      WaitSound, JoinSound, Joined, CodeSound, StatusOf, HasJoined, ReleaseInTime,
      NotLeft, Inside, fields, joiner, At
  <1>1. CASE WaitCall \/ WaitPop
    BY <1>1 DEF WaitCall, WaitPop
  <1>2. CASE WaitCallback \/ WaitLock
    <2>1. cancel' \in [type : {"deferred", "async"}, disabled : BOOLEAN, pending : BOOLEAN,
                       inWAIT : BOOLEAN]
      BY <1>2, Zenon DEF WaitCallback, WaitLock
    <2>2. cancel'.type = cancel.type
      BY <1>2 DEF WaitCallback, WaitLock
    <2>3. WaitLock => ~cancel'.inWAIT
      BY <1>2 DEF WaitLock
    <2> QED
      BY <1>2, <2>1, <2>2, <2>3 DEF WaitCallback, WaitLock
  <1>3. CASE WaitUnlock
    BY <1>3 DEF WaitUnlock
  <1> QED
    BY <1>1, <1>2, <1>3

LEMMA EndPreserves ==
    ASSUME ThreadInv,
           \/ Store \/ TestDetached \/ ExitTestDetached \/ ExitStore \/ DetachMe
           \/ ExitThread \/ CancelTestDetached \/ TestCancelId \/ TestCancelCode
           \/ ExitDeleteThread
    PROVE  ThreadInv'
  <1> USE StatusesAssumption
      DEF ThreadInv, ThreadTypeOK, TargetPCs, TargetUses, JoinerPCs, CancellerPCs,
      ControlExact, JoinerHolds, JoinerCounted, OneReleases, JoinsWait, AsyncChosen,
      WaitSound, JoinSound, Joined, CodeSound, StatusOf, HasJoined, ReleaseInTime,
      NotLeft, Inside, fields, joiner, At
  <1>1. CASE Store \/ ExitStore
    BY <1>1 DEF Store, ExitStore
  <1>2. CASE TestDetached \/ ExitTestDetached \/ CancelTestDetached
    BY <1>2 DEF TestDetached, ExitTestDetached, CancelTestDetached
  <1>3. CASE DetachMe
    \* Nobody joins or cancels a detached thread that has left.
    <2>1. detached /\ jpc = "idle" /\ cpc = "idle"
      BY <1>3 DEF DetachMe
    <2> QED
      BY <1>3, <2>1 DEF DetachMe, Release
  <1>4. CASE ExitThread \/ ExitDeleteThread
    BY <1>4 DEF ExitThread, ExitDeleteThread
  <1>5. CASE TestCancelId \/ TestCancelCode
    BY <1>5 DEF TestCancelId, TestCancelCode
  <1> QED
    BY <1>1, <1>2, <1>3, <1>4, <1>5

LEMMA JoinPreserves ==
    ASSUME ThreadInv, JoinCall \/ JoinStep \/ JoinLock PROVE ThreadInv'
  <1> USE StatusesAssumption
      DEF ThreadInv, ThreadTypeOK, TargetPCs, TargetUses, JoinerPCs, CancellerPCs,
      ControlExact, JoinerHolds, JoinerCounted, OneReleases, JoinsWait, AsyncChosen,
      WaitSound, JoinSound, Joined, CodeSound, StatusOf, HasJoined, ReleaseInTime,
      NotLeft, Inside, fields
  <1>1. CASE JoinCall \/ JoinLock
    BY <1>1 DEF JoinCall, JoinLock
  <1>2. CASE JoinDeleted
    BY <1>2 DEF JoinDeleted
  <1>3. CASE JoinDeletedValue
    BY <1>3 DEF JoinDeletedValue
  <1>4. CASE JoinWaiting \/ JoinFails
    BY <1>4 DEF JoinWaiting, JoinFails
  <1>5. CASE JoinArgument \/ JoinCallback
    BY <1>5 DEF JoinArgument, JoinCallback
  <1>6. CASE JoinEnd
    \* The id it waits for is one of a thread: the wait is over when the thread is.
    <2>1. Joined => tpc = "gone"
      BY <1>6 DEF JoinEnd, Ended
    <2> QED
      BY <1>6, <2>1 DEF JoinEnd
  <1>7. CASE JoinRelease
    <2>1. cpc = "idle" /\ storage = "live" /\ ~detached /\ (Joined => tpc = "gone")
      BY <1>7 DEF JoinRelease
    <2> QED
      BY <1>7, <2>1 DEF JoinRelease, Release
  <1>8. CASE JoinUnlock
    BY <1>8 DEF JoinUnlock
  <1> QED
    BY <1>1, <1>2, <1>3, <1>4, <1>5, <1>6, <1>7, <1>8 DEF JoinStep

LEMMA CancelPreserves ==
    ASSUME ThreadInv, Detach \/ CancelCall \/ CancelStep PROVE ThreadInv'
  <1> USE StatusesAssumption
      DEF ThreadInv, ThreadTypeOK, TargetPCs, TargetUses, JoinerPCs, CancellerPCs,
      ControlExact, JoinerHolds, JoinerCounted, OneReleases, JoinsWait, AsyncChosen,
      WaitSound, JoinSound, Joined, CodeSound, StatusOf, HasJoined, ReleaseInTime,
      NotLeft, Inside, fields, joiner
  <1>1. CASE Detach
    BY <1>1 DEF Detach
  <1>2. CASE CancelCall
    BY <1>2 DEF CancelCall
  <1>3. CASE CancelPend
    <2>1. cancel' \in [type : {"deferred", "async"}, disabled : BOOLEAN, pending : BOOLEAN,
                       inWAIT : BOOLEAN]
      BY <1>3, Zenon DEF CancelPend
    <2>2. cancel'.type = cancel.type /\ cancel'.inWAIT = cancel.inWAIT
      BY <1>3 DEF CancelPend
    <2> QED
      BY <1>3, <2>1, <2>2 DEF CancelPend
  <1>4. CASE CancelLeave \/ CancelDeleted
    BY <1>4 DEF CancelLeave, CancelDeleted
  <1>5. CASE CancelWaiting \/ CancelNow
    BY <1>5 DEF CancelWaiting, CancelNow, Deferred
  <1>6. CASE CancelAlive
    BY <1>6 DEF CancelAlive
  <1>7. CASE CancelCode
    \* Either the thread still waits for a condition, or it is cancelled asynchronously.
    <2>1. cpc = "k_code" /\ (tpc = "w_asleep" \/ "async" \in uses)
      BY <1>7 DEF CancelCode
    <2> QED
      BY <1>7, <2>1 DEF CancelCode
  <1>8. CASE CancelId
    BY <1>8 DEF CancelId
  <1>9. CASE CancelDelete
    BY <1>9 DEF CancelDelete, Release
  <1> QED
    BY <1>1, <1>2, <1>3, <1>4, <1>5, <1>6, <1>7, <1>8, <1>9 DEF CancelStep

LEMMA ThreadNextPreserves == ThreadInv /\ [Next]_vars => ThreadInv'
  <1> SUFFICES ASSUME ThreadInv, [Next]_vars PROVE ThreadInv'
    OBVIOUS
  <1>1. CASE UNCHANGED vars
    BY <1>1 DEF vars, ThreadInv, ThreadTypeOK, ControlExact, JoinerHolds, JoinerCounted,
       OneReleases, JoinsWait, AsyncChosen, JoinSound, Joined, CodeSound, ReleaseInTime,
       WaitSound, StatusOf, HasJoined, Inside, NotLeft
  <1>2. CASE Next
    BY <1>2, CreatePreserves, RunPreserves, WaitPreserves, EndPreserves, JoinPreserves,
       CancelPreserves
    DEF Next, TargetStep, Leave
  <1> QED
    BY <1>1, <1>2

LEMMA ThreadInductive == Spec => []ThreadInv
  BY ThreadInitEstablishes, ThreadNextPreserves, PTL DEF Spec

--------------------------------------------------------------------------------
\* Whoever of the three frees the storage of a thread, nobody has it freed under his
\* feet.
THEOREM StorageSafe == Spec => []NoAccessAfterFree
  <1>1. ThreadInv => NoAccessAfterFree
    BY DEF ThreadInv, ControlExact, OneReleases, NoAccessAfterFree, TargetUses, JoinerUses,
       JoinerPCs, CancellerUses, Inside
  <1> QED
    BY ThreadInductive, <1>1, PTL

\* A join gets the status of the thread; only an asynchronous cancellation may have put
\* its own in the place.
THEOREM JoinGetsStatus == Spec => []JoinValue
  <1>1. ThreadInv => JoinValue
    BY DEF ThreadInv, ControlExact, OneReleases, CodeSound, StatusOf, HasJoined,
       Joined, JoinsWait, JoinValue
  <1> QED
    BY ThreadInductive, <1>1, PTL

\* A join returns when the thread has ended, and not before.
THEOREM JoinWaitsForEnd == Spec => []JoinAfterEnd
  <1>1. ThreadInv => JoinAfterEnd
    BY DEF ThreadInv, ControlExact, JoinSound, HasJoined, Joined, JoinsWait,
       JoinAfterEnd
  <1> QED
    BY ThreadInductive, <1>1, PTL

\* The storage of a thread that is detached or waited for is reclaimed, when it is
\* cancelled as well.
THEOREM StorageReclaimed == Spec => []Reclaimed
  <1>1. ThreadInv => Reclaimed
    BY DEF ThreadInv, ControlExact, ReleaseInTime, Joined, JoinsWait, Reclaimed
  <1> QED
    BY ThreadInductive, <1>1, PTL

--------------------------------------------------------------------------------
(* Priority: the priorities that the protocols of the mutexes leave behind.  *)

LockPCs == {"inherit", "info", "save", "boost", "protect", "raise", "wait", "own"}
UnlockPCs == {"signal", "reset", "lower"}
PriorityPCs == {"idle", "restore", "ceiling", "changed", "schedprio", "fault"}
                   \cup LockPCs \cup UnlockPCs

CallArgs == [call : Calls, on : Mutexes \cup Threads \cup {0}, prio : Priorities]

PriorityTypeOK ==
    /\ IsProgram(program)
    /\ protocol \in [Mutexes -> program.protocols]
    /\ prioceiling \in [Mutexes -> Ceilings]
    /\ owner \in [Mutexes -> Threads \cup {NULL}]
    /\ priority \in [Threads -> Priorities]
    /\ priomutex \in [Threads -> [Ceilings -> Nat]]
    /\ current \in [Threads -> Int]
    /\ pc \in [Threads -> PriorityPCs]
    /\ arg \in [Threads -> CallArgs]
    /\ myprio \in [Threads -> Int]
    /\ oldthread \in [Threads -> Threads \cup {NULL}]
    /\ oldprio \in [Threads -> Int]
    /\ locked \in [Threads -> SUBSET Mutexes]
    /\ disturbed \in BOOLEAN

\* The mutex of a lock or an unlock is not among those its caller has, and each
\* protocol is done to the mutexes that have it.
CallSound(t) ==
    /\ pc[t] \in LockPCs \cup UnlockPCs => on(t) \in Mutexes \ locked[t]
    /\ pc[t] \in {"ceiling", "changed"} => on(t) \in Mutexes
    /\ pc[t] = "ceiling" => arg[t].prio \in Ceilings
    /\ pc[t] \in {"inherit", "info", "save", "boost", "reset"} => protocol[on(t)] = "INHERIT"
    /\ pc[t] \in {"protect", "raise", "lower"} => protocol[on(t)] = "PROTECT"
    /\ pc[t] \in LockPCs => arg[t].call \in program.calls \cap LockCalls
    /\ pc[t] = "schedprio" => on(t) \in Threads /\ "setschedprio" \in program.calls
    /\ oldthread[t] # NULL => /\ pc[t] \in {"boost", "wait", "own", "restore", "fault"}
                             /\ "INHERIT" \in program.protocols
    /\ pc[t] = "restore" => oldthread[t] # NULL

CallsSound == \A t \in Threads : CallSound(t)

\* A ceiling that is being changed is that of a mutex which nobody has or asks for.
CeilingsKept ==
    program.careful => \A t, u \in Threads :
        pc[u] \in {"ceiling", "changed"}
            => /\ on(u) \notin locked[t]
               /\ pc[t] \in LockPCs \cup UnlockPCs => on(t) # on(u)

\* The counts of ceilings do not come near the end of a byte.
FewPerCeiling ==
    /\ \A t \in Threads : IsFiniteSet(locked[t])
    /\ Disciplined => \A t \in Threads :
           /\ \A p \in Ceilings : Cardinality(AtCeiling(t, p)) <= MutexesPerPriority
           /\ pc[t] = "protect"
                  => Cardinality(AtCeiling(t, prioceiling[on(t)])) < MutexesPerPriority

\* Threads with PRIO_PROTECT mutexes only run at their own priority or the highest of
\* the ceilings counted, but for those that are about to raise or set it, and those
\* whose own priority unlock does not find, which may keep a ceiling that is higher.
HighestOf(t, M) == Min({priority[t]} \cup {prioceiling[m] : m \in M})

Suits(t, x) == /\ current[t] <= x
               /\ priority[t] < Slots => current[t] = x

CeilingExact ==
    Protecting => \A t \in Threads :
        /\ pc[t] \notin {"raise", "schedprio"} => Suits(t, HighestOf(t, Counted(t)))
        /\ pc[t] = "raise" => /\ Suits(t, HighestOf(t, locked[t]))
                              /\ myprio[t] = current[t]
        /\ pc[t] = "schedprio" => /\ locked[t] = {} /\ on(t) = t
                                  /\ current[t] = arg[t].prio

\* A thread that does not run at its own priority has been raised by one who is going
\* to restore it; and what was saved for that is the owner's own.
Inheriting == /\ program.protocols = {"INHERIT"} /\ "setschedprio" \notin program.calls
              /\ ~disturbed

SavedIsOwn ==
    Inheriting => \A t \in Threads :
        /\ current[t] = priority[t] \/ \E u \in Threads : oldthread[u] = t
        /\ oldthread[t] # NULL => oldprio[t] = priority[oldthread[t]]
        /\ pc[t] = "save" /\ owner[on(t)] # NULL => oldprio[t] = priority[owner[on(t)]]
        /\ pc[t] = "boost" => owner[on(t)] \in {NULL, oldthread[t]}

PriorityInv == /\ PriorityTypeOK /\ CallsSound /\ CeilingsKept /\ FewPerCeiling
               /\ CeilingBooks /\ CeilingExact /\ SavedIsOwn

\* The step of one thread, under the quantifier of PriorityNext.
Step(t) == \/ \E m \in Mutexes : \/ \E call \in LockCalls : LockCall(t, call, m)
                                 \/ Unlock(t, m)
                                 \/ \E c \in Ceilings : SetPrioCeiling(t, m, c)
           \/ \E u \in Threads, p \in Priorities : SetSchedPrio(t, u, p)
           \/ Grant(t) \/ GiveUp(t) \/ CeilingChange(t)
           \/ Running(t)

USE DEF locals, mutexes, threads

LEMMA CeilingTypes ==
    /\ Ceilings \subseteq Priorities /\ Priorities \subseteq Nat
    /\ 0 \in Ceilings
    /\ \A p \in Priorities : p \in Ceilings <=> p < Slots
    /\ Slots \in Nat
  BY PriorityAssumption DEF Ceilings, Priorities

\* What FiniteSetsExt!Min chooses, which no theorem of the library states.
LEMMA Least ==
    ASSUME NEW S \in SUBSET Nat, S # {}
    PROVE  /\ Min(S) \in S
           /\ \A x \in S : Min(S) <= x
  <1> DEFINE R == {p \in Nat \X Nat : p[1] < p[2]}
  <1>1. IsWellFoundedOn(R, Nat)
    BY NatLessThanWellFounded DEF OpToRel
  <1>2. \E x \in S : \A y \in S : <<y, x>> \notin R
    <2> HIDE DEF R
    <2> QED
      BY <1>1, WFMin, Zenon
  <1>3. PICK x \in S : \A y \in S : <<y, x>> \notin R
    BY <1>2, Zenon
  <1>4. ASSUME NEW y \in S
        PROVE  x <= y
    <2>1. <<y, x>> \in Nat \X Nat /\ ~(y < x)
      BY <1>3, <1>4
    <2> QED
      BY <2>1
  <1> QED
    BY <1>4 DEF Min

LEMMA ArgTypes ==
    /\ NoCall \in CallArgs
    /\ \A r \in CallArgs : r.on \in Mutexes \cup Threads \cup {0} /\ r.prio \in Priorities
    /\ \A r \in CallArgs, x \in Mutexes \cup Threads :
           [r EXCEPT !.on = x] \in CallArgs /\ [r EXCEPT !.on = x].on = x
    /\ \A c \in Calls, x \in Mutexes \cup Threads, p \in Priorities :
           [call |-> c, on |-> x, prio |-> p] \in CallArgs
  BY PriorityAssumption DEF CallArgs, NoCall, Calls, LockCalls, Priorities

\* What a step of a thread from one place of its call to the next leaves alone.
LEMMA Going ==
    ASSUME PriorityTypeOK, NEW t \in Threads, NEW from, NEW to \in PriorityPCs,
           Go(t, from, to)
    PROVE  /\ pc[t] = from /\ pc'[t] = to
           /\ \A u \in Threads \ {t} : pc'[u] = pc[u]
           /\ pc' \in [Threads -> PriorityPCs]
  BY DEF PriorityTypeOK, Go, IsAt

LEMMA Entering ==
    ASSUME PriorityTypeOK, NEW t \in Threads, NEW to \in PriorityPCs, NEW call,
           NEW x \in Mutexes \cup Threads, NEW p \in Priorities, Enter(t, to, call, x, p)
    PROVE  /\ pc[t] = "idle" /\ pc'[t] = to
           /\ call \in program.calls
           /\ on(t)' = x /\ arg'[t].prio = p /\ arg'[t].call = call
           /\ \A u \in Threads \ {t} : pc'[u] = pc[u] /\ arg'[u] = arg[u]
           /\ pc' \in [Threads -> PriorityPCs]
           /\ arg' \in [Threads -> CallArgs]
  <1>1. [call |-> call, on |-> x, prio |-> p] \in CallArgs
    BY ArgTypes DEF PriorityTypeOK, Enter, IsProgram
  <1> QED
    BY <1>1 DEF PriorityTypeOK, Enter, Go, IsAt, on

LEMMA BeingDone ==
    ASSUME PriorityTypeOK, NEW t \in Threads, NEW from, Done(t, from)
    PROVE  /\ pc[t] = from /\ pc'[t] = "idle" /\ oldthread'[t] = NULL
           /\ \A u \in Threads \ {t} :
                 /\ pc'[u] = pc[u] /\ arg'[u] = arg[u] /\ myprio'[u] = myprio[u]
                 /\ oldthread'[u] = oldthread[u] /\ oldprio'[u] = oldprio[u]
           /\ pc' \in [Threads -> PriorityPCs]
           /\ arg' \in [Threads -> CallArgs]
           /\ myprio' \in [Threads -> Int]
           /\ oldthread' \in [Threads -> Threads \cup {NULL}]
           /\ oldprio' \in [Threads -> Int]
  BY ArgTypes DEF PriorityTypeOK, Done, Go, IsAt, PriorityPCs

--------------------------------------------------------------------------------
(* Each part of the invariant is kept by each step. *)

LEMMA TypeStep ==
    ASSUME PriorityTypeOK, CallsSound, NEW t \in Threads, Step(t)
    PROVE  PriorityTypeOK'
  <1>p. /\ 0 \in Priorities /\ Priorities \subseteq Nat /\ Ceilings \subseteq Priorities
        /\ \A p \in Priorities : p \in Int
    BY CeilingTypes
  <1>1. ASSUME NEW call \in LockCalls, NEW m \in Mutexes, LockCall(t, call, m)
        PROVE  PriorityTypeOK'
    <2>1. PICK to \in {"wait", "inherit", "protect"} : Enter(t, to, call, m, 0)
      BY <1>1 DEF LockCall
    <2> QED
      BY <1>1, <1>p, <2>1, Entering DEF LockCall, PriorityTypeOK, PriorityPCs, LockPCs
  <1>2. CASE InheritTest(t)
    BY <1>2 DEF InheritTest, PriorityTypeOK, Go, IsAt, PriorityPCs, LockPCs
  <1>3. CASE InheritInfo(t)
    <2>1. PICK to \in {"save", "wait"} : Go(t, "info", to)
      BY <1>3 DEF InheritInfo
    <2>2. oldprio' \in [Threads -> Int] /\ disturbed' \in BOOLEAN
      <3>1. on(t) \in Mutexes
        BY <1>3 DEF InheritInfo, IsAt, CallsSound, CallSound, LockPCs
      <3>2. owner[on(t)] \in Threads
        BY <1>3, <3>1 DEF InheritInfo, PriorityTypeOK
      <3> QED
        BY <1>3, <3>2 DEF InheritInfo, PriorityTypeOK
    <2> QED
      BY <1>3, <2>1, <2>2, Going DEF InheritInfo, PriorityTypeOK, PriorityPCs, LockPCs
  <1>4. CASE InheritSave(t)
    <2>1. on(t) \in Mutexes
      BY <1>4 DEF InheritSave, CallsSound, CallSound, Go, IsAt, LockPCs
    <2> QED
      BY <1>4, <2>1 DEF InheritSave, PriorityTypeOK, Go, IsAt, PriorityPCs, LockPCs
  <1>5. CASE InheritBoost(t)
    BY <1>5 DEF InheritBoost, PriorityTypeOK, Go, IsAt, PriorityPCs, LockPCs, ChangePriority
  <1>6. CASE InheritFaults(t)
    BY <1>6 DEF InheritFaults, PriorityTypeOK, Go, IsAt, PriorityPCs
  <1>7. CASE ProtectCount(t)
    <2>1. Plus(priomutex[t][prioceiling[on(t)]], 1) \in Nat
      <3>1. priomutex[t][prioceiling[on(t)]] \in Nat
        BY <1>7 DEF ProtectCount, CallsSound, CallSound, PriorityTypeOK, Go, IsAt, LockPCs
      <3> QED
        BY <3>1 DEF Plus
    <2>2. priomutex' \in [Threads -> [Ceilings -> Nat]]
      BY <1>7, <2>1 DEF ProtectCount, PriorityTypeOK
    <2> QED
      BY <1>7, <2>2 DEF ProtectCount, PriorityTypeOK, Go, IsAt, PriorityPCs, LockPCs
  <1>8. CASE ProtectRaise(t)
    <2>1. prioceiling[on(t)] \in Int
      <3>1. on(t) \in Mutexes
        BY <1>8 DEF ProtectRaise, CallsSound, CallSound, Go, IsAt, LockPCs
      <3> QED
        BY <3>1, <1>p DEF PriorityTypeOK
    <2> QED
      BY <1>8, <2>1
         DEF ProtectRaise, PriorityTypeOK, Go, IsAt, PriorityPCs, LockPCs, ChangePriority
  <1>9. CASE Grant(t)
    BY <1>9 DEF Grant, PriorityTypeOK, Go, IsAt, PriorityPCs, LockPCs
  <1>10. CASE GiveUp(t)
    BY <1>10, BeingDone DEF GiveUp, PriorityTypeOK
  <1>11. CASE SetOwner(t)
    <2>1. on(t) \in Mutexes
      BY <1>11 DEF SetOwner, IsAt, CallsSound, CallSound, LockPCs
    <2>2. /\ owner' \in [Mutexes -> Threads \cup {NULL}]
          /\ locked' \in [Threads -> SUBSET Mutexes]
          /\ disturbed' \in BOOLEAN
      BY <1>11, <2>1 DEF SetOwner, PriorityTypeOK
    <2>3. CASE oldthread[t] # NULL
      BY <1>11, <2>2, <2>3, Going DEF SetOwner, PriorityTypeOK, PriorityPCs
    <2>4. CASE oldthread[t] = NULL
      BY <1>11, <2>2, <2>4, BeingDone DEF SetOwner, PriorityTypeOK
    <2> QED
      BY <2>3, <2>4
  <1>12. CASE RestorePriority(t)
    BY <1>12, BeingDone DEF RestorePriority, PriorityTypeOK, ChangePriority
  <1>13. ASSUME NEW m \in Mutexes, Unlock(t, m)
         PROVE  PriorityTypeOK'
    <2>1. arg' \in [Threads -> CallArgs]
      <3>1. arg' = [arg EXCEPT ![t] = [arg[t] EXCEPT !.on = m]]
        BY <1>13 DEF Unlock
      <3> QED
        BY <3>1, ArgTypes DEF PriorityTypeOK
    <2> QED
      BY <1>13, <2>1 DEF Unlock, PriorityTypeOK, Go, IsAt, PriorityPCs, UnlockPCs
  <1>14. CASE UnlockSignal(t)
    BY <1>14 DEF UnlockSignal, PriorityTypeOK, Go, IsAt, PriorityPCs, UnlockPCs
  <1>15. CASE UnlockProtect(t)
    <2> DEFINE c == prioceiling[on(t)]
               counts == [priomutex[t] EXCEPT ![c] = Plus(@, 255)]
    <2>1. c \in Ceilings
      BY <1>15
         DEF UnlockProtect, Done, CallsSound, CallSound, PriorityTypeOK, Go, IsAt, UnlockPCs
    <2>2. Plus(priomutex[t][c], 255) \in Nat
      <3>1. priomutex[t][c] \in Nat
        BY <2>1 DEF PriorityTypeOK
      <3> QED
        BY <3>1 DEF Plus
    <2>3. counts \in [Ceilings -> Nat]
      BY <2>1, <2>2 DEF PriorityTypeOK
    <2>4. Own(t, counts) \in Int
      <3> DEFINE S == {i \in Ceilings : i = priority[t] \/ counts[i] > 0}
      <3>1. S \in SUBSET Nat
        BY <1>p
      <3>2. S # {} => Min(S) \in Nat
        <4> HIDE DEF S
        <4> QED
          BY <3>1, Least
      <3>3. current[t] \in Int
        BY DEF PriorityTypeOK
      <3> QED
        BY <3>2, <3>3 DEF Own
    <2>5. /\ priomutex' = [priomutex EXCEPT ![t] = counts]
          /\ current' = [current EXCEPT ![t] = Own(t, counts)]
      BY <1>15 DEF UnlockProtect, ChangePriority
    <2> HIDE DEF counts
    <2>6. priomutex' \in [Threads -> [Ceilings -> Nat]] /\ current' \in [Threads -> Int]
      BY <2>3, <2>4, <2>5 DEF PriorityTypeOK
    <2> QED
      BY <1>15, <2>6, BeingDone DEF UnlockProtect, PriorityTypeOK
  <1>16. CASE UnlockInherit(t)
    <2>1. priority[t] \in Int
      BY <1>p DEF PriorityTypeOK
    <2> QED
      BY <1>16, <2>1, BeingDone DEF UnlockInherit, PriorityTypeOK, ChangePriority
  <1>17. ASSUME NEW m \in Mutexes, NEW c \in Ceilings, SetPrioCeiling(t, m, c)
         PROVE  PriorityTypeOK'
    BY <1>17, <1>p, Entering DEF SetPrioCeiling, PriorityTypeOK, PriorityPCs
  <1>18. CASE CeilingChange(t)
    <2>1. arg[t].prio \in Ceilings
      BY <1>18 DEF CeilingChange, Go, IsAt, CallsSound, CallSound
    <2> QED
      BY <1>18, <2>1 DEF CeilingChange, PriorityTypeOK, Go, IsAt, PriorityPCs
  <1>19. CASE CeilingSignal(t)
    BY <1>19, BeingDone DEF CeilingSignal, PriorityTypeOK
  <1>20. ASSUME NEW u \in Threads, NEW p \in Priorities, SetSchedPrio(t, u, p)
         PROVE  PriorityTypeOK'
    <2>1. current' \in [Threads -> Int]
      BY <1>20, <1>p DEF SetSchedPrio, ChangePriority, PriorityTypeOK
    <2> QED
      BY <1>20, <2>1, Entering DEF SetSchedPrio, PriorityTypeOK, PriorityPCs
  <1>21. CASE SchedPrioRecord(t)
    <2>1. arg[t].prio \in Priorities
      BY ArgTypes DEF PriorityTypeOK
    <2> QED
      BY <1>21, <2>1, BeingDone DEF SchedPrioRecord, PriorityTypeOK
  <1> QED
    BY <1>1, <1>2, <1>3, <1>4, <1>5, <1>6, <1>7, <1>8, <1>9, <1>10, <1>11, <1>12, <1>13,
       <1>14, <1>15, <1>16, <1>17, <1>18, <1>19, <1>20, <1>21 DEF Step, Running

\* A step of one thread is not seen in the calls of the others.
LEMMA Others ==
    ASSUME PriorityTypeOK, CallsSound, NEW t \in Threads, Step(t)
    PROVE  /\ program' = program /\ protocol' = protocol
           /\ \A u \in Threads \ {t} :
                 /\ pc'[u] = pc[u] /\ arg'[u] = arg[u] /\ locked'[u] = locked[u]
                 /\ oldthread'[u] = oldthread[u] /\ oldprio'[u] = oldprio[u]
                 /\ myprio'[u] = myprio[u] /\ priomutex'[u] = priomutex[u]
  <1> USE DEF PriorityTypeOK
  <1>1. ASSUME NEW m \in Mutexes,
               \/ \E call \in LockCalls : LockCall(t, call, m)
               \/ \E c \in Ceilings : SetPrioCeiling(t, m, c)
        PROVE  /\ UNCHANGED <<program, protocol, locked, locals, priomutex>>
               /\ \A u \in Threads \ {t} : pc'[u] = pc[u] /\ arg'[u] = arg[u]
    BY <1>1 DEF LockCall, SetPrioCeiling, Enter, Go, IsAt
  <1>2. ASSUME NEW u \in Threads, NEW p \in Priorities, SetSchedPrio(t, u, p)
        PROVE  /\ UNCHANGED <<program, protocol, locked, locals, priomutex>>
               /\ \A v \in Threads \ {t} : pc'[v] = pc[v] /\ arg'[v] = arg[v]
    BY <1>2 DEF SetSchedPrio, Enter, Go, IsAt
  <1>3. ASSUME NEW m \in Mutexes, Unlock(t, m)
        PROVE  /\ UNCHANGED <<program, protocol, locals, priomutex>>
               /\ \A v \in Threads \ {t} : pc'[v] = pc[v] /\ arg'[v] = arg[v]
                                           /\ locked'[v] = locked[v]
    BY <1>3 DEF Unlock, Go, IsAt
  <1>4. CASE InheritTest(t) \/ InheritInfo(t) \/ InheritSave(t) \/ InheritBoost(t)
             \/ InheritFaults(t)
    BY <1>4 DEF InheritTest, InheritInfo, InheritSave, InheritBoost, InheritFaults, Go, IsAt
  <1>5. CASE ProtectCount(t) \/ ProtectRaise(t) \/ Grant(t) \/ CeilingChange(t)
             \/ UnlockSignal(t)
    BY <1>5 DEF ProtectCount, ProtectRaise, Grant, CeilingChange, UnlockSignal, Go, IsAt
  <1>6. CASE GiveUp(t) \/ RestorePriority(t) \/ UnlockInherit(t) \/ CeilingSignal(t)
             \/ SchedPrioRecord(t)
    BY <1>6, BeingDone
       DEF GiveUp, RestorePriority, UnlockInherit, CeilingSignal, SchedPrioRecord
  <1>7. CASE SetOwner(t)
    <2>1. /\ program' = program /\ protocol' = protocol /\ priomutex' = priomutex
          /\ \A u \in Threads \ {t} : locked'[u] = locked[u]
      BY <1>7 DEF SetOwner
    <2>2. CASE oldthread[t] # NULL
      BY <1>7, <2>1, <2>2, Going DEF SetOwner, PriorityPCs
    <2>3. CASE oldthread[t] = NULL
      BY <1>7, <2>1, <2>3, BeingDone DEF SetOwner
    <2> QED
      BY <2>2, <2>3
  <1>8. CASE UnlockProtect(t)
    <2>1. \A u \in Threads \ {t} : priomutex'[u] = priomutex[u]
      BY <1>8 DEF UnlockProtect
    <2> QED
      BY <1>8, <2>1, BeingDone DEF UnlockProtect
  <1> QED
    BY <1>1, <1>2, <1>3, <1>4, <1>5, <1>6, <1>7, <1>8 DEF Step, Running

LEMMA CallsStep ==
    ASSUME PriorityTypeOK, CallsSound, NEW t \in Threads, Step(t)
    PROVE  CallsSound'
  <1>0. /\ program' = program /\ protocol' = protocol
        /\ CallSound(t)
    BY Others DEF CallsSound
  <1>a. \A u \in Threads \ {t} : CallSound(u)'
    BY Others DEF CallsSound, CallSound, on
  <1> SUFFICES CallSound(t)'
    BY <1>a DEF CallsSound
  <1> DEFINE Moves(from, to) ==
                 /\ pc[t] = from /\ pc'[t] = to
                 /\ arg' = arg /\ locked' = locked /\ oldthread' = oldthread
  <1>1. ASSUME NEW call \in LockCalls, NEW m \in Mutexes, LockCall(t, call, m)
        PROVE  CallSound(t)'
    <2>1. m \notin locked[t] /\ locked' = locked /\ oldthread' = oldthread
      BY <1>1, MutexAssumption DEF LockCall
    <2>2. PICK to \in {"wait", "inherit", "protect"} :
               /\ Enter(t, to, call, m, 0)
               /\ to = "inherit" => protocol[m] = "INHERIT"
               /\ to = "protect" => protocol[m] = "PROTECT"
      <3>1. protocol[m] \in Protocols
        BY DEF IsProgram, PriorityTypeOK
      <3> QED
        BY <1>1, <3>1 DEF LockCall, Protocols
    <2>3. /\ pc[t] = "idle" /\ pc'[t] = to /\ on(t)' = m /\ arg'[t].call = call
          /\ call \in program.calls
      BY <2>2 DEF Enter, Go, IsAt, PriorityTypeOK, on
    <2> QED
      BY <1>0, <2>1, <2>2, <2>3 DEF CallSound, LockPCs, UnlockPCs
  <1>3. CASE InheritTest(t) \/ InheritInfo(t) \/ InheritBoost(t) \/ Grant(t)
    <2>1. \E from \in {"inherit", "info"}, to \in {"wait", "info", "save"} : Moves(from, to)
          \/ Moves("boost", "wait") \/ Moves("wait", "own")
      BY <1>3 DEF InheritTest, InheritInfo, InheritBoost, Grant, Go, IsAt, PriorityTypeOK
    <2> QED
      BY <1>0, <2>1 DEF CallSound, LockPCs, UnlockPCs, on
  <1>4. CASE InheritSave(t)
    <2>1. pc[t] = "save" /\ pc'[t] = "boost" /\ arg' = arg /\ locked' = locked
      BY <1>4 DEF InheritSave, Go, IsAt, PriorityTypeOK
    <2>2. protocol[on(t)] \in program.protocols
      BY <1>0, <2>1 DEF CallSound, LockPCs, PriorityTypeOK
    <2> QED
      BY <1>0, <2>1, <2>2 DEF CallSound, LockPCs, UnlockPCs, on
  <1>5. CASE InheritFaults(t)
    <2>1. pc'[t] = "fault" /\ oldthread' = oldthread
      BY <1>5 DEF InheritFaults, Go, IsAt, PriorityTypeOK
    <2> QED
      BY <1>0, <2>1 DEF CallSound, LockPCs, UnlockPCs
  <1>6. CASE ProtectCount(t) \/ ProtectRaise(t)
    <2>1. Moves("protect", "raise") \/ Moves("raise", "wait")
      BY <1>6 DEF ProtectCount, ProtectRaise, Go, IsAt, PriorityTypeOK
    <2> QED
      BY <1>0, <2>1 DEF CallSound, LockPCs, UnlockPCs, on
  <1>7. CASE CeilingChange(t)
    <2>1. Moves("ceiling", "changed")
      BY <1>7 DEF CeilingChange, Go, IsAt, PriorityTypeOK
    <2> QED
      BY <1>0, <2>1 DEF CallSound, LockPCs, UnlockPCs, on
  <1>8. ASSUME NEW from, Done(t, from)
        PROVE  CallSound(t)'
    <2>1. pc'[t] = "idle" /\ oldthread'[t] = NULL
      BY <1>8, BeingDone
    <2> QED
      BY <2>1 DEF CallSound, LockPCs, UnlockPCs
  <1>9. CASE SetOwner(t) /\ oldthread[t] # NULL
    <2>1. pc[t] = "own" /\ pc'[t] = "restore" /\ oldthread' = oldthread
      BY <1>9, Going DEF SetOwner, PriorityPCs
    <2> QED
      BY <1>0, <1>9, <2>1 DEF CallSound, LockPCs, UnlockPCs
  <1>10. ASSUME NEW m \in Mutexes, Unlock(t, m)
         PROVE  CallSound(t)'
    <2>1. on(t)' = m
      <3>1. arg' = [arg EXCEPT ![t] = [arg[t] EXCEPT !.on = m]]
        BY <1>10 DEF Unlock
      <3> QED
        BY <3>1, ArgTypes DEF PriorityTypeOK, on
    <2>2. /\ m \notin locked'[t] /\ pc[t] = "idle" /\ pc'[t] = "signal"
          /\ oldthread' = oldthread
      BY <1>10 DEF Unlock, Go, IsAt, PriorityTypeOK
    <2> QED
      BY <1>0, <2>1, <2>2 DEF CallSound, LockPCs, UnlockPCs
  <1>11. CASE UnlockSignal(t)
    <2>1. protocol[on(t)] \in Protocols
      BY <1>0, <1>11 DEF UnlockSignal, Go, IsAt, IsProgram, CallSound, UnlockPCs, PriorityTypeOK
    <2>2. \/ Moves("signal", "lower") /\ protocol[on(t)] = "PROTECT"
          \/ Moves("signal", "reset") /\ protocol[on(t)] = "INHERIT"
      BY <1>11, <2>1 DEF UnlockSignal, Go, IsAt, Protocols, PriorityTypeOK
    <2> QED
      BY <1>0, <2>2 DEF CallSound, LockPCs, UnlockPCs, on
  <1>12. ASSUME NEW m \in Mutexes, NEW c \in Ceilings, SetPrioCeiling(t, m, c)
         PROVE  CallSound(t)'
    <2>1. /\ pc[t] = "idle" /\ pc'[t] = "ceiling" /\ on(t)' = m /\ oldthread' = oldthread
          /\ arg'[t].prio = c
      BY <1>12, CeilingTypes, Entering DEF SetPrioCeiling, PriorityPCs
    <2> QED
      BY <1>0, <2>1 DEF CallSound, LockPCs, UnlockPCs
  <1>13. ASSUME NEW u \in Threads, NEW p \in Priorities, SetSchedPrio(t, u, p)
         PROVE  CallSound(t)'
    <2>1. /\ pc[t] = "idle" /\ pc'[t] = "schedprio" /\ on(t)' = u /\ oldthread' = oldthread
          /\ "setschedprio" \in program.calls
      BY <1>13, Entering DEF SetSchedPrio, PriorityPCs
    <2> QED
      BY <1>0, <2>1 DEF CallSound, LockPCs, UnlockPCs
  <1> QED
    <2>1. \/ GiveUp(t) \/ RestorePriority(t) \/ UnlockProtect(t) \/ UnlockInherit(t)
          \/ CeilingSignal(t) \/ SchedPrioRecord(t) \/ (SetOwner(t) /\ oldthread[t] = NULL)
          => \E from : Done(t, from)
      BY DEF GiveUp, RestorePriority, UnlockProtect, UnlockInherit, CeilingSignal,
             SchedPrioRecord, SetOwner
    <2>2. (\E from : Done(t, from)) => CallSound(t)'
      BY <1>8
    <2>3. CASE Running(t)
      BY <1>3, <1>4, <1>5, <1>6, <1>9, <1>11, <2>1, <2>2, <2>3 DEF Running
    <2> QED
      BY <1>1, <1>3, <1>7, <1>10, <1>12, <1>13, <2>1, <2>2, <2>3 DEF Step

LEMMA CeilingsStep ==
    ASSUME PriorityTypeOK, CallsSound, CeilingsKept, NEW t \in Threads, Step(t)
    PROVE  CeilingsKept'
  <1> DEFINE Busy == LockPCs \cup UnlockPCs
             Kept(v, u) == pc[u] \in {"ceiling", "changed"}
                              => on(u) \notin locked[v] /\ (pc[v] \in Busy => on(v) # on(u))
  <1>1. SUFFICES ASSUME program.careful, NEW v \in Threads, NEW u \in Threads,
                        pc'[u] \in {"ceiling", "changed"}
                 PROVE  on(u)' \notin locked'[v] /\ (pc'[v] \in Busy => on(v)' # on(u)')
    BY Others DEF CeilingsKept
  <1>2. \A w, x \in Threads : Kept(w, x)
    BY <1>1, Others DEF CeilingsKept
  \* What the thread asks for, unless it begins a call.
  <1>3. ASSUME \A m \in Mutexes :
                  ~Unlock(t, m) /\ \A call \in LockCalls : ~LockCall(t, call, m)
        PROVE  /\ pc'[t] \in Busy => pc[t] \in Busy /\ arg'[t] = arg[t]
               /\ \A m \in locked'[t] : m \in locked[t] \/ (pc[t] \in Busy /\ m = on(t))
    <2> DEFINE Steady == /\ pc'[t] \in Busy => pc[t] \in Busy /\ arg'[t] = arg[t]
                         /\ \A m \in locked'[t] :
                               m \in locked[t] \/ (pc[t] \in Busy /\ m = on(t))
    <2>1. CASE InheritTest(t) \/ InheritInfo(t) \/ InheritSave(t) \/ InheritBoost(t)
               \/ InheritFaults(t)
      <3>1. pc[t] \in LockPCs /\ arg' = arg /\ locked' = locked
        BY <2>1
           DEF InheritTest, InheritInfo, InheritSave, InheritBoost, InheritFaults, Go, IsAt,
                    LockPCs
      <3> QED
        BY <3>1
    <2>2. CASE ProtectCount(t) \/ ProtectRaise(t) \/ Grant(t) \/ UnlockSignal(t)
      <3>1. pc[t] \in Busy /\ arg' = arg /\ locked' = locked
        BY <2>2
           DEF ProtectCount, ProtectRaise, Grant, UnlockSignal, Go, IsAt, LockPCs, UnlockPCs
      <3> QED
        BY <3>1
    <2>3. CASE GiveUp(t) \/ RestorePriority(t) \/ UnlockProtect(t) \/ UnlockInherit(t)
               \/ CeilingSignal(t) \/ SchedPrioRecord(t)
      <3>1. pc'[t] = "idle" /\ locked' = locked
        BY <2>3, BeingDone DEF GiveUp, RestorePriority, UnlockProtect, UnlockInherit,
                               CeilingSignal, SchedPrioRecord
      <3> QED
        BY <3>1 DEF LockPCs, UnlockPCs
    <2>4. CASE SetOwner(t)
      <3>1. pc[t] \in Busy /\ locked'[t] = locked[t] \cup {on(t)}
        BY <2>4 DEF SetOwner, IsAt, PriorityTypeOK, LockPCs
      <3>2. pc'[t] \in {"idle", "restore"}
        BY <2>4 DEF SetOwner, Done, Go, IsAt, PriorityTypeOK
      <3> QED
        BY <3>1, <3>2 DEF LockPCs, UnlockPCs
    <2>5. CASE CeilingChange(t)
      <3>1. pc'[t] = "changed" /\ locked' = locked
        BY <2>5 DEF CeilingChange, Go, IsAt, PriorityTypeOK
      <3> QED
        BY <3>1 DEF LockPCs, UnlockPCs
    <2>6. ASSUME NEW m \in Mutexes, NEW c \in Ceilings, SetPrioCeiling(t, m, c)
          PROVE  Steady
      <3>1. pc'[t] = "ceiling" /\ locked' = locked
        BY <2>6 DEF SetPrioCeiling, Enter, Go, IsAt, PriorityTypeOK
      <3> QED
        BY <3>1 DEF LockPCs, UnlockPCs
    <2>7. ASSUME NEW x \in Threads, NEW p \in Priorities, SetSchedPrio(t, x, p)
          PROVE  Steady
      <3>1. pc'[t] = "schedprio" /\ locked' = locked
        BY <2>7 DEF SetSchedPrio, Enter, Go, IsAt, PriorityTypeOK
      <3> QED
        BY <3>1 DEF LockPCs, UnlockPCs
    <2>8. CASE Running(t)
      BY <2>1, <2>2, <2>3, <2>4, <2>8 DEF Running
    <2> HIDE DEF Busy
    <2> QED
      BY <1>3, <2>2, <2>3, <2>5, <2>6, <2>7, <2>8 DEF Step
  \* Others that are changing a ceiling.
  <1>4. CASE u # t /\ v # t
    BY <1>1, <1>2, <1>4, Others DEF on
  <1>5. CASE u # t /\ v = t
    <2>1. /\ pc[u] \in {"ceiling", "changed"} /\ on(u)' = on(u)
          /\ Kept(t, u)
      BY <1>1, <1>2, <1>5, Others DEF on
    <2>2. ASSUME NEW m \in Mutexes, Unlock(t, m)
          PROVE  m # on(u) /\ on(t)' = m /\ locked'[t] \subseteq locked[t]
      <3>1. arg' = [arg EXCEPT ![t] = [arg[t] EXCEPT !.on = m]]
        BY <2>2 DEF Unlock
      <3>2. on(t)' = m
        BY <3>1, ArgTypes DEF PriorityTypeOK, on
      <3> QED
        BY <2>1, <2>2, <3>2 DEF Unlock, PriorityTypeOK
    <2>3. ASSUME NEW m \in Mutexes, NEW call \in LockCalls, LockCall(t, call, m)
          PROVE  m # on(u) /\ on(t)' = m /\ locked' = locked
      <3>1. m # on(u) /\ locked' = locked
        BY <1>1, <2>1, <2>3 DEF LockCall, CeilingChanges
      <3>2. PICK to \in {"wait", "inherit", "protect"} : Enter(t, to, call, m, 0)
        BY <2>3 DEF LockCall
      <3>3. on(t)' = m
        BY <3>2 DEF Enter, PriorityTypeOK, on
      <3> QED
        BY <3>1, <3>3
    <2>4. CASE \A m \in Mutexes :
                  ~Unlock(t, m) /\ \A call \in LockCalls : ~LockCall(t, call, m)
      <3> HIDE DEF Busy
      <3> QED
        BY <1>3, <1>5, <2>1, <2>4 DEF on
    <2> QED
      BY <1>5, <2>1, <2>2, <2>3, <2>4
  \* The thread changes a ceiling itself.
  <1>6. CASE u = t
    <2>1. ASSUME NEW m \in Mutexes, NEW c \in Ceilings, SetPrioCeiling(t, m, c)
          PROVE  on(t)' \notin locked'[v] /\ (pc'[v] \in Busy => on(v)' # on(t)')
      <3>1. /\ on(t)' = m /\ locked' = locked /\ m \notin locked[t] /\ Quiet(m, t)
            /\ pc'[t] = "ceiling"
        BY <1>1, <2>1 DEF SetPrioCeiling, Enter, Go, IsAt, on, PriorityTypeOK
      <3>2. CASE v = t
        BY <3>1, <3>2 DEF LockPCs, UnlockPCs
      <3>3. CASE v # t
        BY <3>1, <3>3, Others DEF Quiet, on, LockPCs, UnlockPCs
      <3> QED
        BY <3>2, <3>3
    <2>2. CASE CeilingChange(t)
      <3>1. pc[t] = "ceiling" /\ pc'[t] = "changed" /\ arg' = arg /\ locked' = locked
        BY <2>2 DEF CeilingChange, Go, IsAt, PriorityTypeOK
      <3>2. CASE v = t
        BY <1>2, <1>6, <3>1, <3>2 DEF on, LockPCs, UnlockPCs
      <3>3. CASE v # t
        BY <1>2, <1>6, <3>1, <3>3, Others DEF on
      <3> QED
        BY <1>6, <3>2, <3>3
    <2>3. ASSUME pc'[t] \in {"ceiling", "changed"}
          PROVE  \/ CeilingChange(t)
                 \/ \E m \in Mutexes, c \in Ceilings : SetPrioCeiling(t, m, c)
      <3>1. ASSUME InheritTest(t) \/ InheritInfo(t) \/ InheritSave(t) \/ InheritBoost(t)
                 \/ InheritFaults(t) \/ ProtectCount(t) \/ ProtectRaise(t) \/ Grant(t)
                 \/ UnlockSignal(t)
            PROVE  FALSE
        BY <2>3, <3>1
           DEF InheritTest, InheritInfo, InheritSave, InheritBoost, InheritFaults,
               ProtectCount, ProtectRaise, Grant, UnlockSignal, Go, IsAt, PriorityTypeOK
      <3>2. ASSUME GiveUp(t) \/ RestorePriority(t) \/ UnlockProtect(t) \/ UnlockInherit(t)
                 \/ CeilingSignal(t) \/ SchedPrioRecord(t) \/ SetOwner(t)
            PROVE  FALSE
        BY <2>3, <3>2
           DEF GiveUp, RestorePriority, UnlockProtect, UnlockInherit, CeilingSignal,
               SchedPrioRecord, SetOwner, Done, Go, IsAt, PriorityTypeOK
      <3>3. ASSUME NEW m \in Mutexes,
                   Unlock(t, m) \/ \E call \in LockCalls : LockCall(t, call, m)
            PROVE  FALSE
        BY <2>3, <3>3 DEF Unlock, LockCall, Enter, Go, IsAt, PriorityTypeOK
      <3>4. ASSUME NEW x \in Threads, NEW p \in Priorities, SetSchedPrio(t, x, p)
            PROVE  FALSE
        BY <2>3, <3>4 DEF SetSchedPrio, Enter, Go, IsAt, PriorityTypeOK
      <3> QED
        BY <3>1, <3>2, <3>3, <3>4 DEF Step, Running
    <2> QED
      BY <1>1, <1>6, <2>1, <2>2, <2>3
  <1> QED
    BY <1>4, <1>5, <1>6

\* What a step does to the ceilings that are counted, when the program is disciplined.
LEMMA Counting ==
    ASSUME PriorityTypeOK, CallsSound, Disciplined, NEW t \in Threads, Step(t)
    PROVE  /\ ~ProtectCount(t) /\ ~UnlockProtect(t) => Counted(t)' = Counted(t)
           /\ ProtectCount(t) => /\ Counted(t) = {m \in locked[t] : protocol[m] = "PROTECT"}
                                 /\ Counted(t)' = Counted(t) \cup {on(t)}
                                 /\ on(t) \in Mutexes \ Counted(t)
           /\ UnlockProtect(t) => /\ Counted(t)' = Counted(t) \ {on(t)}
                                  /\ on(t) \in Counted(t)
  <1>0. protocol' = protocol /\ CallSound(t)
    BY Others DEF CallsSound
  <1> DEFINE Held(u) == {m \in locked[u] : protocol[m] = "PROTECT"}
             Asked(u) == pc[u] \in {"raise", "wait", "own", "signal", "lower"}
                         /\ protocol[on(u)] = "PROTECT"
  <1>1. Counted(t) = Held(t) \cup (IF Asked(t) THEN {on(t)} ELSE {})
    BY DEF Counted
  <1>2. Counted(t)' = Held(t)' \cup (IF Asked(t)' THEN {on(t)'} ELSE {})
    BY DEF Counted
  <1>3. ASSUME Held(t)' = Held(t), Asked(t)' = Asked(t), Asked(t) => on(t)' = on(t)
        PROVE  Counted(t)' = Counted(t)
    BY <1>1, <1>2, <1>3
  <1>4. ASSUME locked'[t] = locked[t], ~Asked(t), ~Asked(t)'
        PROVE  Counted(t)' = Counted(t)
    BY <1>0, <1>1, <1>2, <1>4
  <1>5. ASSUME locked' = locked, arg' = arg, Asked(t)' = Asked(t)
        PROVE  Counted(t)' = Counted(t)
    BY <1>0, <1>1, <1>2, <1>5 DEF on
  <1>6. ASSUME NEW m \in Mutexes, NEW call \in LockCalls, LockCall(t, call, m)
        PROVE  Counted(t)' = Counted(t)
    <2>1. locked' = locked /\ pc[t] = "idle"
      BY <1>6 DEF LockCall, Enter, Go, IsAt
    <2>2. call \in program.calls
      BY <1>6 DEF LockCall, Enter
    <2>3. pc'[t] \in {"inherit", "protect"}
      BY <1>6, <2>2 DEF LockCall, Enter, Go, IsAt, PriorityTypeOK, Disciplined, LockCalls
    <2> QED
      BY <1>4, <2>1, <2>3
  <1>7. ASSUME InheritTest(t) \/ InheritInfo(t) \/ InheritSave(t) \/ InheritBoost(t)
             \/ InheritFaults(t)
        PROVE  Counted(t)' = Counted(t)
    <2>1. /\ pc[t] \in {"inherit", "info", "save", "boost"}
          /\ arg' = arg /\ locked' = locked
      BY <1>7 DEF InheritTest, InheritInfo, InheritSave, InheritBoost, InheritFaults, Go, IsAt
    <2>2. protocol[on(t)] = "INHERIT" /\ on(t)' = on(t)
      BY <1>0, <2>1 DEF CallSound, on
    <2> QED
      BY <1>0, <1>4, <2>1, <2>2
  <1>8. ASSUME ProtectRaise(t) \/ Grant(t)
        PROVE  Counted(t)' = Counted(t)
    <2>1. /\ pc[t] \in {"raise", "wait"} /\ pc'[t] \in {"wait", "own"}
          /\ arg' = arg /\ locked' = locked
      BY <1>8 DEF ProtectRaise, Grant, Go, IsAt, PriorityTypeOK
    <2> QED
      BY <1>0, <1>5, <2>1 DEF on
  <1>9. CASE ProtectCount(t)
    <2>1. /\ pc[t] = "protect" /\ pc'[t] = "raise" /\ arg' = arg /\ locked' = locked
      BY <1>9 DEF ProtectCount, Go, IsAt, PriorityTypeOK
    <2>2. protocol[on(t)] = "PROTECT" /\ on(t) \in Mutexes \ locked[t] /\ on(t)' = on(t)
      BY <1>0, <2>1 DEF CallSound, on, LockPCs
    <2>3. Counted(t) = Held(t) /\ Held(t)' = Held(t)
      BY <1>0, <1>1, <2>1
    <2> QED
      BY <1>0, <1>1, <1>2, <1>9, <2>1, <2>2, <2>3 DEF UnlockProtect, Done, Go, IsAt
  <1>10. ASSUME SetOwner(t)
        PROVE  Counted(t)' = Counted(t)
    <2>1. /\ pc[t] = "own" /\ locked'[t] = locked[t] \cup {on(t)}
      BY <1>10 DEF SetOwner, IsAt, PriorityTypeOK
    <2>2. pc'[t] \in {"idle", "restore"}
      BY <1>10 DEF SetOwner, Done, Go, IsAt, PriorityTypeOK
    <2> QED
      BY <1>0, <1>1, <1>2, <2>1, <2>2
  <1>11. ASSUME GiveUp(t)
        PROVE  Counted(t)' = Counted(t)
    <2>1. pc[t] = "wait" /\ arg[t].call \in {"timedlock", "trylock"}
      BY <1>11 DEF GiveUp, Done, Go, IsAt
    <2> QED
      BY <1>0, <2>1 DEF CallSound, LockPCs, Disciplined
  <1>12. ASSUME RestorePriority(t) \/ UnlockInherit(t) \/ CeilingSignal(t)
                \/ SchedPrioRecord(t)
        PROVE  Counted(t)' = Counted(t)
    <2>1. /\ pc[t] \in {"restore", "reset", "changed", "schedprio"} /\ pc'[t] = "idle"
          /\ locked' = locked
      BY <1>12, BeingDone
         DEF RestorePriority, UnlockInherit, CeilingSignal, SchedPrioRecord
    <2> QED
      BY <1>4, <2>1
  <1>13. ASSUME NEW m \in Mutexes, Unlock(t, m)
         PROVE  Counted(t)' = Counted(t)
    <2>1. arg' = [arg EXCEPT ![t] = [arg[t] EXCEPT !.on = m]]
      BY <1>13 DEF Unlock
    <2>2. on(t)' = m
      BY <2>1, ArgTypes DEF PriorityTypeOK, on
    <2>3. /\ pc[t] = "idle" /\ pc'[t] = "signal" /\ locked'[t] = locked[t] \ {m}
          /\ m \in locked[t]
      BY <1>13 DEF Unlock, Go, IsAt, PriorityTypeOK
    <2> QED
      BY <1>0, <1>1, <1>2, <2>2, <2>3
  <1>14. ASSUME UnlockSignal(t)
        PROVE  Counted(t)' = Counted(t)
    <2>1. /\ pc[t] = "signal" /\ arg' = arg /\ locked' = locked
          /\ pc'[t] = IF protocol[on(t)] = "PROTECT" THEN "lower" ELSE "reset"
      BY <1>14 DEF UnlockSignal, Go, IsAt, PriorityTypeOK
    <2> QED
      BY <1>0, <1>5, <2>1 DEF on
  <1>15. CASE UnlockProtect(t)
    <2>1. pc[t] = "lower" /\ pc'[t] = "idle" /\ locked' = locked
      BY <1>15, BeingDone DEF UnlockProtect
    <2>2. protocol[on(t)] = "PROTECT" /\ on(t) \in Mutexes \ locked[t]
      BY <1>0, <2>1 DEF CallSound, UnlockPCs
    <2>3. Counted(t)' = Held(t) /\ Counted(t) = Held(t) \cup {on(t)}
      BY <1>0, <1>1, <1>2, <2>1, <2>2
    <2> QED
      BY <1>15, <2>1, <2>2, <2>3 DEF ProtectCount, Go, IsAt
  <1>16. ASSUME CeilingChange(t)
        PROVE  Counted(t)' = Counted(t)
    <2>1. pc[t] = "ceiling" /\ pc'[t] = "changed" /\ locked' = locked
      BY <1>16 DEF CeilingChange, Go, IsAt, PriorityTypeOK
    <2> QED
      BY <1>4, <2>1
  <1>17. ASSUME NEW m \in Mutexes, NEW c \in Ceilings, SetPrioCeiling(t, m, c)
         PROVE  Counted(t)' = Counted(t)
    <2>1. pc[t] = "idle" /\ pc'[t] = "ceiling" /\ locked' = locked
      BY <1>17 DEF SetPrioCeiling, Enter, Go, IsAt, PriorityTypeOK
    <2> QED
      BY <1>4, <2>1
  <1>18. ASSUME NEW u \in Threads, NEW p \in Priorities, SetSchedPrio(t, u, p)
         PROVE  Counted(t)' = Counted(t)
    <2>1. pc[t] = "idle" /\ pc'[t] = "schedprio" /\ locked' = locked
      BY <1>18 DEF SetSchedPrio, Enter, Go, IsAt, PriorityTypeOK
    <2> QED
      BY <1>4, <2>1
  <1> HIDE DEF Held, Asked
  <1>19. ASSUME Running(t), ~ProtectCount(t), ~UnlockProtect(t)
         PROVE  Counted(t)' = Counted(t)
    BY <1>7, <1>8, <1>10, <1>12, <1>14, <1>19 DEF Running
  <1>20. ASSUME ~ProtectCount(t), ~UnlockProtect(t)
         PROVE  Counted(t)' = Counted(t)
    BY <1>6, <1>8, <1>11, <1>13, <1>16, <1>17, <1>18, <1>19, <1>20 DEF Step
  <1> QED
    BY <1>9, <1>15, <1>20

--------------------------------------------------------------------------------
(* The counts of ceilings. *)

LEMMA CountedFinite ==
    ASSUME NEW u \in Threads, IsFiniteSet(locked[u])
    PROVE  /\ IsFiniteSet(Counted(u))
           /\ \A p : IsFiniteSet(AtCeiling(u, p))
  <1>1. IsFiniteSet(locked[u] \cup {on(u)})
    BY FS_AddElement
  <1>2. Counted(u) \subseteq locked[u] \cup {on(u)}
    BY DEF Counted
  <1>3. IsFiniteSet(Counted(u))
    BY <1>1, <1>2, FS_Subset
  <1>4. \A p : AtCeiling(u, p) \subseteq Counted(u)
    BY DEF AtCeiling
  <1> QED
    BY <1>3, <1>4, FS_Subset

\* The ceilings that are counted, or about to be, do not change.
LEMMA CountedCeilings ==
    ASSUME PriorityTypeOK, CallsSound, CeilingsKept, Disciplined,
           NEW t \in Threads, Step(t), NEW v \in Threads
    PROVE  /\ Counted(v) \subseteq Mutexes
           /\ \A m \in Counted(v) : prioceiling'[m] = prioceiling[m]
           /\ pc[v] = "protect" => prioceiling'[on(v)] = prioceiling[on(v)]
  <1>1. CallSound(v) /\ locked[v] \subseteq Mutexes
    BY DEF CallsSound, PriorityTypeOK
  <1>2. \A m \in Counted(v) :
           /\ m \in Mutexes
           /\ m \in locked[v] \/ (pc[v] \in LockPCs \cup UnlockPCs /\ m = on(v))
    BY <1>1 DEF CallSound, Counted, LockPCs, UnlockPCs
  <1>3. CASE CeilingChange(t)
    <2>1. /\ pc[t] = "ceiling"
          /\ \A m \in Mutexes \ {on(t)} : prioceiling'[m] = prioceiling[m]
      BY <1>3 DEF CeilingChange, Go, IsAt, PriorityTypeOK
    <2>2. /\ on(t) \notin locked[v]
          /\ pc[v] \in LockPCs \cup UnlockPCs => on(v) # on(t)
      BY <2>1 DEF CeilingsKept, Disciplined
    <2>3. pc[v] = "protect" => on(v) \in Mutexes /\ on(v) # on(t)
      BY <1>1, <2>2 DEF CallSound, LockPCs
    <2> QED
      BY <1>2, <2>1, <2>2, <2>3
  <1>4. CASE prioceiling' = prioceiling
    BY <1>2, <1>4
  <1>5. CeilingChange(t) \/ prioceiling' = prioceiling
    BY DEF Step, Running, LockCall, InheritTest, InheritInfo, InheritSave, InheritBoost,
           InheritFaults, ProtectCount, ProtectRaise, Grant, GiveUp, SetOwner,
           RestorePriority, Unlock, UnlockSignal, UnlockProtect, UnlockInherit,
           SetPrioCeiling, CeilingSignal, SetSchedPrio, SchedPrioRecord
  <1> QED
    BY <1>3, <1>4, <1>5

\* A thread that is about to count a ceiling has just begun to lock the mutex.
LEMMA AboutToCount ==
    ASSUME PriorityTypeOK, CallsSound, Disciplined, NEW t \in Threads, Step(t),
           pc'[t] = "protect"
    PROVE  /\ prioceiling' = prioceiling
           /\ Cardinality(AtCeiling(t, prioceiling[on(t)'])) < MutexesPerPriority
  <1>1. ASSUME NEW m \in Mutexes, NEW call \in LockCalls, LockCall(t, call, m)
        PROVE  /\ prioceiling' = prioceiling
               /\ Cardinality(AtCeiling(t, prioceiling[on(t)'])) < MutexesPerPriority
    <2>1. on(t)' = m
      BY <1>1 DEF LockCall, Enter, PriorityTypeOK, on
    <2> QED
      BY <1>1, <2>1 DEF LockCall, Disciplined
  <1>2. ASSUME InheritTest(t) \/ InheritInfo(t) \/ InheritSave(t) \/ InheritBoost(t)
               \/ InheritFaults(t) \/ ProtectCount(t) \/ ProtectRaise(t) \/ Grant(t)
               \/ UnlockSignal(t) \/ CeilingChange(t)
        PROVE  FALSE
    BY <1>2 DEF InheritTest, InheritInfo, InheritSave, InheritBoost, InheritFaults,
               ProtectCount, ProtectRaise, Grant, UnlockSignal, CeilingChange, Go, IsAt,
                PriorityTypeOK
  <1>3. ASSUME GiveUp(t) \/ RestorePriority(t) \/ UnlockProtect(t) \/ UnlockInherit(t)
               \/ CeilingSignal(t) \/ SchedPrioRecord(t) \/ SetOwner(t)
        PROVE  FALSE
    BY <1>3 DEF GiveUp, RestorePriority, UnlockProtect, UnlockInherit, CeilingSignal,
                SchedPrioRecord, SetOwner, Done, Go, IsAt, PriorityTypeOK
  <1>4. ASSUME NEW m \in Mutexes,
               Unlock(t, m) \/ \E c \in Ceilings : SetPrioCeiling(t, m, c)
        PROVE  FALSE
    BY <1>4 DEF Unlock, SetPrioCeiling, Enter, Go, IsAt, PriorityTypeOK
  <1>5. ASSUME NEW u \in Threads, NEW p \in Priorities, SetSchedPrio(t, u, p)
        PROVE  FALSE
    BY <1>5 DEF SetSchedPrio, Enter, Go, IsAt, PriorityTypeOK
  <1> QED
    BY <1>1, <1>2, <1>3, <1>4, <1>5 DEF Step, Running

LEMMA FiniteStep ==
    ASSUME PriorityTypeOK, CallsSound, NEW t \in Threads, Step(t),
           \A u \in Threads : IsFiniteSet(locked[u])
    PROVE  \A u \in Threads : IsFiniteSet(locked'[u])
  <1>1. CASE SetOwner(t)
    <2>1. locked'[t] = locked[t] \cup {on(t)} /\ IsFiniteSet(locked[t])
      BY <1>1 DEF SetOwner, PriorityTypeOK
    <2>2. IsFiniteSet(locked'[t])
      BY <2>1, FS_AddElement
    <2> QED
      BY <2>2, Others
  <1>2. ASSUME NEW m \in Mutexes, Unlock(t, m)
        PROVE  \A u \in Threads : IsFiniteSet(locked'[u])
    <2>1. locked'[t] = locked[t] \ {m} /\ IsFiniteSet(locked[t])
      BY <1>2 DEF Unlock, PriorityTypeOK
    <2>2. IsFiniteSet(locked'[t])
      BY <2>1, FS_Subset
    <2> QED
      BY <2>2, Others
  <1>3. CASE locked' = locked
    BY <1>3
  <1>4. SetOwner(t) \/ (\E m \in Mutexes : Unlock(t, m)) \/ locked' = locked
    BY DEF Step, Running, LockCall, InheritTest, InheritInfo, InheritSave, InheritBoost,
           InheritFaults, ProtectCount, ProtectRaise, Grant, GiveUp, CeilingChange,
           RestorePriority, UnlockSignal, UnlockProtect, UnlockInherit,
           SetPrioCeiling, CeilingSignal, SetSchedPrio, SchedPrioRecord
  <1> QED
    BY <1>1, <1>2, <1>3, <1>4

LEMMA BooksStep ==
    ASSUME PriorityTypeOK, CallsSound, CeilingsKept, FewPerCeiling, CeilingBooks,
           NEW t \in Threads, Step(t)
    PROVE  FewPerCeiling' /\ CeilingBooks'
  <1>1. \A u \in Threads : IsFiniteSet(locked'[u])
    BY FiniteStep DEF FewPerCeiling
  <1>2. SUFFICES ASSUME Disciplined, NEW u \in Threads
                 PROVE  /\ \A p \in Ceilings :
                              /\ Cardinality(AtCeiling(u, p)') <= MutexesPerPriority
                              /\ priomutex'[u][p] = Cardinality(AtCeiling(u, p)')
                        /\ pc'[u] = "protect" =>
                           Cardinality(AtCeiling(u, prioceiling[on(u)])') < MutexesPerPriority
    BY <1>1, Others DEF FewPerCeiling, CeilingBooks, Disciplined
  <1>3. /\ \A p \in Ceilings :
              /\ Cardinality(AtCeiling(u, p)) <= MutexesPerPriority
              /\ priomutex[u][p] = Cardinality(AtCeiling(u, p))
              /\ IsFiniteSet(AtCeiling(u, p))
        /\ pc[u] = "protect" =>
              Cardinality(AtCeiling(u, prioceiling[on(u)])) < MutexesPerPriority
        /\ prioceiling \in [Mutexes -> Ceilings]
    BY <1>2, CountedFinite DEF FewPerCeiling, CeilingBooks, PriorityTypeOK
  <1>4. \A m \in Counted(u) : m \in Mutexes /\ prioceiling'[m] = prioceiling[m]
    BY <1>2, CountedCeilings
  <1>5. ASSUME Counted(u)' = Counted(u), priomutex'[u] = priomutex[u]
        PROVE  /\ \A p : AtCeiling(u, p)' = AtCeiling(u, p)
               /\ \A p \in Ceilings :
                              /\ Cardinality(AtCeiling(u, p)') <= MutexesPerPriority
                              /\ priomutex'[u][p] = Cardinality(AtCeiling(u, p)')
    <2>1. \A p : AtCeiling(u, p)' = AtCeiling(u, p)
      BY <1>4, <1>5 DEF AtCeiling
    <2> QED
      BY <1>3, <1>5, <2>1
  <1>6. CASE u # t
    <2>1. /\ pc'[u] = pc[u] /\ on(u)' = on(u) /\ priomutex'[u] = priomutex[u]
          /\ Counted(u)' = Counted(u)
      BY <1>6, Others DEF Counted, on
    <2>2. pc[u] = "protect" => prioceiling'[on(u)] = prioceiling[on(u)]
      BY <1>2, CountedCeilings
    <2>3. pc[u] = "protect"
              => AtCeiling(u, prioceiling[on(u)])' = AtCeiling(u, prioceiling[on(u)])
      BY <1>4, <2>1, <2>2 DEF AtCeiling
    <2> QED
      BY <1>3, <1>5, <2>1, <2>3
  <1>7. CASE u = t /\ ~ProtectCount(t) /\ ~UnlockProtect(t)
    <2>1. Counted(u)' = Counted(u)
      BY <1>2, <1>7, Counting
    <2>2. priomutex'[u] = priomutex[u]
      BY <1>7
         DEF Step, Running, LockCall, InheritTest, InheritInfo, InheritSave, InheritBoost,
           InheritFaults, ProtectRaise, Grant, GiveUp, SetOwner, CeilingChange,
           RestorePriority, Unlock, UnlockSignal, UnlockInherit,
           SetPrioCeiling, CeilingSignal, SetSchedPrio, SchedPrioRecord
    <2>3. ASSUME pc'[u] = "protect"
          PROVE  Cardinality(AtCeiling(u, prioceiling[on(u)])') < MutexesPerPriority
      <3>1. /\ prioceiling' = prioceiling
            /\ Cardinality(AtCeiling(u, prioceiling[on(u)'])) < MutexesPerPriority
        BY <1>2, <1>7, <2>3, AboutToCount
      <3>2. AtCeiling(u, prioceiling[on(u)])' = AtCeiling(u, prioceiling[on(u)'])
        BY <2>1, <3>1 DEF AtCeiling
      <3> QED
        BY <3>1, <3>2
    <2> QED
      BY <1>5, <2>1, <2>2, <2>3
  <1>8. CASE u = t /\ ProtectCount(t)
    <2>1. /\ Counted(t)' = Counted(t) \cup {on(t)} /\ on(t) \in Mutexes \ Counted(t)
      BY <1>2, <1>8, Counting
    <2>2. PICK c \in Ceilings : c = prioceiling[on(t)]
      BY <2>1 DEF PriorityTypeOK
    <2>3. /\ prioceiling' = prioceiling /\ pc[t] = "protect" /\ pc'[t] = "raise"
          /\ priomutex' = [priomutex EXCEPT ![t] = [priomutex[t] EXCEPT ![c] = Plus(@, 1)]]
      BY <1>8, <2>2 DEF ProtectCount, Go, IsAt, PriorityTypeOK
    <2>4. \A p \in Ceilings : p # c => AtCeiling(t, p)' = AtCeiling(t, p)
      BY <2>1, <2>2, <2>3 DEF AtCeiling
    <2>5. AtCeiling(t, c)' = AtCeiling(t, c) \cup {on(t)} /\ on(t) \notin AtCeiling(t, c)
      BY <2>1, <2>2, <2>3 DEF AtCeiling
    <2>6. Cardinality(AtCeiling(t, c)') = Cardinality(AtCeiling(t, c)) + 1
      BY <1>3, <1>8, <2>5, FS_AddElement
    <2>7. Cardinality(AtCeiling(t, c)) \in Nat /\ Cardinality(AtCeiling(t, c)) < 128
      BY <1>3, <1>8, <2>2, <2>3, FS_CardinalityType DEF MutexesPerPriority
    <2>8. Plus(Cardinality(AtCeiling(t, c)), 1) = Cardinality(AtCeiling(t, c)) + 1
      BY <2>7 DEF Plus
    <2>9. /\ priomutex'[t][c] = Cardinality(AtCeiling(t, c)) + 1
          /\ \A p \in Ceilings : p # c => priomutex'[t][p] = priomutex[t][p]
      BY <1>3, <1>8, <2>3, <2>8 DEF PriorityTypeOK
    <2>10. \A p \in Ceilings :
              /\ Cardinality(AtCeiling(t, p)') <= MutexesPerPriority
              /\ priomutex'[t][p] = Cardinality(AtCeiling(t, p)')
      <3> SUFFICES ASSUME NEW p \in Ceilings
                   PROVE  /\ Cardinality(AtCeiling(t, p)') <= MutexesPerPriority
                          /\ priomutex'[t][p] = Cardinality(AtCeiling(t, p)')
        OBVIOUS
      <3>1. CASE p = c
        BY <2>6, <2>7, <2>9, <3>1 DEF MutexesPerPriority
      <3>2. CASE p # c
        BY <1>3, <1>8, <2>4, <2>9, <3>2
      <3> QED
        BY <3>1, <3>2
    <2> QED
      BY <1>8, <2>3, <2>10
  <1>9. CASE u = t /\ UnlockProtect(t)
    <2>1. Counted(t)' = Counted(t) \ {on(t)} /\ on(t) \in Counted(t)
      BY <1>2, <1>9, Counting
    <2>2. PICK c \in Ceilings : c = prioceiling[on(t)]
      BY <1>3, <1>4, <1>9, <2>1
    <2>3. pc'[t] = "idle" /\ prioceiling' = prioceiling
      BY <1>9, BeingDone DEF UnlockProtect
    <2>4. priomutex' = [priomutex EXCEPT ![t] = [priomutex[t] EXCEPT ![c] = Plus(@, 255)]]
      BY <1>9, <2>2 DEF UnlockProtect
    <2>5. \A p \in Ceilings : p # c => AtCeiling(t, p)' = AtCeiling(t, p)
      BY <2>1, <2>2, <2>3 DEF AtCeiling
    <2>6. AtCeiling(t, c)' = AtCeiling(t, c) \ {on(t)} /\ on(t) \in AtCeiling(t, c)
      BY <2>1, <2>2, <2>3 DEF AtCeiling
    <2>7. /\ Cardinality(AtCeiling(t, c)') = Cardinality(AtCeiling(t, c)) - 1
          /\ Cardinality(AtCeiling(t, c)') \in Nat
      <3>1. IsFiniteSet(AtCeiling(t, c)) /\ IsFiniteSet(AtCeiling(t, c)')
        BY <1>3, <1>9, <2>6, FS_RemoveElement
      <3> QED
        BY <2>6, <3>1, FS_RemoveElement, FS_CardinalityType
    <2>8. Cardinality(AtCeiling(t, c)) \in Nat /\ Cardinality(AtCeiling(t, c)) <= 128
      BY <1>3, <1>9, FS_CardinalityType DEF MutexesPerPriority
    <2>9. Plus(Cardinality(AtCeiling(t, c)), 255) = Cardinality(AtCeiling(t, c)')
      BY <2>7, <2>8 DEF Plus
    <2>10. /\ priomutex'[t][c] = Cardinality(AtCeiling(t, c)')
           /\ \A p \in Ceilings : p # c => priomutex'[t][p] = priomutex[t][p]
      BY <1>3, <1>9, <2>4, <2>9 DEF PriorityTypeOK
    <2>11. \A p \in Ceilings :
              /\ Cardinality(AtCeiling(t, p)') <= MutexesPerPriority
              /\ priomutex'[t][p] = Cardinality(AtCeiling(t, p)')
      <3> SUFFICES ASSUME NEW p \in Ceilings
                   PROVE  /\ Cardinality(AtCeiling(t, p)') <= MutexesPerPriority
                          /\ priomutex'[t][p] = Cardinality(AtCeiling(t, p)')
        OBVIOUS
      <3>1. CASE p = c
        BY <2>7, <2>8, <2>10, <3>1 DEF MutexesPerPriority
      <3>2. CASE p # c
        BY <1>3, <1>9, <2>5, <2>10, <3>2
      <3> QED
        BY <3>1, <3>2
    <2> QED
      BY <1>9, <2>3, <2>11
  <1> QED
    BY <1>6, <1>7, <1>8, <1>9

--------------------------------------------------------------------------------
(* The highest of the ceilings. *)

LEMMA LeastIs ==
    ASSUME NEW S \in SUBSET Nat, NEW x \in S, \A y \in S : x <= y
    PROVE  Min(S) = x
  <1>1. Min(S) \in S /\ Min(S) <= x
    BY Least
  <1>2. Min(S) \in Nat /\ x \in Nat /\ x <= Min(S)
    BY <1>1
  <1> QED
    BY <1>1, <1>2

LEMMA HighestIs ==
    ASSUME PriorityTypeOK, NEW u \in Threads, NEW M \in SUBSET Mutexes
    PROVE  /\ HighestOf(u, M) \in Nat
           /\ HighestOf(u, M) <= priority[u]
           /\ \A m \in M : HighestOf(u, M) <= prioceiling[m]
           /\ \/ HighestOf(u, M) = priority[u]
              \/ \E m \in M : HighestOf(u, M) = prioceiling[m]
  <1> DEFINE S == {priority[u]} \cup {prioceiling[m] : m \in M}
  <1>1. S \in SUBSET Nat /\ S # {}
    BY CeilingTypes DEF PriorityTypeOK
  <1>2. Min(S) \in S /\ \A x \in S : Min(S) <= x
    <2> HIDE DEF S
    <2> QED
      BY <1>1, Least
  <1> QED
    BY <1>1, <1>2 DEF HighestOf

LEMMA HighestUnique ==
    ASSUME PriorityTypeOK, NEW u \in Threads, NEW M \in SUBSET Mutexes, NEW x \in Nat,
           x <= priority[u], \A m \in M : x <= prioceiling[m],
           x = priority[u] \/ \E m \in M : x = prioceiling[m]
    PROVE  HighestOf(u, M) = x
  <1>1. /\ HighestOf(u, M) \in Nat
        /\ HighestOf(u, M) <= priority[u]
        /\ \A m \in M : HighestOf(u, M) <= prioceiling[m]
        /\ HighestOf(u, M) = priority[u] \/ \E m \in M : HighestOf(u, M) = prioceiling[m]
    BY HighestIs
  <1>2. priority[u] \in Nat /\ \A m \in M : prioceiling[m] \in Nat
    BY CeilingTypes DEF PriorityTypeOK
  <1> QED
    BY <1>1, <1>2

\* The same of the next state.
LEMMA NextHighestUnique ==
    ASSUME PriorityTypeOK', NEW u \in Threads, NEW x \in Nat,
           Counted(u)' \subseteq Mutexes,
           x <= priority'[u], \A m \in Counted(u)' : x <= prioceiling'[m],
           x = priority'[u] \/ \E m \in Counted(u)' : x = prioceiling'[m]
    PROVE  HighestOf(u, Counted(u))' = x
  <1> DEFINE S == {priority'[u]} \cup {prioceiling'[m] : m \in Counted(u)'}
  <1>1. S \in SUBSET Nat /\ x \in S /\ \A y \in S : x <= y
    BY CeilingTypes DEF PriorityTypeOK
  <1>2. Min(S) = x
    <2> HIDE DEF S
    <2> QED
      BY <1>1, LeastIs
  <1> QED
    BY <1>2 DEF HighestOf

\* In a program with PRIO_PROTECT mutexes only, what is done for PRIO_INHERIT is not.
LEMMA ProtectOnly ==
    ASSUME PriorityTypeOK, CallsSound, program.protocols = {"PROTECT"}, NEW t \in Threads
    PROVE  /\ oldthread[t] = NULL
           /\ pc[t] \notin {"inherit", "info", "save", "boost", "restore", "reset"}
           /\ locked[t] \subseteq Counted(t)
           /\ pc[t] \notin {"raise", "wait", "own", "signal", "lower"}
                 => Counted(t) = locked[t]
           /\ pc[t] \in {"raise", "wait", "own", "signal", "lower"}
                 => Counted(t) = locked[t] \cup {on(t)}
  <1>1. \A m \in Mutexes : protocol[m] = "PROTECT"
    BY DEF PriorityTypeOK
  <1>2. CallSound(t)
    BY DEF CallsSound
  <1>3. oldthread[t] = NULL
    BY <1>2 DEF CallSound
  <1>4. pc[t] \in LockPCs \cup UnlockPCs => on(t) \in Mutexes
    BY <1>2 DEF CallSound
  <1>5. pc[t] \notin {"inherit", "info", "save", "boost", "restore", "reset"}
    BY <1>1, <1>2, <1>3, <1>4 DEF CallSound, LockPCs, UnlockPCs
  <1>6. locked[t] \subseteq Mutexes
    BY DEF PriorityTypeOK
  <1> QED
    BY <1>1, <1>3, <1>4, <1>5, <1>6 DEF Counted, LockPCs, UnlockPCs

LEMMA HighestStep ==
    ASSUME PriorityTypeOK, PriorityTypeOK', CallsSound, CallsSound', CeilingsKept,
           CeilingBooks', FewPerCeiling', CeilingExact, NEW t \in Threads, Step(t)
    PROVE  CeilingExact'
  <1> DEFINE Exact(u) ==
               /\ pc[u] \notin {"raise", "schedprio"} => Suits(u, HighestOf(u, Counted(u)))
               /\ pc[u] = "raise" => /\ Suits(u, HighestOf(u, locked[u]))
                                     /\ myprio[u] = current[u]
               /\ pc[u] = "schedprio" => /\ locked[u] = {} /\ on(u) = u
                                         /\ current[u] = arg[u].prio
  <1>1. SUFFICES ASSUME Disciplined, program.protocols = {"PROTECT"}, NEW u \in Threads
                 PROVE  Exact(u)'
    BY Others DEF CeilingExact, Protecting, Disciplined
  <1>2. \A v \in Threads : Exact(v)
    BY <1>1 DEF CeilingExact, Protecting
  <1>3. program'.protocols = {"PROTECT"} /\ Disciplined'
    BY <1>1, Others DEF Disciplined
  <1>4. /\ oldthread[t] = NULL
        /\ pc[t] \notin {"inherit", "info", "save", "boost", "restore", "reset"}
    BY <1>1, ProtectOnly
  <1>5. /\ locked[u] \subseteq Counted(u) /\ Counted(u) \subseteq Mutexes
        /\ \A m \in Counted(u) : prioceiling'[m] = prioceiling[m]
    BY <1>1, ProtectOnly, CountedCeilings
  \* Steps that change no priority.
  <1>6. ASSUME priority'[u] = priority[u], NEW M \in SUBSET Counted(u)
        PROVE  HighestOf(u, M)' = HighestOf(u, M)
    <2>1. {prioceiling'[m] : m \in M} = {prioceiling[m] : m \in M}
      BY <1>5
    <2> QED
      BY <1>6, <2>1 DEF HighestOf
  <1>7. ASSUME priority'[u] = priority[u], current'[u] = current[u],
               Counted(u)' = Counted(u),
               \/ /\ pc[u] \notin {"raise", "schedprio"}
                  /\ pc'[u] \notin {"raise", "schedprio"}
               \/ /\ pc'[u] = pc[u] /\ locked'[u] = locked[u] /\ arg'[u] = arg[u]
                  /\ myprio'[u] = myprio[u]
        PROVE  Exact(u)'
    <2>1. PICK M \in SUBSET Counted(u), L \in SUBSET Counted(u) :
               M = Counted(u) /\ L = locked[u]
      BY <1>5
    <2>2. HighestOf(u, M)' = HighestOf(u, M) /\ HighestOf(u, L)' = HighestOf(u, L)
      BY <1>6, <1>7
    <2>3. Counted(u)' = M
      BY <1>7, <2>1
    <2>4. HighestOf(u, Counted(u))' = HighestOf(u, Counted(u))
      BY <2>1, <2>2, <2>3 DEF HighestOf
    <2>5. locked'[u] = locked[u] => HighestOf(u, locked[u])' = HighestOf(u, locked[u])
      BY <2>1, <2>2 DEF HighestOf
    <2> HIDE DEF HighestOf
    <2> QED
      BY <1>2, <1>7, <2>4, <2>5 DEF on, Suits

  <1>8. CASE u # t
    <2>1. /\ Counted(u)' = Counted(u) /\ pc'[u] = pc[u] /\ locked'[u] = locked[u]
          /\ arg'[u] = arg[u] /\ myprio'[u] = myprio[u]
      BY <1>8, Others DEF Counted, on
    <2>2. ASSUME NEW v \in Threads, NEW p \in Priorities, SetSchedPrio(t, v, p)
          PROVE  priority' = priority /\ current'[u] = current[u]
      BY <1>1, <1>8, <2>2 DEF SetSchedPrio, ChangePriority, Disciplined, PriorityTypeOK
    <2>3. ASSUME SchedPrioRecord(t)
          PROVE  priority'[u] = priority[u] /\ current'[u] = current[u]
      <3>1. pc[t] = "schedprio"
        BY <2>3 DEF SchedPrioRecord, Done, Go, IsAt
      <3>2. on(t) = t
        BY <1>2, <3>1
      <3> QED
        BY <1>8, <2>3, <3>2 DEF SchedPrioRecord, PriorityTypeOK
    <2>4. ASSUME ProtectRaise(t) \/ UnlockProtect(t)
          PROVE  priority' = priority /\ current'[u] = current[u]
      BY <1>8, <2>4 DEF ProtectRaise, UnlockProtect, ChangePriority, PriorityTypeOK
    <2>5. priority'[u] = priority[u] /\ current'[u] = current[u]
      BY <1>4, <2>2, <2>3, <2>4
         DEF Step, Running, LockCall, InheritTest, InheritInfo, InheritSave, InheritBoost,
           InheritFaults, ProtectCount, Grant, GiveUp, SetOwner, CeilingChange,
           RestorePriority, Unlock, UnlockSignal, UnlockInherit, SetPrioCeiling,
           CeilingSignal, Go, IsAt, Done
    <2> QED
      BY <1>7, <2>1, <2>5
  <1>9. ASSUME u = t, ~ProtectCount(t), ~UnlockProtect(t), priority' = priority,
               current' = current,
               pc[t] \notin {"raise", "schedprio"}, pc'[t] \notin {"raise", "schedprio"}
        PROVE  Exact(u)'
    BY <1>1, <1>7, <1>9, Counting
  <1>10. CASE u = t /\ (Grant(t) \/ UnlockSignal(t) \/ CeilingChange(t))
    <2>1. /\ priority' = priority /\ current' = current
          /\ pc[t] \in {"wait", "signal", "ceiling"}
          /\ pc'[t] \in {"own", "lower", "reset", "changed"}
      BY <1>10 DEF Grant, UnlockSignal, CeilingChange, Go, IsAt, PriorityTypeOK
    <2> QED
      BY <1>9, <1>10, <2>1 DEF ProtectCount, UnlockProtect, Done, Go, IsAt
  <1>11. CASE u = t /\ (SetOwner(t) \/ GiveUp(t) \/ CeilingSignal(t))
    <2>1. /\ priority' = priority /\ current' = current
          /\ pc[t] \in {"own", "wait", "changed"} /\ pc'[t] = "idle"
      BY <1>4, <1>11 DEF SetOwner, GiveUp, CeilingSignal, Done, Go, IsAt, PriorityTypeOK
    <2> QED
      BY <1>9, <1>11, <2>1 DEF ProtectCount, UnlockProtect, Done, Go, IsAt
  <1>12. ASSUME u = t, NEW m \in Mutexes,
                \/ Unlock(t, m) \/ \E call \in LockCalls : LockCall(t, call, m)
                \/ \E c \in Ceilings : SetPrioCeiling(t, m, c)
         PROVE  Exact(u)'
    <2>1. /\ priority' = priority /\ current' = current
          /\ pc[t] = "idle" /\ pc'[t] \in {"signal", "ceiling", "wait", "inherit", "protect"}
      BY <1>12 DEF Unlock, LockCall, SetPrioCeiling, Enter, Go, IsAt, PriorityTypeOK
    <2> QED
      BY <1>9, <1>12, <2>1 DEF ProtectCount, UnlockProtect, Done, Go, IsAt
  <1>13. CASE u = t /\ ProtectCount(t)
    <2>1. /\ pc[t] = "protect" /\ pc'[t] = "raise" /\ priority' = priority
          /\ current' = current /\ locked' = locked /\ myprio'[t] = current[t]
      BY <1>13 DEF ProtectCount, Go, IsAt, PriorityTypeOK
    <2>2. PICK L \in SUBSET Counted(t) : L = locked[t] /\ L = Counted(t)
      BY <1>1, <2>1, ProtectOnly
    <2>3. HighestOf(t, L)' = HighestOf(t, L)
      BY <1>6, <1>13, <2>1
    <2>4. HighestOf(t, locked[t])' = HighestOf(t, Counted(t))
      BY <2>1, <2>2, <2>3 DEF HighestOf
    <2> QED
      BY <1>2, <1>13, <2>1, <2>4 DEF Suits
  <1>14. CASE u = t /\ ProtectRaise(t)
    <2>1. PICK c \in Ceilings : c = prioceiling[on(t)]
      BY <1>14 DEF ProtectRaise, Go, IsAt, PriorityTypeOK, CallsSound, CallSound, LockPCs
    <2>2. /\ pc[t] = "raise" /\ pc'[t] = "wait" /\ priority' = priority
          /\ prioceiling' = prioceiling
          /\ current' = IF c < myprio[t] THEN [current EXCEPT ![t] = c] ELSE current
      BY <1>14, <2>1 DEF ProtectRaise, Go, IsAt, ChangePriority, PriorityTypeOK
    <2>3. /\ Suits(t, HighestOf(t, locked[t])) /\ myprio[t] = current[t]
          /\ locked[t] \subseteq Mutexes /\ on(t) \in Mutexes
          /\ Counted(t) = locked[t] \cup {on(t)}
          /\ Counted(t)' = Counted(t)
      <3>1. locked[t] \subseteq Mutexes /\ on(t) \in Mutexes
        BY <2>2 DEF PriorityTypeOK, CallsSound, CallSound, LockPCs
      <3>2. Counted(t) = locked[t] \cup {on(t)}
        BY <1>1, <2>2, ProtectOnly
      <3>3. ~ProtectCount(t) /\ ~UnlockProtect(t)
        BY <2>2 DEF ProtectCount, UnlockProtect, Done, Go, IsAt
      <3>4. Counted(t)' = Counted(t)
        BY <1>1, <3>3, Counting
      <3> QED
        BY <1>2, <2>2, <3>1, <3>2, <3>4
    <2>4. PICK h \in Nat : h = HighestOf(t, locked[t])
      BY <2>3, HighestIs
    <2>5. /\ h <= priority[t]
          /\ \A m \in locked[t] : h <= prioceiling[m]
          /\ h = priority[t] \/ \E m \in locked[t] : h = prioceiling[m]
      BY <2>3, <2>4, HighestIs
    <2>6. Suits(t, IF c < h THEN c ELSE h)'
      <3>1. current'[t] = IF c < current[t] THEN c ELSE current[t]
        BY <2>2, <2>3 DEF PriorityTypeOK
      <3>2. current[t] <= h /\ (priority[t] < Slots => current[t] = h)
        BY <2>3, <2>4 DEF Suits
      <3>3. current[t] \in Int /\ c \in Int /\ h \in Int
        BY <2>4, CeilingTypes DEF PriorityTypeOK
      <3> QED
        BY <2>2, <3>1, <3>2, <3>3 DEF Suits
    <2>7. HighestOf(t, Counted(t)) = IF c < h THEN c ELSE h
      <3>1. c \in Nat /\ priority[t] \in Nat /\ \A m \in Mutexes : prioceiling[m] \in Nat
        BY CeilingTypes DEF PriorityTypeOK
      <3>2. CASE c < h
        <4>1. c <= priority[t] /\ \A m \in Counted(t) : c <= prioceiling[m]
          BY <2>1, <2>3, <2>5, <3>1, <3>2
        <4> QED
          BY <2>1, <2>3, <3>1, <3>2, <4>1, HighestUnique
      <3>3. CASE ~(c < h)
        <4>1. \A m \in Counted(t) : h <= prioceiling[m]
          BY <2>1, <2>3, <2>5, <3>1, <3>3
        <4> QED
          BY <2>3, <2>5, <3>1, <3>3, <4>1, HighestUnique
      <3> QED
        BY <3>2, <3>3
    <2>8. PICK M \in SUBSET Counted(t) : M = Counted(t)
      OBVIOUS
    <2>9. HighestOf(t, Counted(t))' = HighestOf(t, Counted(t))
      <3>1. HighestOf(t, M)' = HighestOf(t, M)
        BY <1>6, <1>14, <2>2
      <3> QED
        BY <2>3, <2>8, <3>1 DEF HighestOf
    <2>10. HighestOf(t, Counted(t))' = IF c < h THEN c ELSE h
      BY <2>7, <2>9
    <2> HIDE DEF HighestOf
    <2> QED
      BY <1>14, <2>2, <2>6, <2>10 DEF Suits
  <1>15. CASE u = t /\ UnlockProtect(t)
    <2>0. /\ pc'[t] = "idle" /\ priority' = priority
      BY <1>15, BeingDone DEF UnlockProtect
    <2>1. current'[t] = Own(t, priomutex'[t])
      BY <1>15 DEF UnlockProtect, ChangePriority, PriorityTypeOK
    <2>2. PICK M \in SUBSET Counted(t) : M = Counted(t)' /\ IsFiniteSet(M)
      <3>1. Counted(t)' \subseteq Counted(t)
        BY <1>1, <1>15, Counting
      <3>2. IsFiniteSet(locked'[t]) /\ Counted(t)' \subseteq locked'[t]
        BY <2>0 DEF FewPerCeiling, Counted
      <3> QED
        BY <3>1, <3>2, FS_Subset
    <2>3. \A p \in Ceilings :
             priomutex'[t][p] = Cardinality({m \in M : prioceiling'[m] = p})
      BY <1>3, <2>2 DEF CeilingBooks, AtCeiling
    <2>4. \A p \in Ceilings : priomutex'[t][p] > 0 <=> \E m \in M : prioceiling'[m] = p
      <3> SUFFICES ASSUME NEW p \in Ceilings
                   PROVE  priomutex'[t][p] > 0 <=> \E m \in M : prioceiling'[m] = p
        OBVIOUS
      <3> DEFINE A == {m \in M : prioceiling'[m] = p}
      <3>1. IsFiniteSet(A)
        BY <2>2, FS_Subset
      <3>2. Cardinality(A) \in Nat /\ (Cardinality(A) = 0 <=> A = {})
        BY <3>1, FS_CardinalityType, FS_EmptySet
      <3> QED
        BY <2>3, <3>2
    <2>5. {p \in Ceilings : priomutex'[t][p] > 0} = {prioceiling'[m] : m \in M}
      <3>1. \A m \in M : prioceiling'[m] \in Ceilings
        BY <1>5, <1>15, <2>2 DEF PriorityTypeOK
      <3> QED
        BY <2>4, <3>1
    <2> DEFINE found == {i \in Ceilings : i = priority[t] \/ priomutex'[t][i] > 0}
    <2>6. /\ M \subseteq Mutexes
          /\ \A x : x \in found <=> \/ x = priority[t] /\ x \in Ceilings
                                   \/ \E m \in M : x = prioceiling'[m]
      <3>1. \A x : x \in found <=> \/ x = priority[t] /\ x \in Ceilings
                                   \/ x \in {p \in Ceilings : priomutex'[t][p] > 0}
        OBVIOUS
      <3> QED
        BY <1>5, <1>15, <2>2, <2>5, <3>1, Zenon
    <2>7. current'[t] = IF found = {} THEN current[t] ELSE Min(found)
      BY <2>1 DEF Own
    <2>8. found \in SUBSET Nat /\ priority[t] \in Priorities /\ priority[t] \in Nat
      BY CeilingTypes DEF PriorityTypeOK
    <2> HIDE DEF found
    <2>9. CASE found = {}
      \* The loop has come to its end: nothing is changed.
      <3>1. M = {} /\ ~(priority[t] < Slots)
        BY <2>6, <2>8, <2>9, CeilingTypes
      <3>2. HighestOf(t, Counted(t))' = priority[t]
        <4>1. /\ Counted(t)' \subseteq Mutexes /\ Counted(t)' = {}
              /\ priority'[t] = priority[t] /\ priority[t] <= priority'[t]
          BY <2>0, <2>2, <2>8, <3>1
        <4> QED
          BY <2>8, <4>1, NextHighestUnique
      <3>3. current[t] <= priority[t]
        <4>1. PICK h \in Nat : h = HighestOf(t, Counted(t)) /\ h <= priority[t]
          BY <1>5, <1>15, HighestIs
        <4>2. current[t] <= h
          BY <1>2, <1>15, <4>1 DEF Suits, UnlockProtect, Done, Go, IsAt
        <4> QED
          BY <2>8, <4>1, <4>2 DEF PriorityTypeOK
      <3> QED
        BY <1>15, <2>0, <2>7, <2>9, <3>1, <3>2, <3>3 DEF Suits
    <2>10. CASE found # {}
      <3>1. PICK x \in found : x = Min(found) /\ \A y \in found : x <= y
        BY <2>8, <2>10, Least
      <3>2. x \in Nat /\ x <= priority[t]
        <4>1. CASE priority[t] \in Ceilings
          BY <2>6, <2>8, <3>1, <4>1
        <4>2. CASE priority[t] \notin Ceilings
          <5>1. x \in Ceilings
            BY DEF found
          <5> QED
            BY <2>8, <4>2, <5>1, CeilingTypes
        <4> QED
          BY <2>8, <4>1, <4>2
      <3>3. \A m \in M : x <= prioceiling'[m]
        BY <2>6, <3>1
      <3>4. x = priority[t] \/ \E m \in M : x = prioceiling'[m]
        BY <2>6
      <3>5. HighestOf(t, Counted(t))' = x
        BY <2>0, <2>2, <2>6, <3>2, <3>3, <3>4, NextHighestUnique
      <3> QED
        BY <1>15, <2>0, <2>7, <2>10, <3>1, <3>5 DEF Suits
    <2> QED
      BY <2>9, <2>10
  <1>16. ASSUME u = t, NEW v \in Threads, NEW p \in Priorities, SetSchedPrio(t, v, p)
         PROVE  Exact(u)'
    <2>1. v = t /\ locked' = locked /\ locked[t] = {} /\ current'[t] = p
      BY <1>1, <1>16 DEF SetSchedPrio, ChangePriority, Disciplined, PriorityTypeOK
    <2>2. pc'[t] = "schedprio" /\ on(t)' = t /\ arg'[t].prio = p
      BY <1>16, <2>1 DEF SetSchedPrio, Enter, Go, IsAt, on, PriorityTypeOK
    <2> QED
      BY <1>16, <2>1, <2>2
  <1>17. CASE u = t /\ SchedPrioRecord(t)
    <2>1. pc[t] = "schedprio" /\ pc'[t] = "idle" /\ locked' = locked /\ current' = current
      BY <1>17, BeingDone DEF SchedPrioRecord
    <2>2. locked[t] = {} /\ on(t) = t /\ current[t] = arg[t].prio
      BY <1>2, <2>1
    <2>3. priority'[t] = current'[t]
      BY <1>17, <2>1, <2>2 DEF SchedPrioRecord, PriorityTypeOK
    <2>4. Counted(t)' = {}
      BY <2>1, <2>2 DEF Counted
    <2>5. priority'[t] \in Nat
      BY CeilingTypes DEF PriorityTypeOK
    <2>6. HighestOf(t, Counted(t))' = priority'[t]
      <3>1. {priority'[t]} \cup {prioceiling'[m] : m \in {}} = {priority'[t]}
        OBVIOUS
      <3>2. Min({priority'[t]}) = priority'[t]
        BY <2>5, LeastIs
      <3> QED
        BY <2>4, <3>1, <3>2 DEF HighestOf
    <2> QED
      BY <1>17, <2>1, <2>3, <2>5, <2>6 DEF Suits
  <1> HIDE DEF Exact
  <1>18. CASE u = t /\ Running(t)
    <2>1. ~InheritTest(t) /\ ~InheritInfo(t) /\ ~InheritSave(t) /\ ~InheritBoost(t)
          /\ ~InheritFaults(t) /\ ~RestorePriority(t) /\ ~UnlockInherit(t)
      BY <1>4 DEF InheritTest, InheritInfo, InheritSave, InheritBoost, InheritFaults,
                  RestorePriority, UnlockInherit, Done, Go, IsAt
    <2> QED
      BY <1>10, <1>11, <1>13, <1>14, <1>15, <1>17, <1>18, <2>1 DEF Running
  <1> QED
    BY <1>8, <1>10, <1>11, <1>12, <1>16, <1>18 DEF Step

--------------------------------------------------------------------------------
(* What a thread that raises another has saved. *)

LEMMA SavedStep ==
    ASSUME PriorityTypeOK, CallsSound, SavedIsOwn, NEW t \in Threads, Step(t)
    PROVE  SavedIsOwn'
  <1> DEFINE Saved(v) ==
               /\ current[v] = priority[v] \/ \E u \in Threads : oldthread[u] = v
               /\ oldthread[v] # NULL => oldprio[v] = priority[oldthread[v]]
               /\ pc[v] = "save" /\ owner[on(v)] # NULL => oldprio[v] = priority[owner[on(v)]]
               /\ pc[v] = "boost" => owner[on(v)] \in {NULL, oldthread[v]}
  <1>1. SUFFICES ASSUME Inheriting' PROVE \A v \in Threads : Saved(v)'
    BY DEF SavedIsOwn
  <1>2. /\ program.protocols = {"INHERIT"} /\ "setschedprio" \notin program.calls
        /\ program' = program /\ ~disturbed'
    BY <1>1, Others DEF Inheriting
  <1>3. ~disturbed
    BY <1>2
       DEF Step, Running, LockCall, InheritTest, InheritInfo, InheritSave, InheritBoost,
           InheritFaults, ProtectCount, ProtectRaise, Grant, GiveUp, SetOwner, CeilingChange,
           RestorePriority, Unlock, UnlockSignal, UnlockProtect, UnlockInherit,
           SetPrioCeiling, CeilingSignal, SetSchedPrio, SchedPrioRecord
  <1>4. \A v \in Threads : Saved(v) /\ CallSound(v)
    BY <1>2, <1>3 DEF SavedIsOwn, Inheriting, CallsSound
  <1>5. /\ \A v \in Threads : pc[v] \in LockPCs \cup UnlockPCs => on(v) \in Mutexes
        /\ \A m \in Mutexes : protocol[m] = "INHERIT"
    BY <1>2, <1>4 DEF CallSound, PriorityTypeOK
  <1>6. pc[t] \notin {"protect", "raise", "lower", "schedprio"}
    BY <1>2, <1>4, <1>5 DEF CallSound, LockPCs, UnlockPCs
  <1>7. ~SchedPrioRecord(t) /\ \A u \in Threads, p \in Priorities : ~SetSchedPrio(t, u, p)
    BY <1>2, <1>6 DEF SchedPrioRecord, SetSchedPrio, Enter, Done, Go, IsAt
  <1>8. /\ ~ProtectCount(t) /\ ~ProtectRaise(t) /\ ~UnlockProtect(t)
    BY <1>6 DEF ProtectCount, ProtectRaise, UnlockProtect, Done, Go, IsAt
  <1>9. \A u \in Threads \ {t} :
           /\ pc'[u] = pc[u] /\ on(u)' = on(u) /\ oldthread'[u] = oldthread[u]
           /\ oldprio'[u] = oldprio[u]
    BY Others DEF on
  \* Steps that save nothing, and give no mutex an owner.
  <1>10. ASSUME priority' = priority, current' = current, oldthread'[t] = oldthread[t],
                oldthread[t] # NULL => oldprio'[t] = oldprio[t],
                pc'[t] \notin {"save", "boost"},
                \A m \in Mutexes : owner'[m] \in {owner[m], NULL}
         PROVE  \A v \in Threads : Saved(v)'
    <2> SUFFICES ASSUME NEW v \in Threads
                 PROVE  Saved(v)'
      OBVIOUS
    <2>1. CASE v = t
      BY <1>4, <1>9, <1>10, <2>1
    <2>2. CASE v # t
      <3>1. pc[v] \in {"save", "boost"} => on(v) \in Mutexes
        BY <1>5 DEF LockPCs
      <3>2. Saved(v)
        BY <1>4
      <3>3. (\E u \in Threads : oldthread[u] = v) => \E u \in Threads : oldthread'[u] = v
        BY <1>9, <1>10
      <3> QED
        BY <1>9, <1>10, <2>2, <3>1, <3>2, <3>3
    <2> QED
      BY <2>1, <2>2
  <1>11. ASSUME NEW m \in Mutexes,
                \/ \E call \in LockCalls : LockCall(t, call, m)
                \/ \E c \in Ceilings : SetPrioCeiling(t, m, c)
         PROVE  \A v \in Threads : Saved(v)'
    <2>1. pc'[t] \notin {"save", "boost"}
      BY <1>11 DEF LockCall, SetPrioCeiling, Enter, Go, IsAt, PriorityTypeOK
    <2> QED
      BY <1>10, <1>11, <2>1 DEF LockCall, SetPrioCeiling
  <1>12. CASE InheritTest(t) \/ InheritFaults(t) \/ Grant(t) \/ UnlockSignal(t)
              \/ CeilingChange(t)
    <2>1. pc'[t] \notin {"save", "boost"}
      BY <1>12 DEF InheritTest, InheritFaults, Grant, UnlockSignal, CeilingChange, Go, IsAt,
                   PriorityTypeOK
    <2> QED
      BY <1>10, <1>12, <2>1
         DEF InheritTest, InheritFaults, Grant, UnlockSignal, CeilingChange
  <1>13. ASSUME NEW m \in Mutexes, Unlock(t, m)
         PROVE  \A v \in Threads : Saved(v)'
    <2>1. /\ pc'[t] \notin {"save", "boost"}
          /\ \A l \in Mutexes : owner'[l] \in {owner[l], NULL}
      BY <1>13 DEF Unlock, Go, IsAt, PriorityTypeOK
    <2> QED
      BY <1>10, <1>13, <2>1 DEF Unlock
  <1>14. CASE GiveUp(t) \/ CeilingSignal(t)
    <2>1. oldthread[t] = NULL
      BY <1>2, <1>4, <1>14 DEF GiveUp, CeilingSignal, Done, Go, IsAt, CallSound
    <2>2. pc'[t] = "idle" /\ oldthread'[t] = NULL
      BY <1>14, BeingDone DEF GiveUp, CeilingSignal
    <2> QED
      BY <1>10, <1>14, <2>1, <2>2 DEF GiveUp, CeilingSignal
  <1>15. CASE SetOwner(t)
    <2>1. /\ oldthread'[t] = oldthread[t]
          /\ oldthread[t] # NULL => oldprio'[t] = oldprio[t]
      BY <1>15, BeingDone DEF SetOwner
    <2>2. pc'[t] \in {"idle", "restore"}
      BY <1>15 DEF SetOwner, Done, Go, IsAt, PriorityTypeOK
    <2>3. \A u \in Threads : pc[u] \in {"save", "boost"} => on(u) # on(t)
      BY <1>2, <1>15 DEF SetOwner, Reading
    <2>4. /\ priority' = priority /\ current' = current
          /\ \A m \in Mutexes \ {on(t)} : owner'[m] = owner[m]
      BY <1>15 DEF SetOwner, PriorityTypeOK
    <2> SUFFICES ASSUME NEW v \in Threads
                 PROVE  Saved(v)'
      OBVIOUS
    <2>5. CASE v = t
      BY <1>4, <1>9, <2>1, <2>2, <2>4, <2>5
    <2>6. CASE v # t
      <3>1. pc[v] \in {"save", "boost"} => owner'[on(v)] = owner[on(v)]
        BY <1>5, <2>3, <2>4 DEF LockPCs
      <3>2. Saved(v)
        BY <1>4
      <3>3. (\E u \in Threads : oldthread[u] = v) => \E u \in Threads : oldthread'[u] = v
        BY <1>9, <2>1
      <3> QED
        BY <1>9, <2>1, <2>4, <2>6, <3>1, <3>2, <3>3
    <2> QED
      BY <2>5, <2>6
  <1>16. CASE InheritInfo(t)
    <2>1. PICK o \in Threads : o = owner[on(t)]
      BY <1>5, <1>16 DEF InheritInfo, IsAt, LockPCs, PriorityTypeOK
    <2>2. \A u \in Threads : oldthread[u] = NULL
      BY <1>2, <1>16 DEF InheritInfo, Raising
    <2>3. current[o] = priority[o]
      BY <1>4, <2>1, <2>2, NullAssumption
    <2>4. /\ oldprio'[t] = current[o] /\ oldthread' = oldthread /\ owner' = owner
          /\ priority' = priority /\ current' = current /\ arg' = arg
          /\ pc'[t] \in {"save", "wait"}
      BY <1>16, <2>1 DEF InheritInfo, Go, IsAt, PriorityTypeOK
    <2> SUFFICES ASSUME NEW v \in Threads
                 PROVE  Saved(v)'
      OBVIOUS
    <2>5. CASE v = t
      BY <1>4, <2>1, <2>2, <2>3, <2>4, <2>5 DEF on
    <2>6. CASE v # t
      BY <1>4, <1>9, <2>4, <2>6
    <2> QED
      BY <2>5, <2>6
  <1>17. CASE InheritSave(t)
    <2>1. /\ pc[t] = "save" /\ pc'[t] = "boost" /\ arg' = arg /\ owner' = owner
          /\ oldthread'[t] = owner[on(t)] /\ oldprio' = oldprio
          /\ priority' = priority /\ current' = current
      BY <1>17 DEF InheritSave, Go, IsAt, PriorityTypeOK
    <2>2. oldthread[t] = NULL
      BY <1>4, <2>1 DEF CallSound
    <2> SUFFICES ASSUME NEW v \in Threads
                 PROVE  Saved(v)'
      OBVIOUS
    <2>3. current[v] = priority[v] \/ \E u \in Threads : oldthread'[u] = v
      <3>1. ASSUME NEW u \in Threads, oldthread[u] = v
            PROVE  oldthread'[u] = v
        BY <1>9, <2>2, <3>1, NullAssumption
      <3> QED
        BY <1>4, <3>1
    <2>4. CASE v = t
      BY <1>4, <2>1, <2>3, <2>4 DEF on
    <2>5. CASE v # t
      BY <1>4, <1>9, <2>1, <2>3, <2>5
    <2> QED
      BY <2>4, <2>5
  <1>18. CASE InheritBoost(t)
    <2>1. PICK o \in Threads : o = owner[on(t)]
      BY <1>5, <1>18 DEF InheritBoost, Go, IsAt, LockPCs, PriorityTypeOK
    <2>2. /\ pc[t] = "boost" /\ pc'[t] = "wait" /\ arg' = arg /\ owner' = owner
          /\ oldthread' = oldthread /\ oldprio' = oldprio /\ priority' = priority
          /\ \A v \in Threads \ {o} : current'[v] = current[v]
      BY <1>18, <2>1 DEF InheritBoost, Go, IsAt, ChangePriority, PriorityTypeOK
    <2>3. oldthread[t] = o
      BY <1>4, <2>1, <2>2, NullAssumption
    <2> SUFFICES ASSUME NEW v \in Threads
                 PROVE  Saved(v)'
      OBVIOUS
    <2>4. Saved(v)
      BY <1>4
    <2>5. current'[v] = priority[v] \/ \E u \in Threads : oldthread[u] = v
      BY <2>2, <2>3, <2>4
    <2> QED
      BY <1>9, <2>2, <2>4, <2>5
  <1>19. CASE RestorePriority(t)
    <2>1. pc'[t] = "idle" /\ oldthread'[t] = NULL /\ oldthread[t] # NULL
      BY <1>4, <1>19, BeingDone DEF RestorePriority, CallSound
    <2>2. PICK o \in Threads : o = oldthread[t]
      BY <2>1 DEF PriorityTypeOK
    <2>3. /\ priority' = priority /\ owner' = owner
          /\ current' = [current EXCEPT ![o] = oldprio[t]]
      BY <1>19, <2>2 DEF RestorePriority, ChangePriority
    <2>4. oldprio[t] = priority[o]
      BY <1>4, <2>1, <2>2
    <2> SUFFICES ASSUME NEW v \in Threads
                 PROVE  Saved(v)'
      OBVIOUS
    <2>5. Saved(v)
      BY <1>4
    <2>6. current'[v] = priority[v] \/ \E u \in Threads : oldthread'[u] = v
      <3>1. CASE v = o
        BY <2>3, <2>4, <3>1 DEF PriorityTypeOK
      <3>2. CASE v # o
        <4>1. current'[v] = current[v]
          BY <2>3, <3>2 DEF PriorityTypeOK
        <4>2. ASSUME NEW u \in Threads, oldthread[u] = v
              PROVE  oldthread'[u] = v
          BY <1>9, <2>2, <3>2, <4>2
        <4> QED
          BY <2>5, <4>1, <4>2
      <3> QED
        BY <3>1, <3>2
    <2>7. CASE v = t
      BY <2>1, <2>3, <2>6, <2>7
    <2>8. CASE v # t
      BY <1>9, <2>3, <2>5, <2>6, <2>8
    <2> QED
      BY <2>7, <2>8
  <1>20. CASE UnlockInherit(t)
    <2>1. pc[t] = "reset" /\ pc'[t] = "idle" /\ oldthread'[t] = NULL
      BY <1>20, BeingDone DEF UnlockInherit
    <2>2. oldthread[t] = NULL
      BY <1>4, <2>1 DEF CallSound
    <2>3. /\ priority' = priority /\ owner' = owner
          /\ current' = [current EXCEPT ![t] = priority[t]]
      BY <1>20 DEF UnlockInherit, ChangePriority
    <2> SUFFICES ASSUME NEW v \in Threads
                 PROVE  Saved(v)'
      OBVIOUS
    <2>4. Saved(v)
      BY <1>4
    <2>5. CASE v = t
      BY <2>1, <2>3, <2>5 DEF PriorityTypeOK
    <2>6. CASE v # t
      <3>1. current'[v] = current[v]
        BY <2>3, <2>6 DEF PriorityTypeOK
      <3>2. ASSUME NEW u \in Threads, oldthread[u] = v
            PROVE  oldthread'[u] = v
        BY <1>9, <2>2, <3>2, NullAssumption
      <3> QED
        BY <1>9, <2>3, <2>4, <2>6, <3>1, <3>2
    <2> QED
      BY <2>5, <2>6
  <1> HIDE DEF Saved
  <1>21. CASE Running(t)
    BY <1>7, <1>8, <1>12, <1>14, <1>15, <1>16, <1>17, <1>18, <1>19, <1>20, <1>21
       DEF Running
  <1> QED
    BY <1>7, <1>11, <1>12, <1>13, <1>14, <1>21 DEF Step

--------------------------------------------------------------------------------
LEMMA PriorityInitial == PriorityInit => PriorityInv
  <1> SUFFICES ASSUME PriorityInit
               PROVE  PriorityInv
    OBVIOUS
  <1>a. /\ 0 \in Priorities /\ Ceilings \subseteq Priorities
        /\ \A p \in Priorities : p \in Int
    BY CeilingTypes
  <1>0. IsProgram(program)
    BY ProgramAssumption DEF PriorityInit
  <1>1. PriorityTypeOK
    <2>1. current \in [Threads -> Int]
      BY <1>a DEF PriorityInit
    <2>2. /\ owner \in [Mutexes -> Threads \cup {NULL}]
          /\ priomutex \in [Threads -> [Ceilings -> Nat]]
          /\ pc \in [Threads -> PriorityPCs]
          /\ arg \in [Threads -> CallArgs]
      BY ArgTypes DEF PriorityInit, PriorityPCs
    <2>3. myprio \in [Threads -> Int] /\ oldprio \in [Threads -> Int]
      BY DEF PriorityInit
    <2>4. /\ oldthread \in [Threads -> Threads \cup {NULL}]
          /\ locked \in [Threads -> SUBSET Mutexes]
          /\ disturbed \in BOOLEAN
      BY DEF PriorityInit
    <2> QED
      BY <1>0, <2>1, <2>2, <2>3, <2>4 DEF PriorityTypeOK, PriorityInit
  <1>2. CallsSound
    BY DEF CallsSound, CallSound, PriorityInit, LockPCs, UnlockPCs
  <1>3. CeilingsKept
    BY DEF CeilingsKept, PriorityInit
  <1>4. \A t \in Threads : Counted(t) = {} /\ \A p : AtCeiling(t, p) = {}
    BY DEF Counted, AtCeiling, PriorityInit
  <1>5. FewPerCeiling
    <2>1. IsFiniteSet({}) /\ Cardinality({}) < 128 /\ Cardinality({}) <= 128
      BY FS_EmptySet
    <2>2. \A t \in Threads : locked[t] = {}
      BY DEF PriorityInit
    <2> QED
      BY <1>4, <2>1, <2>2 DEF FewPerCeiling, MutexesPerPriority
  <1>6. CeilingBooks
    BY <1>4, FS_EmptySet DEF CeilingBooks, PriorityInit
  <1>7. CeilingExact
    <2> SUFFICES ASSUME NEW t \in Threads
                 PROVE  Suits(t, HighestOf(t, Counted(t)))
      BY DEF CeilingExact, PriorityInit
    <2>1. priority[t] \in Nat /\ current[t] = priority[t]
      BY <1>1, CeilingTypes DEF PriorityTypeOK, PriorityInit
    <2>2. HighestOf(t, {}) = priority[t]
      BY <1>1, <2>1, HighestUnique
    <2> QED
      BY <1>4, <2>1, <2>2 DEF Suits
  <1>8. SavedIsOwn
    BY DEF SavedIsOwn, PriorityInit
  <1> QED
    BY <1>1, <1>2, <1>3, <1>5, <1>6, <1>7, <1>8 DEF PriorityInv

LEMMA PriorityInductive == PriorityInv /\ [PriorityNext]_priorities => PriorityInv'
  <1> SUFFICES ASSUME PriorityInv, [PriorityNext]_priorities
               PROVE  PriorityInv'
    OBVIOUS
  <1>1. ASSUME NEW t \in Threads, Step(t)
        PROVE  PriorityInv'
    <2>1. PriorityTypeOK' /\ CallsSound' /\ CeilingsKept' /\ SavedIsOwn'
      BY <1>1, TypeStep, CallsStep, CeilingsStep, SavedStep DEF PriorityInv
    <2>2. FewPerCeiling' /\ CeilingBooks'
      BY <1>1, BooksStep DEF PriorityInv
    <2>3. CeilingExact'
      BY <1>1, <2>1, <2>2, HighestStep DEF PriorityInv
    <2> QED
      BY <2>1, <2>2, <2>3 DEF PriorityInv
  <1>2. CASE PriorityNext
    BY <1>1, <1>2 DEF PriorityNext, Step
  <1>3. CASE UNCHANGED priorities
    <2>1. PriorityTypeOK'
      BY <1>3 DEF priorities, PriorityInv, PriorityTypeOK
    <2>2. CallsSound' /\ CeilingsKept'
      BY <1>3 DEF priorities, PriorityInv, CallsSound, CallSound, CeilingsKept, on
    <2>3. \A t \in Threads : /\ Counted(t)' = Counted(t)
                             /\ \A p : AtCeiling(t, p)' = AtCeiling(t, p)
      BY <1>3 DEF priorities, Counted, AtCeiling, on
    <2>4. FewPerCeiling'
      <3>1. \A t \in Threads :
               AtCeiling(t, prioceiling[on(t)])' = AtCeiling(t, prioceiling[on(t)])
        BY <1>3, <2>3 DEF priorities, AtCeiling, on
      <3> QED
        BY <1>3, <2>3, <3>1 DEF priorities, PriorityInv, FewPerCeiling, Disciplined
    <2>5. CeilingBooks'
      BY <1>3, <2>3 DEF priorities, PriorityInv, CeilingBooks, Disciplined
    <2>6. CeilingExact'
      <3>1. \A t \in Threads : /\ HighestOf(t, Counted(t))' = HighestOf(t, Counted(t))
                               /\ HighestOf(t, locked[t])' = HighestOf(t, locked[t])
        BY <1>3, <2>3 DEF priorities, HighestOf
      <3> QED
        BY <1>3, <3>1 DEF priorities, PriorityInv, CeilingExact, Protecting,
                        Disciplined, Suits, on
    <2>7. SavedIsOwn'
      BY <1>3 DEF priorities, PriorityInv, SavedIsOwn, Inheriting, on
    <2> QED
      BY <2>1, <2>2, <2>4, <2>5, <2>6, <2>7 DEF PriorityInv
  <1> QED
    BY <1>2, <1>3

\* In every execution of the priority protocols, each part of the invariant.
THEOREM PriorityInvariant == PrioritySpec => []PriorityInv
  BY PriorityInitial, PriorityInductive, PTL DEF PrioritySpec

\* priomutex counts the PRIO_PROTECT mutexes that a thread has of each ceiling, for
\* every number of threads, mutexes and priorities: neither nested locks nor ceilings
\* changed in between make it drift, and the byte never wraps.
THEOREM CeilingsCounted == PrioritySpec => []CeilingBooks
  <1>1. PriorityInv => CeilingBooks
    BY DEF PriorityInv
  <1> QED
    BY <1>1, PriorityInvariant, PTL

\* So a thread between its calls never runs below its own priority and the ceilings of
\* the mutexes it has, and at the highest of them if its own is one that unlock finds.
THEOREM RunsAtCeiling == PrioritySpec => []CeilingPriority
  <1>1. PriorityInv => CeilingPriority
    <2> SUFFICES ASSUME PriorityInv, Protecting, NEW t \in Threads, pc[t] = "idle"
                 PROVE  Suits(t, Due(t))
      BY DEF CeilingPriority, Suits
    <2>1. Suits(t, HighestOf(t, Counted(t)))
      BY DEF PriorityInv, CeilingExact
    <2>2. Counted(t) = locked[t]
      BY ProtectOnly DEF PriorityInv, Protecting
    <2> QED
      BY <2>1, <2>2 DEF HighestOf, Due
  <1> QED
    BY <1>1, PriorityInvariant, PTL

\* A raised owner runs at its own priority again when it has no mutex left and the
\* thread that raised it has gone, in whichever order the two put priorities back.
THEOREM OwnPriorityBack == PrioritySpec => []InheritRestored
  <1>1. PriorityInv => InheritRestored
    BY DEF PriorityInv, SavedIsOwn, Inheriting, InheritRestored
  <1> QED
    BY <1>1, PriorityInvariant, PTL
==================================================================================
