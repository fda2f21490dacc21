--------------------------------- MODULE Threads ---------------------------------
(***************************************************************************)
(* The life of one thread made by pthread_create (src/src/pthread.c): the  *)
(* thread itself, and the threads that join, cancel and detach it.  They   *)
(* share its pthread_storage_t, which whoever detaches it frees.           *)
(*                                                                         *)
(* What callers must respect: one join at a time (pthread_vita.h:520-522), *)
(* none after a detach, and no call on a thread whose storage is gone; a   *)
(* call is taken to begin when it has the control of the thread.  Calls    *)
(* that are refused change nothing and are stuttering steps.               *)
(***************************************************************************)
EXTENDS Integers

CONSTANTS
    Statuses,     \* values that start routines return
    Null,         \* what returncode holds before
    Canceled,     \* PTHREAD_CANCELED
    Programs,     \* what each program checked does: sets of members of AllUses
    MaxHandlers   \* bound: depth of the cleanup stack

\* "async": threads choose asynchronous cancellation; "wait": they wait for conditions;
\* "detached": they are created detached; "callback": the kernel may have no callback left.
AllUses == {"join", "detach", "cancel", "async", "testcancel", "wait", "exit", "detached",
            "callback"}

ASSUME StatusesAssumption == Null \notin Statuses /\ Canceled \notin Statuses \cup {Null}
ASSUME ProgramsAssumption == Programs \subseteq SUBSET AllUses
ASSUME MaxHandlersAssumption == MaxHandlers \in Nat

VARIABLES
    uses,        \* the program, which never changes
    storage,     \* the pthread_storage_t: "none", "live" or "freed"
    kthread,     \* the kernel's thread: "absent", "running", "dormant" or "deleted"
    id,          \* "live" or "DELETED"
    control,     \* count of the control semaphore, -1 when it is deleted
    returncode,
    detached,
    waiting,
    cancel,      \* the fields cancel_type, cancel_state, cancel_pending and inWAIT
    handlers,    \* handlers on the cleanup stack
    left,        \* how the thread ended: a status, Canceled, or Null
    tpc, jpc, cpc,   \* the thread, its joiner, its canceller
    endarg,      \* the id the joiner waits for
    value        \* what the joiner got

vars == <<uses, storage, kthread, id, control, returncode, detached, waiting, cancel,
          handlers, left, tpc, jpc, cpc, endarg, value>>
joiner == <<jpc, endarg, value>>
fields == <<id, returncode, detached, waiting, cancel>>

JoinerPCs == {"idle", "j_test", "j_deleted", "j_arg", "j_callback", "j_end", "j_lock",
              "j_value", "done", "late"}
CancellerPCs == {"idle", "k_test", "k_wait", "k_alive", "k_code", "k_id", "k_delete"}

\* Where the thread is in its start routine, in pthread_cond_wait included.
Inside == {"run", "w_callback", "w_asleep", "w_awake", "w_pop"}

Ended == kthread \in {"dormant", "deleted"}

Init == /\ uses \in Programs
        /\ storage = "none" /\ kthread = "absent"
        /\ id = "DELETED" /\ control = -1
        /\ returncode = Null /\ detached = FALSE /\ waiting = 0
        /\ cancel = [type |-> "deferred", disabled |-> FALSE, pending |-> FALSE,
                      inWAIT |-> FALSE]
        /\ handlers = 0 /\ left = Null
        /\ tpc = "none" /\ jpc = "idle" /\ cpc = "idle"
        /\ endarg = "live" /\ value = Null

--------------------------------------------------------------------------------
(* pthread_create *)

Create(d) ==
    /\ d => "detached" \in uses
    /\ storage = "none"
    /\ storage' = "live" /\ kthread' = "running"
    /\ id' = "live" /\ control' = 1 /\ detached' = d
    /\ tpc' = "glue"
    /\ UNCHANGED <<uses, returncode, waiting, cancel, handlers, left, cpc, joiner>>

\* The storage is freed; the control semaphore and, when it is the start that fails,
\* the kernel's thread stay.
CreateFails ==
    /\ storage = "none"
    /\ storage' = "freed" /\ control' = 1
    /\ kthread' \in {"absent", "dormant"}
    /\ UNCHANGED <<uses, fields, handlers, left, tpc, cpc, joiner>>

--------------------------------------------------------------------------------
(* The thread: sceGlue, pthread_exit, pthread_testcancel, waits, its own settings *)

At(from, to) == tpc = from /\ tpc' = to

\* The program does not let a detached thread end while it is cancelling it: its
\* pthread_t is good for no call from then on.
MayLeave == ~(detached /\ cpc # "idle")

Glue == /\ At("glue", "run")
        /\ returncode' = Null
        /\ UNCHANGED <<uses, storage, kthread, id, control, detached, waiting, cancel,
                       handlers, left, cpc, joiner>>

PushHandler == /\ At("run", "run")
               /\ handlers < MaxHandlers
               /\ handlers' = handlers + 1
               /\ UNCHANGED <<uses, storage, kthread, control, fields, left, cpc,
                              joiner>>

PopHandler == /\ At("run", "run")
              /\ handlers > 0
              /\ handlers' = handlers - 1
              /\ UNCHANGED <<uses, storage, kthread, control, fields, left, cpc,
                             joiner>>

SetCancel == /\ "cancel" \in uses
             /\ At("run", "run")
             /\ \/ \E ty \in {"deferred"} \cup (uses \cap {"async"}) :
                       cancel' = [cancel EXCEPT !.type = ty]
                \/ \E d \in BOOLEAN : cancel' = [cancel EXCEPT !.disabled = d]
             /\ UNCHANGED <<uses, storage, kthread, id, control, returncode, detached,
                            waiting, handlers, left, cpc, joiner>>

\* The macros pair push and pop: a start routine returns with an empty stack.
Return(s) == /\ MayLeave
             /\ At("run", "store")
             /\ handlers = 0
             /\ left' = s
             /\ UNCHANGED <<uses, storage, kthread, control, fields, handlers, cpc,
                            joiner>>

\* Fault: the status is not stored.
StoreNothing == /\ At("store", "test")
                /\ UNCHANGED <<uses, storage, kthread, control, fields, handlers, left,
                               cpc, joiner>>

Store == /\ At("store", "test")
         /\ returncode' = left
         /\ UNCHANGED <<uses, storage, kthread, id, control, detached, waiting, cancel,
                        handlers, left, cpc, joiner>>

TestDetached == /\ At("test", IF detached THEN "detach" ELSE "exit")
                /\ UNCHANGED <<uses, storage, kthread, control, fields, handlers, left,
                               cpc, joiner>>

\* pthread_exit: the cleanup stack is left as it is.
Exit(s) == /\ "exit" \in uses /\ MayLeave
           /\ At("run", "x_test")
           /\ left' = s
           /\ UNCHANGED <<uses, storage, kthread, control, fields, handlers, cpc,
                          joiner>>

ExitTestDetached ==
    /\ At("x_test", IF detached THEN "detach" ELSE "x_store")
    /\ UNCHANGED <<uses, storage, kthread, control, fields, handlers, left, cpc,
                   joiner>>

ExitStore == /\ At("x_store", "exit")
             /\ returncode' = left
             /\ UNCHANGED <<uses, storage, kthread, id, control, detached, waiting,
                            cancel, handlers, left, cpc, joiner>>

\* Fault: the storage is not freed.
ReleaseNothing == /\ id' = "DELETED"
                  /\ control' = -1
                  /\ storage' = storage

\* What detach does but for the kernel's thread: the destructors, the semaphore, free.
Release == /\ id' = "DELETED"
           /\ control' = -1
           /\ storage' = "freed"

DetachMe == /\ \/ At("detach", "exit")
               \/ At("c_detach", "exit_delete")
            /\ Release
            /\ UNCHANGED <<uses, kthread, returncode, detached, waiting, cancel,
                           handlers, left, cpc, joiner>>

ExitThread == /\ At("exit", "gone")
              /\ kthread' = "dormant"
              /\ UNCHANGED <<uses, storage, control, fields, handlers, left, cpc,
                             joiner>>

\* pthread_testcancel with a request to act upon.
TestCancel == /\ "testcancel" \in uses /\ MayLeave
              /\ ~cancel.disabled /\ cancel.pending
              /\ At("run", "cleanup")
              /\ left' = Canceled
              /\ UNCHANGED <<uses, storage, kthread, control, fields, handlers, cpc,
                             joiner>>

CleanupPop == /\ At("cleanup", "cleanup")
              /\ handlers > 0
              /\ handlers' = handlers - 1
              /\ UNCHANGED <<uses, storage, kthread, control, fields, left, cpc,
                             joiner>>

CleanupEnd == /\ At("cleanup", "c_test")
              /\ handlers = 0
              /\ UNCHANGED <<uses, storage, kthread, control, fields, handlers, left,
                             cpc, joiner>>

CancelTestDetached ==
    /\ At("c_test", IF detached THEN "c_detach" ELSE "c_id")
    /\ UNCHANGED <<uses, storage, kthread, control, fields, handlers, left, cpc,
                   joiner>>

TestCancelId == /\ At("c_id", "c_code")
                /\ id' = "DELETED"
                /\ UNCHANGED <<uses, storage, kthread, control, returncode, detached,
                               waiting, cancel, handlers, left, cpc, joiner>>

TestCancelCode == /\ At("c_code", "exit_delete")
                  /\ returncode' = Canceled
                  /\ UNCHANGED <<uses, storage, kthread, id, control, detached, waiting,
                                 cancel, handlers, left, cpc, joiner>>

ExitDeleteThread == /\ At("exit_delete", "gone")
                    /\ kthread' = "deleted"
                    /\ UNCHANGED <<uses, storage, control, fields, handlers, left, cpc,
                                   joiner>>

--------------------------------------------------------------------------------
(* What pthread_cond_wait does to the fields of the thread that calls it (see Cond for
   the condition itself). *)

WaitCall == /\ "wait" \in uses
            /\ At("run", "w_callback")
            /\ handlers' = handlers + 1
            /\ UNCHANGED <<uses, storage, kthread, control, fields, left, cpc, joiner>>

WaitCallback ==
    /\ At("w_callback", "w_asleep")
    /\ cancel' = [cancel EXCEPT !.inWAIT = TRUE]
    /\ UNCHANGED <<uses, storage, kthread, id, control, returncode, detached, waiting,
                   handlers, left, cpc, joiner>>

\* Woken, by a signal or the time, it takes its own control.
WaitLock == /\ At("w_asleep", "w_awake")
            /\ control = 1 /\ control' = 0
            /\ cancel' = [cancel EXCEPT !.inWAIT = FALSE]
            /\ UNCHANGED <<uses, storage, kthread, id, returncode, detached, waiting,
                           handlers, left, cpc, joiner>>

\* A thread that finds itself deleted sleeps for good.
WaitUnlock == /\ At("w_awake", "w_pop")
              /\ id # "DELETED"
              /\ control' = 1
              /\ UNCHANGED <<uses, storage, kthread, fields, handlers, left, cpc,
                             joiner>>

WaitPop == /\ At("w_pop", "run")
           /\ handlers' = handlers - 1
           /\ UNCHANGED <<uses, storage, kthread, control, fields, left, cpc, joiner>>

--------------------------------------------------------------------------------
(* pthread_join *)

JoinCall == /\ "join" \in uses
            /\ storage = "live" /\ ~detached
            /\ jpc = "idle" /\ jpc' = "j_test"
            /\ control = 1 /\ control' = 0
            /\ UNCHANGED <<uses, storage, kthread, fields, handlers, left, tpc, cpc,
                           endarg, value>>

JoinDeleted == /\ jpc = "j_test" /\ jpc' = "j_deleted"
               /\ id = "DELETED"
               /\ UNCHANGED <<uses, storage, kthread, control, fields, handlers, left,
                              tpc, cpc, endarg, value>>

\* The join came after the thread was marked: it returns and detaches nothing.
JoinDeletedValue == /\ jpc = "j_deleted" /\ jpc' = "late"
                    /\ value' = returncode
                    /\ control' = 1
                    /\ UNCHANGED <<uses, storage, kthread, fields, handlers, left, tpc,
                                   cpc, endarg>>

JoinWaiting == /\ jpc = "j_test" /\ jpc' = "j_arg"
               /\ id # "DELETED"
               /\ waiting' = waiting + 1
               /\ UNCHANGED <<uses, storage, kthread, id, control, returncode, detached,
                              cancel, handlers, left, tpc, cpc, endarg, value>>

\* No callback can be created: the call fails, with the caller counted as waiting
\* (bound: only one call fails so).
JoinFails == /\ "callback" \in uses
             /\ jpc = "j_test" /\ jpc' = "idle"
             /\ id # "DELETED" /\ waiting = 0
             /\ waiting' = waiting + 1
             /\ control' = 1
             /\ UNCHANGED <<uses, storage, kthread, id, returncode, detached, cancel,
                            handlers, left, tpc, cpc, endarg, value>>

JoinArgument == /\ jpc = "j_arg" /\ jpc' = "j_callback"
                /\ endarg' = id
                /\ UNCHANGED <<uses, storage, kthread, control, fields, handlers, left,
                               tpc, cpc, value>>

\* Fault: the callback does not release the control.
JoinCallbackNothing ==
    /\ jpc = "j_callback" /\ jpc' = "j_end"
    /\ UNCHANGED <<uses, storage, kthread, control, fields, handlers, left, tpc, cpc,
                   endarg, value>>

\* The callback, in sceKernelWaitThreadEndCB or else in sceKernelCheckCallback: in
\* both cases before the joiner takes the control again.
JoinCallback == /\ jpc = "j_callback" /\ jpc' = "j_end"
                /\ control' = 1
                /\ UNCHANGED <<uses, storage, kthread, fields, handlers, left, tpc, cpc,
                               endarg, value>>

\* Fault: the join does not wait for the end of the thread.
JoinEndAtOnce ==
    /\ jpc = "j_end" /\ jpc' = "j_lock"
    /\ UNCHANGED <<uses, storage, kthread, control, fields, handlers, left, tpc, cpc,
                   endarg, value>>

\* Waiting for an id that is not one of a thread ends at once.
JoinEnd == /\ jpc = "j_end" /\ jpc' = "j_lock"
           /\ Ended \/ endarg = "DELETED"
           /\ UNCHANGED <<uses, storage, kthread, control, fields, handlers, left, tpc,
                          cpc, endarg, value>>

JoinLock == /\ jpc = "j_lock" /\ jpc' = "j_value"
            /\ control = 1 /\ control' = 0
            /\ UNCHANGED <<uses, storage, kthread, fields, handlers, left, tpc, cpc,
                           endarg, value>>

JoinRelease == /\ jpc = "j_value" /\ jpc' = "done"
               /\ waiting = 1 /\ waiting' = 0
               /\ value' = returncode
               /\ Release
               /\ kthread' = IF id = "DELETED" THEN kthread ELSE "deleted"
               /\ UNCHANGED <<uses, returncode, detached, cancel, handlers, left, tpc,
                              cpc, endarg>>

JoinUnlock == /\ jpc = "j_value" /\ jpc' = "done"
              /\ waiting # 1 /\ waiting' = waiting - 1
              /\ value' = returncode
              /\ control' = 1
              /\ UNCHANGED <<uses, storage, kthread, id, returncode, detached, cancel,
                             handlers, left, tpc, cpc, endarg>>

--------------------------------------------------------------------------------
(* pthread_detach and pthread_cancel *)

Detach == /\ "detach" \in uses
          /\ storage = "live" /\ ~detached
          /\ jpc = "idle"
          /\ cpc # "idle" => tpc \in Inside
          /\ detached' = TRUE
          /\ UNCHANGED <<uses, storage, kthread, id, control, returncode, waiting,
                         cancel, handlers, left, tpc, cpc, joiner>>

\* Fault: the canceller does not take the control.
CancelCallUnlocked ==
    /\ "cancel" \in uses
    /\ storage = "live"
    /\ detached => tpc \in Inside
    /\ cpc = "idle" /\ cpc' = "k_test"
    /\ UNCHANGED <<uses, storage, kthread, control, fields, handlers, left, tpc,
                   joiner>>

CancelCall == /\ "cancel" \in uses
              /\ storage = "live"
              /\ detached => tpc \in Inside
              /\ cpc = "idle" /\ cpc' = "k_test"
              /\ control = 1 /\ control' = 0
              /\ UNCHANGED <<uses, storage, kthread, fields, handlers, left, tpc,
                             joiner>>

Deferred == cancel.disabled \/ cancel.type = "deferred"

CancelPend == /\ Deferred
              /\ cpc = "k_test" /\ cpc' = "k_wait"
              /\ cancel' = [cancel EXCEPT !.pending = TRUE]
              /\ UNCHANGED <<uses, storage, kthread, id, control, returncode, detached,
                             waiting, handlers, left, tpc, joiner>>

CancelLeave == /\ ~cancel.inWAIT
               /\ cpc = "k_wait" /\ cpc' = "idle"
               /\ control' = 1
               /\ UNCHANGED <<uses, storage, kthread, fields, handlers, left, tpc,
                              joiner>>

\* A thread that waits for a condition is cancelled at once.
CancelWaiting == /\ cancel.inWAIT
                 /\ cpc = "k_wait" /\ cpc' = "k_alive"
                 /\ UNCHANGED <<uses, storage, kthread, control, fields, handlers, left,
                                tpc, joiner>>

CancelNow == /\ ~Deferred
             /\ cpc = "k_test" /\ cpc' = "k_alive"
             /\ UNCHANGED <<uses, storage, kthread, control, fields, handlers, left,
                            tpc, joiner>>

CancelDeleted == /\ id = "DELETED"
                 /\ cpc = "k_alive" /\ cpc' = "idle"
                 /\ control' = 1
                 /\ UNCHANGED <<uses, storage, kthread, fields, handlers, left, tpc,
                                joiner>>

CancelAlive == /\ id # "DELETED"
               /\ cpc = "k_alive" /\ cpc' = "k_code"
               /\ UNCHANGED <<uses, storage, kthread, control, fields, handlers, left,
                              tpc, joiner>>

CancelCode == /\ cpc = "k_code" /\ cpc' = "k_id"
              /\ returncode' = Canceled
              /\ UNCHANGED <<uses, storage, kthread, id, control, detached, waiting,
                             cancel, handlers, left, tpc, joiner>>

CancelId == /\ cpc = "k_id" /\ cpc' = "k_delete"
            /\ id' = "DELETED"
            /\ UNCHANGED <<uses, storage, kthread, control, returncode, detached,
                           waiting, cancel, handlers, left, tpc, joiner>>

\* The thread stops where it is.  Then its storage is released or its control unlocked.
CancelDelete ==
    /\ cpc = "k_delete" /\ cpc' = "idle"
    /\ kthread' = "deleted"
    /\ left' = IF left = Null THEN Canceled ELSE left
    /\ tpc' = "gone"
    /\ IF detached THEN Release ELSE control' = 1 /\ UNCHANGED <<storage, id>>
    /\ UNCHANGED <<uses, returncode, detached, waiting, cancel, handlers, joiner>>

--------------------------------------------------------------------------------
TargetStep == \/ Glue \/ Store \/ TestDetached \/ ExitTestDetached \/ ExitStore \/ DetachMe
              \/ ExitThread \/ CleanupPop \/ CleanupEnd \/ CancelTestDetached \/ TestCancelId
              \/ TestCancelCode \/ ExitDeleteThread
              \/ WaitCallback \/ WaitUnlock \/ WaitPop
Leave == (\E s \in Statuses : Return(s) \/ Exit(s)) \/ TestCancel

JoinStep == \/ JoinDeleted \/ JoinDeletedValue \/ JoinWaiting \/ JoinFails \/ JoinArgument
            \/ JoinCallback \/ JoinEnd \/ JoinRelease \/ JoinUnlock
CancelStep == \/ CancelPend \/ CancelLeave \/ CancelWaiting \/ CancelNow \/ CancelDeleted
              \/ CancelAlive \/ CancelCode \/ CancelId \/ CancelDelete

Next == \/ \E d \in BOOLEAN : Create(d)
        \/ CreateFails
        \/ TargetStep \/ PushHandler \/ PopHandler \/ SetCancel \/ Leave
        \/ WaitCall \/ WaitLock
        \/ JoinCall \/ JoinStep \/ JoinLock
        \/ Detach \/ CancelCall \/ CancelStep

Spec == Init /\ [][Next]_vars

\* Threads run, the thread does end (it does not push and pop handlers and wait for
\* ever), its waits end, and the control is granted to everybody who waits for it.
FairSpec == /\ Spec
            /\ WF_vars(TargetStep) /\ SF_vars(PopHandler) /\ SF_vars(Leave)
            /\ SF_vars(WaitLock)
            /\ WF_vars(JoinStep) /\ SF_vars(JoinLock)
            /\ WF_vars(CancelStep)

--------------------------------------------------------------------------------

\* Program counters at which the storage is still going to be read or written.
TargetUses == Inside \cup {"glue", "store", "test", "detach", "x_test", "x_store",
                            "cleanup", "c_test", "c_detach", "c_id", "c_code"}
JoinerUses == JoinerPCs \ {"idle", "done", "late"}
CancellerUses == CancellerPCs \ {"idle"}

\* The join has returned with a value.
HasJoined == jpc \in {"done", "late"}

\* Nobody joins a thread that tests for cancellations: pthread_testcancel marks it as
\* deleted before it has ended, and a join that sees the mark does not wait for the end.
JoinsWait == ~({"join", "testcancel"} \subseteq uses)

\* Nobody who still uses the storage has it freed under his feet (detach frees it from
\* three threads: pthread.c:84-85).
NoAccessAfterFree ==
    JoinsWait /\ storage = "freed" => /\ tpc \notin TargetUses
                                      /\ jpc \notin JoinerUses
                                      /\ cpc \notin CancellerUses

\* A join hands over what the thread ended with (pthread_vita.h:517-519: "the value
\* passed to pthread_exit() by the terminating thread is made available"), whether it
\* was cancelled in a wait or not.  Only an asynchronous cancellation may come after the
\* status and put PTHREAD_CANCELED in its place.
JoinValue ==
    JoinsWait /\ HasJoined
        => value = left \/ ("async" \in uses /\ value = Canceled)

\* A join returns only when the thread has ended (pthread_vita.h:519-520: "When a
\* pthread_join() returns successfully, the target thread has been terminated").
JoinAfterEnd == JoinsWait /\ HasJoined => tpc = "gone"

\* The storage of a thread that was created detached, or that somebody has waited for in
\* pthread_join, is reclaimed when it has ended, however it was cancelled
\* (pthread_attr_setdetachstate; pthread.c:647-648), unless a late detach or a failed
\* join got in the way.  Joins that come after a cancellation are not among these: see
\* JoinReclaims.
Reclaimed ==
    /\ uses \cap {"detach", "callback"} = {}
    /\ tpc = "gone" /\ cpc = "idle"
    /\ detached \/ (jpc = "done" /\ JoinsWait)
    => storage = "freed"

\* Every join of a thread returns, whoever cancels it in the meantime.
JoinReturns == jpc # "idle" ~> jpc \in {"idle", "done", "late"}

(* What comments of the code say and the code does not do. *)

\* "The cancellation cleanup handler is popped ... and invoked ... when: (a) the thread
\* exits (that is, calls pthread_exit, (b) the thread acts upon a cancellation request"
\* (pthread_cleanup.c:7-11): none is left when the thread is gone.
HandlersRun == tpc = "gone" => handlers = 0

\* "If the thread is not detached, its resources, including the thread ID, the
\* termination status, ... are all maintained until the thread is detached or the
\* process terminates" (pthread.c:642-645): a thread that has ended keeps its status.
StatusKept == [][kthread = "dormant" /\ storage = "live" => returncode' = returncode]_vars

\* "If another thread joins the calling thread, ... the calling thread is automatically
\* detached" (pthread.c:647-648; pthread.c:770-771): its storage is freed by the join.
JoinReclaims == HasJoined => storage = "freed"
================================================================================
