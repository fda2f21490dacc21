---------------------------------- MODULE Keys ----------------------------------
(***************************************************************************)
(* Thread-specific data (src/src/pthread_key.c): the key table with its    *)
(* counts, destructors and mutexes, key_mutex, and the data of each thread *)
(* from its first call to the cleanup at its end.                          *)
(*                                                                         *)
(* A count is read and written in two steps: setspecific does so under the *)
(* mutex of the key, create and cleanup under key_mutex.  The mutexes are  *)
(* locks as in LockSpec; locking one that has been destroyed fails, which  *)
(* nobody looks at, and unlocking it then does nothing.                    *)
(***************************************************************************)
EXTENDS Integers, FiniteSets, Callers

CONSTANTS
    Free,                            \* a mutex that nobody has
    Destroyed,                       \* the mutex of a key that is not there
    PTHREAD_KEYS_MAX,
    PTHREAD_DESTRUCTOR_ITERATIONS,
    Programs,                        \* what each program checked does
    MaxCalls                         \* bound: calls of each thread and its destructors

\* "reset": destructors set the data again.
AllUses == {"set", "delete", "end", "reset"}

ASSUME KeysAssumption == /\ PTHREAD_KEYS_MAX \in Nat \ {0}
                         /\ PTHREAD_DESTRUCTOR_ITERATIONS \in Nat \ {0}
                         /\ MaxCalls \in Nat /\ IsFiniteSet(Threads)
ASSUME LockAssumption == Free \notin Threads /\ Destroyed \notin Threads \cup {Free}
ASSUME ProgramsAssumption == Programs \subseteq SUBSET AllUses

VARIABLES
    uses,        \* the program, which never changes
    count, dtor, mutex,      \* the fields of key_table; dtor[k]: it is not NULL
    key_mutex,
    data,        \* specific_data: keys for which a thread's value is not NULL
    specific_data_count,
    owners,      \* how often each key has been returned by create and not yet deleted
    calls,
    key, set,    \* the arguments of a thread's call; set: the value is not NULL
    read,        \* the count it has read
    pos          \* the turn of the loops of its cleanup that is next, 0 before them

table == <<count, dtor, mutex>>
local == <<data, specific_data_count>>
args == <<calls, key, set, pos>>
vars == <<uses, table, key_mutex, local, owners, pc, args, read>>

KeyIndexes == 0..(PTHREAD_KEYS_MAX - 1)

\* The turns of both loops of the cleanup, and the key that is looked at in each.
Turns == 1..(PTHREAD_DESTRUCTOR_ITERATIONS * PTHREAD_KEYS_MAX)
KeyOf(p) == (p - 1) % PTHREAD_KEYS_MAX

Users(k) == {t \in Threads : k \in data[t]}

\* The main thread has made keys, and the threads may have set data, one after another.
Init == /\ uses \in Programs
        /\ \E made \in SUBSET KeyIndexes :
              /\ owners = [k \in KeyIndexes |-> IF k \in made THEN 1 ELSE 0]
              /\ mutex = [k \in KeyIndexes |-> IF k \in made THEN Free ELSE Destroyed]
              /\ \E D \in SUBSET made : dtor = [k \in KeyIndexes |-> k \in D]
              /\ data \in [Threads -> SUBSET made]
        /\ count = [k \in KeyIndexes |-> owners[k] + Cardinality(Users(k))]
        /\ specific_data_count = [t \in Threads |-> Cardinality(data[t])]
        /\ key_mutex = Free
        /\ pc = [t \in Threads |-> "idle"]
        /\ calls = [t \in Threads |-> 0]
        /\ key = [t \in Threads |-> 0]
        /\ set = [t \in Threads |-> FALSE]
        /\ read = [t \in Threads |-> 0]
        /\ pos = [t \in Threads |-> 0]

\* The arguments are of no use after a call.
Forget(t) == /\ key' = [key EXCEPT ![t] = 0]
             /\ set' = [set EXCEPT ![t] = FALSE]

Call(t) == /\ calls[t] < MaxCalls
           /\ calls' = [calls EXCEPT ![t] = @ + 1]

LockKeyMutex(t) == key_mutex = Free /\ key_mutex' = t

\* A mutex that is destroyed is not locked, and the caller goes on.
LockKey(t, k) == /\ mutex[k] \in {Free, Destroyed}
                 /\ mutex' = [mutex EXCEPT ![k] = IF @ = Free THEN t ELSE @]

\* A NORMAL mutex is unlocked whoever has it.
UnlockKey(k) == mutex' = [mutex EXCEPT ![k] = IF @ \in Threads THEN Free ELSE @]

--------------------------------------------------------------------------------
(* pthread_key_create *)

CreateCall(t) == /\ Call(t) /\ Go(t, "idle", "c_lock")
                 /\ UNCHANGED <<uses, table, key_mutex, local, owners, key, set, pos, read>>

CreateLock(t) == /\ LockKeyMutex(t) /\ Go(t, "c_lock", "c_find")
                 /\ UNCHANGED <<uses, table, local, owners, args, read>>

CreateFind(t) ==
    /\ \E k \in KeyIndexes :
          /\ count[k] = 0
          /\ \A j \in KeyIndexes : j < k => count[j] # 0
          /\ key' = [key EXCEPT ![t] = k]
    /\ Go(t, "c_find", "c_count")
    /\ UNCHANGED <<uses, table, key_mutex, local, owners, calls, set, pos, read>>

CreateNone(t) == /\ \A k \in KeyIndexes : count[k] # 0
                 /\ Go(t, "c_find", "idle")
                 /\ key_mutex' = Free
                 /\ UNCHANGED <<uses, table, local, owners, args, read>>

CreateCount(t) ==
    /\ Go(t, "c_count", "c_init")
    /\ count' = [count EXCEPT ![key[t]] = 1]
    /\ \E d \in BOOLEAN : dtor' = [dtor EXCEPT ![key[t]] = d]
    /\ UNCHANGED <<uses, mutex, key_mutex, local, owners, args, read>>

CreateInit(t) ==
    /\ Go(t, "c_init", "idle")
    /\ mutex' = [mutex EXCEPT ![key[t]] = Free]
    /\ owners' = [owners EXCEPT ![key[t]] = @ + 1]
    /\ key_mutex' = Free
    /\ Forget(t)
    /\ UNCHANGED <<uses, count, dtor, local, calls, pos, read>>

--------------------------------------------------------------------------------
(* pthread_key_delete.  Callers see to it that no data is associated with  *)
(* the key and that nobody uses it any more (pthread_key.c:81-85).         *)

DeleteCall(t, k) ==
    /\ "delete" \in uses
    /\ owners[k] > 0 /\ Users(k) = {}
    /\ \A u \in Threads : pc[u] \in {"s_lock", "s_test", "s_write", "s_unlock"} => key[u] # k
    /\ Call(t) /\ Go(t, "idle", "d_lock")
    /\ key' = [key EXCEPT ![t] = k]
    /\ owners' = [owners EXCEPT ![k] = @ - 1]
    /\ UNCHANGED <<uses, table, key_mutex, local, set, pos, read>>

DeleteLock(t) == /\ LockKey(t, key[t]) /\ Go(t, "d_lock", "d_test")
                 /\ UNCHANGED <<uses, count, dtor, key_mutex, local, owners, args, read>>

\* Fault: the key is deleted whatever its count.
UnusedNever(k) == count[k] > 0

Unused(k) == count[k] = 1

DeleteTest(t) ==
    /\ Go(t, "d_test", IF Unused(key[t]) THEN "d_zero" ELSE "d_destroy")
    /\ dtor' = [dtor EXCEPT ![key[t]] = @ /\ ~Unused(key[t])]
    /\ UNCHANGED <<uses, count, mutex, key_mutex, local, owners, args, read>>

DeleteZero(t) == /\ Go(t, "d_zero", "d_destroy")
                 /\ count' = [count EXCEPT ![key[t]] = 0]
                 /\ UNCHANGED <<uses, dtor, mutex, key_mutex, local, owners, args, read>>

DeleteDestroy(t) == /\ Go(t, "d_destroy", "idle")
                    /\ mutex' = [mutex EXCEPT ![key[t]] = Destroyed]
                    /\ Forget(t)
                    /\ UNCHANGED <<uses, count, dtor, key_mutex, local, owners, calls, pos, read>>

--------------------------------------------------------------------------------
(* pthread_setspecific, called by the thread or by a destructor in its cleanup. *)

SetCall(t, k, v) ==
    /\ Call(t)
    /\ \/ "set" \in uses /\ Go(t, "idle", "s_lock")
       \/ "reset" \in uses /\ k = key[t] /\ v /\ Go(t, "e_call", "s_lock")
    /\ key' = [key EXCEPT ![t] = k]
    /\ owners[k] > 0
    /\ set' = [set EXCEPT ![t] = v]
    /\ UNCHANGED <<uses, table, key_mutex, local, owners, pos, read>>

SetLock(t) == /\ LockKey(t, key[t]) /\ Go(t, "s_lock", "s_test")
              /\ UNCHANGED <<uses, count, dtor, key_mutex, local, owners, args, read>>

NewData(t) == set[t] /\ key[t] \notin data[t]

NoData(t) == ~set[t] /\ key[t] \in data[t]

SetTest(t) ==
    /\ Go(t, "s_test", IF count[key[t]] = 0 THEN "s_unlock" ELSE "s_write")
    /\ read' = [read EXCEPT ![t] = count[key[t]]]
    /\ UNCHANGED <<uses, table, key_mutex, local, owners, args>>

\* Fault: the count of the key is only ever raised.
ChangeUp(t) == IF NewData(t) THEN 1 ELSE 0

Change(t) == IF NewData(t) THEN 1 ELSE IF NoData(t) THEN -1 ELSE 0

SetWrite(t) ==
    /\ Go(t, "s_write", "s_unlock")
    /\ specific_data_count' = [specific_data_count EXCEPT ![t] = @ + Change(t)]
    /\ count' = IF Change(t) = 0 THEN count ELSE [count EXCEPT ![key[t]] = read[t] + Change(t)]
    /\ data' = [data EXCEPT ![t] = IF set[t] THEN @ \cup {key[t]} ELSE @ \ {key[t]}]
    /\ UNCHANGED <<uses, dtor, mutex, key_mutex, owners, args, read>>

\* Back to the thread, or to the cleanup that called the destructor.
SetUnlock(t) ==
    /\ UnlockKey(key[t])
    /\ \/ pos[t] = 0 /\ Go(t, "s_unlock", "idle") /\ Forget(t)
       \/ pos[t] # 0 /\ Go(t, "s_unlock", "e_again") /\ UNCHANGED <<key, set>>
    /\ read' = [read EXCEPT ![t] = 0]
    /\ UNCHANGED <<uses, count, dtor, key_mutex, local, owners, calls, pos>>

\* What pthread_getspecific returns to t is not NULL: it takes no mutex.
GetSpecific(t, k) == count[k] # 0 /\ k \in data[t]

--------------------------------------------------------------------------------
(* pthread_cleanupspecific_, which the thread calls when it ends. *)

EndCall(t) == /\ "end" \in uses
              /\ Go(t, "idle", "e_lock")
              /\ pos' = [pos EXCEPT ![t] = 1]
              /\ UNCHANGED <<uses, table, key_mutex, local, owners, calls, key, set, read>>

EndLock(t) == /\ LockKeyMutex(t) /\ Go(t, "e_lock", "e_next")
              /\ UNCHANGED <<uses, table, local, owners, args, read>>

\* Fault: the loops skip a turn.
RemainingLess(t) == {p \in Turns : p > pos[t] /\ KeyOf(p) \in data[t]}

Remaining(t) == {p \in Turns : p >= pos[t] /\ KeyOf(p) \in data[t]}

EndTake(t) ==
    /\ specific_data_count[t] # 0
    /\ \E p \in Remaining(t) :
          /\ \A q \in Remaining(t) : p <= q
          /\ key' = [key EXCEPT ![t] = KeyOf(p)]
          /\ pos' = [pos EXCEPT ![t] = p + 1]
          /\ data' = [data EXCEPT ![t] = @ \ {KeyOf(p)}]
          /\ Go(t, "e_next", IF dtor[KeyOf(p)] THEN "e_call" ELSE "e_read")
          /\ key_mutex' = IF dtor[KeyOf(p)] THEN Free ELSE key_mutex
    /\ specific_data_count' = [specific_data_count EXCEPT ![t] = @ - 1]
    /\ UNCHANGED <<uses, table, owners, calls, set, read>>

\* The destructor returns.
EndCalled(t) == /\ Go(t, "e_call", "e_again")
                /\ UNCHANGED <<uses, table, key_mutex, local, owners, args, read>>

EndAgain(t) == /\ LockKeyMutex(t) /\ Go(t, "e_again", "e_read")
               /\ UNCHANGED <<uses, table, local, owners, args, read>>

EndRead(t) == /\ Go(t, "e_read", "e_write")
              /\ read' = [read EXCEPT ![t] = count[key[t]]]
              /\ UNCHANGED <<uses, table, key_mutex, local, owners, args>>

EndWrite(t) == /\ Go(t, "e_write", "e_next")
               /\ count' = [count EXCEPT ![key[t]] = read[t] - 1]
               /\ read' = [read EXCEPT ![t] = 0]
               /\ UNCHANGED <<uses, dtor, mutex, key_mutex, local, owners, args>>

\* Fault: key_mutex stays locked.
EndDoneLocked(t) == /\ specific_data_count[t] = 0 \/ Remaining(t) = {}
                    /\ Go(t, "e_next", "gone")
                    /\ UNCHANGED <<uses, table, key_mutex, local, owners, args, read>>

EndDone(t) == /\ specific_data_count[t] = 0 \/ Remaining(t) = {}
              /\ Go(t, "e_next", "gone")
              /\ key_mutex' = Free
              /\ Forget(t) /\ pos' = [pos EXCEPT ![t] = 0]
              /\ UNCHANGED <<uses, table, local, owners, calls, read>>

--------------------------------------------------------------------------------
Calling(t) == \/ CreateCall(t) \/ EndCall(t)
              \/ \E k \in KeyIndexes : DeleteCall(t, k) \/ \E v \in BOOLEAN : SetCall(t, k, v)

Running(t) ==
    \/ CreateLock(t) \/ CreateFind(t) \/ CreateNone(t) \/ CreateCount(t) \/ CreateInit(t)
    \/ DeleteLock(t) \/ DeleteTest(t) \/ DeleteZero(t) \/ DeleteDestroy(t)
    \/ SetLock(t) \/ SetTest(t) \/ SetWrite(t) \/ SetUnlock(t)
    \/ EndLock(t) \/ EndTake(t) \/ EndCalled(t) \/ EndAgain(t) \/ EndRead(t)
    \/ EndWrite(t) \/ EndDone(t)

Next == \E t \in Threads : Calling(t) \/ Running(t)

Spec == Init /\ [][Next]_vars

\* Threads in a call and destructors run, and the mutexes pass nobody over for ever.
FairSpec == Spec /\ \A t \in Threads : SF_vars(Running(t))

--------------------------------------------------------------------------------

\* Data is set, or threads end and keys are deleted, and never both at once: then no
\* count is changed under two mutexes, or under one that has been destroyed.
Separate == \/ uses \cap {"end", "delete"} = {}
            \/ uses \cap {"set", "reset"} = {}

\* Threads that have taken the data of k away and still have it counted.
Ending(k) == {t \in Threads : key[t] = k /\ pc[t] \in {"e_call", "e_again", "e_read", "e_write"}}

Known(k) == Cardinality(Users(k)) + Cardinality(Ending(k))

\* The count of a key is the number of threads with data, one more for the key itself,
\* whoever sets data or cleans it up at the same time, destructors running or not; and
\* a key of which a thread has data, or a destructor is running, is never free.
CountExact ==
    Separate => \A k \in KeyIndexes :
                   \/ count[k] = 1 + Known(k)
                   \/ count[k] = 0 /\ Known(k) = 0 /\ owners[k] = 0

\* pthread_key_create hands out a key that nobody else owns, and for which every
\* thread's data is NULL (pthread_key.c:28-31, "initially set to NULL").
NewKeysFresh ==
    \A t \in Threads :
        pc[t] = "c_init" => /\ owners[key[t]] = 0 /\ Ending(key[t]) = {}
                            /\ \A u \in Threads : ~GetSpecific(u, key[t])

\* The cleanup calls no destructor that pthread_key_delete has taken away since the
\* cleanup looked at it, and for which the key is free.
NoNullDtor ==
    Separate => \A t \in Threads : pc[t] = "e_call" => dtor[key[t]] /\ count[key[t]] > 0

\* When a thread is gone its data has been taken from every key, although the cleanup
\* stops early by a count of its own, unless a destructor set some again.
DataDestroyed ==
    \A t \in Threads : pc[t] = "gone" /\ "reset" \notin uses => data[t] = {}

\* Every call returns, and every cleanup ends, also when each destructor sets data
\* again, as long as no key is initialised while somebody waits for its mutex.
CallsReturn ==
    []NewKeysFresh
        => \A t \in Threads : pc[t] \notin {"idle", "gone"} ~> pc[t] \in {"idle", "gone"}
================================================================================
