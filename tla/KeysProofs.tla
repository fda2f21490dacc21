------------------------------- MODULE KeysProofs -------------------------------
(***************************************************************************)
(* What is proved of Keys for every set of threads, table size, number of  *)
(* rounds of destructors and set of programs.                              *)
(*                                                                         *)
(* A count is right because whoever is between reading and writing it has  *)
(* a mutex against everybody who may change it: while data is only set it  *)
(* is the mutex of the key (LockedByKey), while threads only end it is     *)
(* key_mutex, and what delete does without that is only done to a key that *)
(* nobody has data of (CleaningSafe).                                      *)
(***************************************************************************)
EXTENDS Keys, FiniteSetTheorems, TLAPS

CreatePCs == {"c_lock", "c_find", "c_count", "c_init"}
DeletePCs == {"d_lock", "d_test", "d_zero", "d_destroy"}
SetPCs == {"s_lock", "s_test", "s_write", "s_unlock"}
EndPCs == {"e_lock", "e_next", "e_call", "e_again", "e_read", "e_write"}
PCs == {"idle", "gone"} \cup CreatePCs \cup DeletePCs \cup SetPCs \cup EndPCs

\* Where a thread has key_mutex.
KeyMutexPCs == {"c_find", "c_count", "c_init", "e_next", "e_read", "e_write"}

TypeOK == /\ uses \in SUBSET AllUses
          /\ count \in [KeyIndexes -> Int]
          /\ dtor \in [KeyIndexes -> BOOLEAN]
          /\ mutex \in [KeyIndexes -> Threads \cup {Free, Destroyed}]
          /\ key_mutex \in Threads \cup {Free}
          /\ data \in [Threads -> SUBSET KeyIndexes]
          /\ specific_data_count \in [Threads -> Int]
          /\ owners \in [KeyIndexes -> Int]
          /\ pc \in [Threads -> PCs]
          /\ calls \in [Threads -> Nat]
          /\ key \in [Threads -> KeyIndexes]
          /\ set \in [Threads -> BOOLEAN]
          /\ read \in [Threads -> Int]
          /\ pos \in [Threads -> Nat]

\* The count that the cleanup stops by is the number of keys the thread has data of.
LocalExact == \A t \in Threads : specific_data_count[t] = Cardinality(data[t])

\* The loops of the cleanup come to every key the thread still has data of.
Ahead(t) == \A k \in data[t] : \E p \in Turns : p >= pos[t] /\ KeyOf(p) = k

LoopExact == "reset" \notin uses =>
                \A t \in Threads : /\ pc[t] \in EndPCs => Ahead(t)
                                   /\ pc[t] = "gone" => data[t] = {}
                                   /\ pc[t] \notin EndPCs => pos[t] = 0

KeyMutexExact == \A t \in Threads : pc[t] \in KeyMutexPCs <=> key_mutex = t

\* Nothing is done that is not part of the program.
OnlyUsed == \A t \in Threads : /\ pc[t] \in EndPCs => "end" \in uses
                               /\ pc[t] \in DeletePCs => "delete" \in uses
                               /\ pc[t] \in SetPCs => uses \cap {"set", "reset"} # {}
                               /\ pos[t] # 0 => "end" \in uses

Books == TypeOK /\ LocalExact /\ LoopExact /\ KeyMutexExact /\ OnlyUsed

\* The key that pthread_key_create has found is free until it takes it.
Fresh == Separate =>
            \A t \in Threads : /\ pc[t] = "c_count" => count[key[t]] = 0
                               /\ pc[t] = "c_init" => /\ count[key[t]] = 1
                                                      /\ owners[key[t]] = 0

\* While nothing is deleted or ends, setspecific has the mutex of its key, and what it
\* has read of the count is still so when it writes.
Setting == "end" \notin uses /\ "delete" \notin uses

LockedByKey ==
    Setting =>
       /\ \A k \in KeyIndexes : owners[k] > 0 => mutex[k] # Destroyed
       /\ \A t \in Threads :
             /\ pc[t] \in SetPCs => owners[key[t]] > 0
             /\ pc[t] \in {"s_test", "s_write", "s_unlock"} => mutex[key[t]] = t
             /\ pc[t] = "s_write" => read[t] = count[key[t]]

\* While no data is set, a key that is deleted is nobody else's, and nobody has data of
\* it; what the cleanup has read of a count is still so when it writes, and the key
\* keeps its destructor while that is called.
Cleaning == "set" \notin uses /\ "reset" \notin uses

Deleting(t) == pc[t] \in {"d_lock", "d_test", "d_zero"}

Unshared(t) == /\ owners[key[t]] = 0 /\ Users(key[t]) = {} /\ count[key[t]] # 0
               /\ \A u \in Threads : pc[u] \in {"c_count", "c_init"} => key[u] # key[t]
               /\ \A u \in Threads \ {t} : Deleting(u) => key[u] # key[t]

CleaningSafe ==
    Cleaning =>
       /\ \A k \in KeyIndexes : owners[k] \in {0, 1}
       /\ \A t \in Threads :
             /\ Deleting(t) => Unshared(t)
             /\ pc[t] = "d_zero" => count[key[t]] = 1
             /\ pc[t] = "e_write" => read[t] = count[key[t]]
             /\ pc[t] = "e_call" => dtor[key[t]]

IInv == Books /\ Fresh /\ LockedByKey /\ CleaningSafe /\ CountExact

USE KeysAssumption, LockAssumption
    DEF CreatePCs, DeletePCs, SetPCs, EndPCs, PCs, KeyMutexPCs, AllUses, table, local, args,
        Go, IsAt, Call, LockKeyMutex, LockKey, UnlockKey, Books, TypeOK, LocalExact,
        LoopExact, Ahead, KeyMutexExact, OnlyUsed, Fresh, Setting, LockedByKey, Cleaning,
        Deleting, Unshared, CleaningSafe, Separate

--------------------------------------------------------------------------------
(* The threads a count stands for. *)

LEMMA OneMore ==
    ASSUME NEW S, NEW x, IsFiniteSet(S), x \notin S
    PROVE  Cardinality(S \cup {x}) = Cardinality(S) + 1
  BY FS_AddElement

LEMMA OneLess ==
    ASSUME NEW S, NEW x, IsFiniteSet(S), x \in S
    PROVE  Cardinality(S \ {x}) = Cardinality(S) - 1
  BY FS_RemoveElement

LEMMA UsersFinite ==
    ASSUME NEW k \in KeyIndexes
    PROVE  /\ IsFiniteSet(Users(k)) /\ Cardinality(Users(k)) \in Nat
           /\ Cardinality(Users(k)) = 0 <=> Users(k) = {}
  <1>1. Users(k) \in SUBSET Threads
    BY DEF Users
  <1> QED
    BY <1>1, FS_Subset, FS_CardinalityType, FS_EmptySet

LEMMA EndingFinite ==
    ASSUME NEW k \in KeyIndexes
    PROVE  /\ IsFiniteSet(Ending(k)) /\ Cardinality(Ending(k)) \in Nat
           /\ Cardinality(Ending(k)) = 0 <=> Ending(k) = {}
  <1>1. Ending(k) \in SUBSET Threads
    BY DEF Ending
  <1> QED
    BY <1>1, FS_Subset, FS_CardinalityType, FS_EmptySet

\* What CountExact says of one key.
LEMMA Counts ==
    ASSUME IInv, Separate, NEW k \in KeyIndexes
    PROVE  /\ Known(k) \in Nat
           /\ owners[k] > 0 \/ count[k] # 0 => count[k] = 1 + Known(k)
           /\ Users(k) # {} \/ Ending(k) # {} => count[k] > 1
           /\ count[k] = 0 => owners[k] = 0
  <1>1. /\ Known(k) \in Nat
        /\ Known(k) = 0 => Users(k) = {} /\ Ending(k) = {}
    BY UsersFinite, EndingFinite DEF Known
  <1>2. \/ count[k] = 1 + Known(k)
        \/ count[k] = 0 /\ Known(k) = 0 /\ owners[k] = 0
    BY DEF IInv, CountExact
  <1> QED
    BY <1>1, <1>2

LEMMA SameKnown ==
    ASSUME NEW k \in KeyIndexes, Users(k)' = Users(k), Ending(k)' = Ending(k)
    PROVE  Known(k)' = Known(k)
  BY DEF Known

LEMMA SameUsers ==
    ASSUME data' = data
    PROVE  \A k \in KeyIndexes : Users(k)' = Users(k)
  BY DEF Users

LEMMA SameCounts ==
    ASSUME IInv, UNCHANGED <<uses, count, owners, data>>,
           Separate => \A k \in KeyIndexes : Ending(k)' = Ending(k)
    PROVE  CountExact'
  <1>1. Separate => \A k \in KeyIndexes : Known(k)' = Known(k)
    BY DEF Known, Users
  <1> QED
    BY <1>1 DEF IInv, CountExact

LEMMA DataFinite ==
    ASSUME IInv, NEW t \in Threads
    PROVE  IsFiniteSet(data[t])
  <1>1. IsFiniteSet(KeyIndexes)
    BY FS_Interval DEF KeyIndexes
  <1> QED
    BY <1>1, FS_Subset DEF IInv

\* The first round of the loops looks at every key.
LEMMA FirstRound ==
    ASSUME NEW k \in KeyIndexes
    PROVE  k + 1 \in Turns /\ KeyOf(k + 1) = k
  <1>1. PICK n \in Nat : PTHREAD_DESTRUCTOR_ITERATIONS = n + 1
    <2>1. PTHREAD_DESTRUCTOR_ITERATIONS - 1 \in Nat
      OBVIOUS
    <2> QED
      BY <2>1
  <1>2. n * PTHREAD_KEYS_MAX \in Nat
    OBVIOUS
  <1>3. (n + 1) * PTHREAD_KEYS_MAX = n * PTHREAD_KEYS_MAX + PTHREAD_KEYS_MAX
    OBVIOUS
  <1> QED
    BY <1>1, <1>2, <1>3 DEF KeyIndexes, Turns, KeyOf

LEMMA ForgetType ==
    ASSUME IInv, NEW t \in Threads, Forget(t)
    PROVE  key' \in [Threads -> KeyIndexes] /\ set' \in [Threads -> BOOLEAN]
  <1>1. set' \in [Threads -> BOOLEAN]
    BY Zenon DEF IInv, Forget
  <1>2. 0 \in KeyIndexes
    BY DEF KeyIndexes
  <1> QED
    BY <1>1, <1>2 DEF IInv, Forget

--------------------------------------------------------------------------------
(* pthread_key_create *)

LEMMA CreateCallPreserves ==
    ASSUME IInv, NEW t \in Threads, CreateCall(t)
    PROVE  IInv'
  <1> USE DEF IInv, CreateCall
  <1>1. Books'
    BY DEF Books
  <1>2. Fresh' /\ LockedByKey'
    BY Counts
  <1>3. CleaningSafe'
    BY Counts DEF Users
  <1>4. CountExact'
    BY SameCounts DEF Ending
  <1> QED
    BY <1>1, <1>2, <1>3, <1>4

LEMMA CreateLockPreserves ==
    ASSUME IInv, NEW t \in Threads, CreateLock(t)
    PROVE  IInv'
  <1> USE DEF IInv, CreateLock
  <1>1. Books'
    BY DEF Books
  <1>2. Fresh' /\ LockedByKey'
    BY Counts
  <1>3. CleaningSafe'
    BY Counts DEF Users
  <1>4. CountExact'
    BY SameCounts DEF Ending
  <1> QED
    BY <1>1, <1>2, <1>3, <1>4

LEMMA CreateFindPreserves ==
    ASSUME IInv, NEW t \in Threads, CreateFind(t)
    PROVE  IInv'
  <1> USE DEF IInv, CreateFind
  <1>1. Books'
    BY DEF Books
  <1>2. Fresh' /\ LockedByKey'
    BY Counts
  <1>3. CleaningSafe'
    BY Counts DEF Users
  <1>4. CountExact'
    BY SameCounts DEF Ending
  <1> QED
    BY <1>1, <1>2, <1>3, <1>4

LEMMA CreateNonePreserves ==
    ASSUME IInv, NEW t \in Threads, CreateNone(t)
    PROVE  IInv'
  <1> USE DEF IInv, CreateNone
  <1>1. Books'
    BY DEF Books
  <1>2. Fresh' /\ LockedByKey'
    BY Counts
  <1>3. CleaningSafe'
    BY Counts DEF Users
  <1>4. CountExact'
    BY SameCounts DEF Ending
  <1> QED
    BY <1>1, <1>2, <1>3, <1>4

LEMMA CreateCountPreserves ==
    ASSUME IInv, NEW t \in Threads, CreateCount(t)
    PROVE  IInv'
  <1> USE DEF IInv, CreateCount
  <1>1. Books'
    OBVIOUS
  <1>2. Fresh' /\ LockedByKey'
    BY Counts
  <1>3. CleaningSafe'
    BY Counts DEF Users, Ending
  <1>4. CountExact'
    <2>1. \A k \in KeyIndexes : Ending(k)' = Ending(k)
      BY DEF Ending
    <2>2. \A k \in KeyIndexes : Known(k)' = Known(k)
      BY <2>1, SameUsers, SameKnown
    <2> QED
      BY <2>2, Counts DEF CountExact
  <1> QED
    BY <1>1, <1>2, <1>3, <1>4

LEMMA CreateInitPreserves ==
    ASSUME IInv, NEW t \in Threads, CreateInit(t)
    PROVE  IInv'
  <1> USE DEF IInv, CreateInit
  <1>1. Books'
    BY ForgetType
  <1>2. Fresh' /\ LockedByKey'
    BY Counts DEF Forget
  <1>3. CleaningSafe'
    BY DEF Users, Forget
  <1>4. CountExact'
    <2>1. \A k \in KeyIndexes : Ending(k)' = Ending(k)
      BY DEF Ending, Forget
    <2>2. \A k \in KeyIndexes : Known(k)' = Known(k)
      BY <2>1, SameUsers, SameKnown
    <2> QED
      BY <2>2, Counts DEF CountExact
  <1> QED
    BY <1>1, <1>2, <1>3, <1>4

--------------------------------------------------------------------------------
(* pthread_key_delete *)

LEMMA DeleteCallPreserves ==
    ASSUME IInv, NEW t \in Threads, NEW k \in KeyIndexes, DeleteCall(t, k)
    PROVE  IInv'
  <1> USE DEF IInv, DeleteCall
  <1>1. Books'
    OBVIOUS
  <1>2. Fresh' /\ LockedByKey'
    BY Counts
  <1>3. CleaningSafe'
    BY Counts DEF Users
  <1>4. CountExact'
    <2>1. \A j \in KeyIndexes : Ending(j)' = Ending(j)
      BY DEF Ending
    <2>2. \A j \in KeyIndexes : Known(j)' = Known(j)
      BY <2>1, SameUsers, SameKnown
    <2> QED
      BY <2>2, Counts DEF CountExact
  <1> QED
    BY <1>1, <1>2, <1>3, <1>4

LEMMA DeleteLockPreserves ==
    ASSUME IInv, NEW t \in Threads, DeleteLock(t)
    PROVE  IInv'
  <1> USE DEF IInv, DeleteLock
  <1>1. Books'
    BY DEF Books
  <1>2. Fresh' /\ LockedByKey'
    BY Counts
  <1>3. CleaningSafe'
    BY Counts DEF Users
  <1>4. CountExact'
    BY SameCounts DEF Ending
  <1> QED
    BY <1>1, <1>2, <1>3, <1>4

LEMMA DeleteTestPreserves ==
    ASSUME IInv, NEW t \in Threads, DeleteTest(t)
    PROVE  IInv'
  <1> USE DEF IInv, DeleteTest, Unused
  <1>1. Books'
    OBVIOUS
  <1>2. Fresh' /\ LockedByKey'
    BY Counts
  <1>3. CleaningSafe'
    <2>1. ASSUME Cleaning, NEW u \in Threads, pc'[u] = "e_call"
          PROVE  dtor'[key[u]]
      <3>1. count[key[u]] > 1 /\ dtor[key[u]]
        BY <2>1, Counts DEF Ending
      <3> QED
        BY <2>1, <3>1
    <2> QED
      BY <2>1 DEF Users
  <1>4. CountExact'
    BY SameCounts DEF Ending
  <1> QED
    BY <1>1, <1>2, <1>3, <1>4

LEMMA DeleteZeroPreserves ==
    ASSUME IInv, NEW t \in Threads, DeleteZero(t)
    PROVE  IInv'
  <1> USE DEF IInv, DeleteZero
  <1>1. Books'
    OBVIOUS
  <1>2. Cleaning => Users(key[t]) = {} /\ Ending(key[t]) = {}
    BY Counts
  <1>3. Fresh' /\ LockedByKey'
    BY Counts
  <1>4. CleaningSafe'
    BY <1>2 DEF Users, Ending
  <1>5. CountExact'
    <2>1. \A k \in KeyIndexes : Ending(k)' = Ending(k)
      BY DEF Ending
    <2>2. \A k \in KeyIndexes : Known(k)' = Known(k)
      BY <2>1, SameUsers, SameKnown
    <2>3. Separate => Known(key[t]) = 0 /\ owners[key[t]] = 0
      BY Counts
    <2> QED
      BY <2>2, <2>3 DEF CountExact
  <1> QED
    BY <1>1, <1>3, <1>4, <1>5

LEMMA DeleteDestroyPreserves ==
    ASSUME IInv, NEW t \in Threads, DeleteDestroy(t)
    PROVE  IInv'
  <1> USE DEF IInv, DeleteDestroy
  <1>1. Books'
    BY ForgetType
  <1>2. Fresh' /\ LockedByKey'
    BY Counts DEF Forget
  <1>3. CleaningSafe'
    BY DEF Users, Forget
  <1>4. CountExact'
    BY SameCounts DEF Ending, Forget
  <1> QED
    BY <1>1, <1>2, <1>3, <1>4

--------------------------------------------------------------------------------
(* pthread_setspecific *)

LEMMA SetCallPreserves ==
    ASSUME IInv, NEW t \in Threads, NEW k \in KeyIndexes, NEW v \in BOOLEAN,
           SetCall(t, k, v)
    PROVE  IInv'
  <1> USE DEF IInv, SetCall
  <1>1. Books'
    OBVIOUS
  <1>2. Fresh' /\ LockedByKey'
    BY Counts
  <1>3. CleaningSafe'
    BY DEF Users
  <1>4. CountExact'
    BY SameCounts DEF Ending
  <1> QED
    BY <1>1, <1>2, <1>3, <1>4

LEMMA SetLockPreserves ==
    ASSUME IInv, NEW t \in Threads, SetLock(t)
    PROVE  IInv'
  <1> USE DEF IInv, SetLock
  <1>1. Books'
    BY DEF Books
  <1>2. Fresh' /\ LockedByKey'
    BY Counts
  <1>3. CleaningSafe'
    BY Counts DEF Users
  <1>4. CountExact'
    BY SameCounts DEF Ending
  <1> QED
    BY <1>1, <1>2, <1>3, <1>4

LEMMA SetTestPreserves ==
    ASSUME IInv, NEW t \in Threads, SetTest(t)
    PROVE  IInv'
  <1> USE DEF IInv, SetTest
  <1>1. Books'
    BY DEF Books
  <1>2. Fresh' /\ LockedByKey'
    BY Counts
  <1>3. CleaningSafe'
    BY Counts DEF Users
  <1>4. CountExact'
    BY SameCounts DEF Ending
  <1> QED
    BY <1>1, <1>2, <1>3, <1>4

LEMMA SetWritePreserves ==
    ASSUME IInv, NEW t \in Threads, SetWrite(t)
    PROVE  IInv'
  <1> DEFINE k == key[t]
  <1> USE DEF IInv, SetWrite
  <1>1. \/ NewData(t) /\ Change(t) = 1 /\ data'[t] = data[t] \cup {k} /\ k \notin data[t]
        \/ NoData(t) /\ Change(t) = -1 /\ data'[t] = data[t] \ {k} /\ k \in data[t]
        \/ Change(t) = 0 /\ data' = data
    BY DEF Change, NewData, NoData
  <1>2. Books'
    <2>1. TypeOK'
      BY <1>1
    <2>2. Cardinality(data'[t]) = Cardinality(data[t]) + Change(t)
      <3>1. IsFiniteSet(data[t]) /\ Cardinality(data[t]) \in Nat
        BY DataFinite, FS_CardinalityType
      <3>2. CASE Change(t) = 1
        <4>1. data'[t] = data[t] \cup {k} /\ k \notin data[t]
          BY <1>1, <3>2
        <4> QED
          BY <3>1, <3>2, <4>1, OneMore
      <3>3. CASE Change(t) = -1
        <4>1. data'[t] = data[t] \ {k} /\ k \in data[t]
          BY <1>1, <3>3
        <4> QED
          BY <3>1, <3>3, <4>1, OneLess
      <3>4. CASE Change(t) = 0
        <4>1. data'[t] = data[t]
          BY <1>1, <3>4
        <4>2. Cardinality(data'[t]) = Cardinality(data[t])
          BY <4>1, Zenon
        <4> QED
          BY <3>1, <3>4, <4>2
      <3> QED
        BY <1>1, <3>2, <3>3, <3>4
    <2> QED
      BY <1>1, <2>1, <2>2
  <1>3. Separate => Setting /\ owners[k] > 0 /\ read[t] = count[k]
    OBVIOUS
  <1>4. Fresh' /\ LockedByKey'
    BY <1>1, <1>3, Counts
  <1>5. CleaningSafe'
    OBVIOUS
  <1>6. CountExact'
    <2>1. SUFFICES ASSUME Separate
                   PROVE  \A j \in KeyIndexes :
                             \/ count'[j] = 1 + Known(j)'
                             \/ count'[j] = 0 /\ Known(j)' = 0 /\ owners[j] = 0
      BY DEF CountExact
    <2>2. \A j \in KeyIndexes : Ending(j)' = Ending(j)
      BY DEF Ending
    <2>3. \A j \in KeyIndexes \ {k} : Known(j)' = Known(j) /\ count'[j] = count[j]
      <3>1. \A j \in KeyIndexes \ {k} : Users(j)' = Users(j)
        BY DEF Users
      <3> QED
        BY <2>2, <3>1, SameKnown
    <2>4. Cardinality(Users(k)') = Cardinality(Users(k)) + Change(t)
      <3>1. CASE Change(t) = 1
        <4>1. t \notin Users(k) /\ Users(k)' = Users(k) \cup {t}
          BY <1>1, <3>1 DEF Users
        <4> QED
          BY <3>1, <4>1, UsersFinite, OneMore
      <3>2. CASE Change(t) = -1
        <4>1. t \in Users(k) /\ Users(k)' = Users(k) \ {t}
          BY <1>1, <3>2 DEF Users
        <4> QED
          BY <3>2, <4>1, UsersFinite, OneLess
      <3>3. CASE Change(t) = 0
        <4>1. Users(k)' = Users(k)
          BY <1>1, <3>3 DEF Users
        <4> QED
          BY <3>3, <4>1, UsersFinite
      <3> QED
        BY <1>1, <3>1, <3>2, <3>3
    <2>5. Known(k)' = Known(k) + Change(t)
      BY <1>1, <2>2, <2>4, UsersFinite, EndingFinite DEF Known
    <2>6. count[k] = 1 + Known(k) /\ count'[k] = count[k] + Change(t)
      BY <1>1, <1>3, <2>1, Counts
    <2> QED
      BY <1>1, <2>1, <2>3, <2>5, <2>6, Counts DEF CountExact
  <1> QED
    BY <1>2, <1>4, <1>5, <1>6

LEMMA SetUnlockPreserves ==
    ASSUME IInv, NEW t \in Threads, SetUnlock(t)
    PROVE  IInv'
  <1> USE DEF IInv, SetUnlock
  <1>1. Books'
    BY ForgetType
  <1>2. Fresh' /\ LockedByKey'
    BY Counts DEF Forget
  <1>3. CleaningSafe'
    BY DEF Users, Forget
  <1>4. CountExact'
    BY SameCounts DEF Ending, Forget
  <1> QED
    BY <1>1, <1>2, <1>3, <1>4

--------------------------------------------------------------------------------
(* The cleanup of a thread *)

LEMMA EndCallPreserves ==
    ASSUME IInv, NEW t \in Threads, EndCall(t)
    PROVE  IInv'
  <1> USE DEF IInv, EndCall
  <1>1. Books'
    <2>1. Ahead(t)'
      BY FirstRound DEF Turns
    <2> QED
      BY <2>1
  <1>2. Fresh' /\ LockedByKey'
    BY Counts
  <1>3. CleaningSafe'
    BY DEF Users
  <1>4. CountExact'
    BY SameCounts DEF Ending
  <1> QED
    BY <1>1, <1>2, <1>3, <1>4

LEMMA EndLockPreserves ==
    ASSUME IInv, NEW t \in Threads, EndLock(t)
    PROVE  IInv'
  <1> USE DEF IInv, EndLock
  <1>1. Books'
    BY DEF Books
  <1>2. Fresh' /\ LockedByKey'
    BY Counts
  <1>3. CleaningSafe'
    BY Counts DEF Users
  <1>4. CountExact'
    BY SameCounts DEF Ending
  <1> QED
    BY <1>1, <1>2, <1>3, <1>4

LEMMA EndTakePreserves ==
    ASSUME IInv, NEW t \in Threads, EndTake(t)
    PROVE  IInv'
  <1> USE DEF IInv
  <1>1. PICK p \in Remaining(t) :
           /\ \A q \in Remaining(t) : p <= q
           /\ key' = [key EXCEPT ![t] = KeyOf(p)]
           /\ pos' = [pos EXCEPT ![t] = p + 1]
           /\ data' = [data EXCEPT ![t] = @ \ {KeyOf(p)}]
           /\ Go(t, "e_next", IF dtor[KeyOf(p)] THEN "e_call" ELSE "e_read")
           /\ key_mutex' = IF dtor[KeyOf(p)] THEN Free ELSE key_mutex
    BY DEF EndTake
  <1>2. /\ specific_data_count' = [specific_data_count EXCEPT ![t] = @ - 1]
        /\ UNCHANGED <<uses, table, owners, calls, set, read>>
    BY DEF EndTake
  <1> DEFINE k == KeyOf(p)
  <1>3. k \in data[t] /\ k \in KeyIndexes /\ p \in Nat /\ p >= pos[t]
    BY <1>1 DEF Remaining, Turns
  <1> HIDE DEF k
  <1>4. Books'
    <2>1. TypeOK'
      BY <1>1, <1>2, <1>3 DEF k
    <2>2. Cardinality(data'[t]) = Cardinality(data[t]) - 1
      BY <1>1, <1>3, DataFinite, OneLess DEF k
    <2>3. LocalExact'
      BY <1>1, <1>2, <2>2
    <2>4. LoopExact'
      <3> SUFFICES ASSUME "reset" \notin uses
                   PROVE  Ahead(t)'
        BY <1>1, <1>2
      <3> SUFFICES ASSUME NEW j \in data'[t]
                   PROVE  \E q \in Turns : q >= pos'[t] /\ KeyOf(q) = j
        OBVIOUS
      <3>1. j \in data[t] /\ j # k /\ pos'[t] = p + 1
        BY <1>1 DEF k
      <3>2. PICK q \in Turns : q >= pos[t] /\ KeyOf(q) = j
        BY <1>1, <3>1
      <3>3. q \in Remaining(t) /\ q # p /\ q \in Nat
        BY <3>1, <3>2 DEF Remaining, Turns, k
      <3>4. q >= pos'[t]
        BY <1>1, <1>3, <3>1, <3>3
      <3> QED
        BY <3>2, <3>4
    <2>5. KeyMutexExact' /\ OnlyUsed'
      BY <1>1, <1>2, <1>3
    <2> QED
      BY <2>1, <2>3, <2>4, <2>5
  <1>5. Fresh' /\ LockedByKey'
    BY <1>1, <1>2, Counts
  <1>6. CleaningSafe'
    BY <1>1, <1>2, <1>3 DEF Users, k
  <1>7. CountExact'
    <2>1. \A j \in KeyIndexes \ {k} : Known(j)' = Known(j)
      <3>1. \A j \in KeyIndexes \ {k} : Users(j)' = Users(j) /\ Ending(j)' = Ending(j)
        BY <1>1, <1>3 DEF Users, Ending, k
      <3> QED
        BY <3>1, SameKnown
    <2>2. /\ t \in Users(k) /\ Users(k)' = Users(k) \ {t}
          /\ t \notin Ending(k) /\ Ending(k)' = Ending(k) \cup {t}
      BY <1>1, <1>3 DEF Users, Ending, k
    <2>3. Known(k)' = Known(k)
      <3>1. Cardinality(Users(k)') = Cardinality(Users(k)) - 1
        BY <1>3, <2>2, UsersFinite, OneLess
      <3>2. Cardinality(Ending(k)') = Cardinality(Ending(k)) + 1
        BY <1>3, <2>2, EndingFinite, OneMore
      <3> QED
        BY <1>3, <3>1, <3>2, UsersFinite, EndingFinite DEF Known
    <2> QED
      BY <1>2, <2>1, <2>3 DEF CountExact
  <1> QED
    BY <1>4, <1>5, <1>6, <1>7

LEMMA EndCalledPreserves ==
    ASSUME IInv, NEW t \in Threads, EndCalled(t)
    PROVE  IInv'
  <1> USE DEF IInv, EndCalled
  <1>1. Books'
    BY DEF Books
  <1>2. Fresh' /\ LockedByKey'
    BY Counts
  <1>3. CleaningSafe'
    BY Counts DEF Users
  <1>4. CountExact'
    BY SameCounts DEF Ending
  <1> QED
    BY <1>1, <1>2, <1>3, <1>4

LEMMA EndAgainPreserves ==
    ASSUME IInv, NEW t \in Threads, EndAgain(t)
    PROVE  IInv'
  <1> USE DEF IInv, EndAgain
  <1>1. Books'
    BY DEF Books
  <1>2. Fresh' /\ LockedByKey'
    BY Counts
  <1>3. CleaningSafe'
    BY Counts DEF Users
  <1>4. CountExact'
    BY SameCounts DEF Ending
  <1> QED
    BY <1>1, <1>2, <1>3, <1>4

LEMMA EndReadPreserves ==
    ASSUME IInv, NEW t \in Threads, EndRead(t)
    PROVE  IInv'
  <1> USE DEF IInv, EndRead
  <1>1. Books'
    BY DEF Books
  <1>2. Fresh' /\ LockedByKey'
    BY Counts
  <1>3. CleaningSafe'
    BY Counts DEF Users
  <1>4. CountExact'
    BY SameCounts DEF Ending
  <1> QED
    BY <1>1, <1>2, <1>3, <1>4

LEMMA EndWritePreserves ==
    ASSUME IInv, NEW t \in Threads, EndWrite(t)
    PROVE  IInv'
  <1> DEFINE k == key[t]
  <1> USE DEF IInv, EndWrite
  <1>1. Books'
    OBVIOUS
  <1>2. Separate => Cleaning /\ read[t] = count[k] /\ count[k] > 1
    BY Counts DEF Ending
  <1>3. Fresh' /\ LockedByKey'
    BY Counts
  <1>4. CleaningSafe'
    BY <1>2 DEF Users
  <1>5. CountExact'
    <2>1. \A j \in KeyIndexes : Users(j)' = Users(j)
      BY DEF Users
    <2>2. \A j \in KeyIndexes \ {k} : Known(j)' = Known(j) /\ count'[j] = count[j]
      <3>1. \A j \in KeyIndexes \ {k} : Ending(j)' = Ending(j)
        BY DEF Ending
      <3> QED
        BY <2>1, <3>1, SameKnown
    <2>3. t \in Ending(k) /\ Ending(k)' = Ending(k) \ {t}
      BY DEF Ending
    <2>4. Known(k)' = Known(k) - 1
      <3>1. Cardinality(Ending(k)') = Cardinality(Ending(k)) - 1
        BY <2>3, EndingFinite, OneLess
      <3> QED
        BY <2>1, <3>1, UsersFinite, EndingFinite DEF Known
    <2> QED
      BY <1>2, <2>2, <2>4, Counts DEF CountExact
  <1> QED
    BY <1>1, <1>3, <1>4, <1>5

LEMMA EndDonePreserves ==
    ASSUME IInv, NEW t \in Threads, EndDone(t)
    PROVE  IInv'
  <1> USE DEF IInv, EndDone
  <1>1. "reset" \notin uses => data[t] = {}
    <2>1. CASE specific_data_count[t] = 0
      BY <2>1, DataFinite, FS_EmptySet
    <2>2. CASE Remaining(t) = {}
      BY <2>2 DEF Remaining
    <2> QED
      BY <2>1, <2>2
  <1>2. Books'
    BY <1>1, ForgetType
  <1>3. Fresh' /\ LockedByKey'
    BY Counts DEF Forget
  <1>4. CleaningSafe'
    BY DEF Users, Forget
  <1>5. CountExact'
    BY SameCounts DEF Ending, Forget
  <1> QED
    BY <1>2, <1>3, <1>4, <1>5

--------------------------------------------------------------------------------
LEMMA InitHolds ==
    ASSUME Init
    PROVE  IInv
  <1> USE ProgramsAssumption DEF Init
  <1>1. PICK made \in SUBSET KeyIndexes :
           /\ owners = [k \in KeyIndexes |-> IF k \in made THEN 1 ELSE 0]
           /\ mutex = [k \in KeyIndexes |-> IF k \in made THEN Free ELSE Destroyed]
           /\ \E D \in SUBSET made : dtor = [k \in KeyIndexes |-> k \in D]
           /\ data \in [Threads -> SUBSET made]
    OBVIOUS
  <1>2. \A k \in KeyIndexes : Ending(k) = {}
    BY DEF Ending
  <1>3. TypeOK
    <2>1. 0 \in KeyIndexes
      BY DEF KeyIndexes
    <2>2. \A k \in KeyIndexes : Cardinality(Users(k)) \in Int
      BY UsersFinite
    <2>3. IsFiniteSet(KeyIndexes)
      BY FS_Interval DEF KeyIndexes
    <2>4. \A t \in Threads : Cardinality(data[t]) \in Int
      BY <1>1, <2>3, FS_Subset, FS_CardinalityType
    <2> QED
      BY <1>1, <2>1, <2>2, <2>4
  <1>4. LocalExact /\ LoopExact /\ KeyMutexExact /\ OnlyUsed /\ Fresh
    OBVIOUS
  <1>5. LockedByKey /\ CleaningSafe
    BY <1>1
  <1>6. CountExact
    <2>1. \A k \in KeyIndexes : Known(k) = Cardinality(Users(k))
      BY <1>2, UsersFinite, EndingFinite DEF Known
    <2>2. \A k \in KeyIndexes \ made : Users(k) = {}
      BY <1>1 DEF Users
    <2> QED
      BY <1>1, <2>1, <2>2, UsersFinite DEF CountExact
  <1> QED
    BY <1>3, <1>4, <1>5, <1>6 DEF IInv

LEMMA Inductive ==
    ASSUME IInv, [Next]_vars
    PROVE  IInv'
  <1>1. CASE UNCHANGED vars
    BY <1>1 DEF vars, IInv, CountExact, Known, Users, Ending
  <1>2. ASSUME NEW t \in Threads, Calling(t)
        PROVE  IInv'
    BY <1>2, CreateCallPreserves, DeleteCallPreserves, SetCallPreserves, EndCallPreserves
       DEF Calling
  <1>3. ASSUME NEW t \in Threads, Running(t)
        PROVE  IInv'
    BY <1>3, CreateLockPreserves, CreateFindPreserves, CreateNonePreserves,
       CreateCountPreserves, CreateInitPreserves, DeleteLockPreserves,
       DeleteTestPreserves, DeleteZeroPreserves, DeleteDestroyPreserves,
       SetLockPreserves, SetTestPreserves, SetWritePreserves, SetUnlockPreserves,
       EndLockPreserves, EndTakePreserves, EndCalledPreserves, EndAgainPreserves,
       EndReadPreserves, EndWritePreserves, EndDonePreserves
       DEF Running
  <1> QED
    BY <1>1, <1>2, <1>3 DEF Next

THEOREM Invariance == Spec => []IInv
  BY InitHolds, Inductive, PTL DEF Spec

\* The count of a key is the number of threads with data, and one more for the key.
THEOREM CountsExact == Spec => []CountExact
  <1>1. IInv => CountExact
    BY DEF IInv
  <1> QED
    BY <1>1, Invariance, PTL

\* No destructor is called that is no longer there.
THEOREM DestructorsThere == Spec => []NoNullDtor
  <1>1. IInv => NoNullDtor
    <2> SUFFICES ASSUME IInv, Separate, NEW t \in Threads, pc[t] = "e_call"
                 PROVE  dtor[key[t]] /\ count[key[t]] > 0
      BY DEF NoNullDtor
    <2>1. Cleaning
      BY DEF IInv
    <2>2. t \in Ending(key[t]) /\ key[t] \in KeyIndexes
      BY DEF Ending, IInv
    <2> QED
      BY <2>1, <2>2, Counts DEF IInv
  <1> QED
    BY <1>1, Invariance, PTL

\* A thread that is gone has no data left.
THEOREM NoDataLeft == Spec => []DataDestroyed
  <1>1. IInv => DataDestroyed
    BY DEF IInv, DataDestroyed
  <1> QED
    BY <1>1, Invariance, PTL

\* While data is set, or threads end and keys are deleted, a new key is fresh.
THEOREM NewKeys == Spec => [](Separate => NewKeysFresh)
  <1>1. IInv => (Separate => NewKeysFresh)
    <2> SUFFICES ASSUME IInv, Separate, NEW t \in Threads, pc[t] = "c_init"
                 PROVE  /\ owners[key[t]] = 0 /\ Ending(key[t]) = {}
                        /\ \A u \in Threads : ~GetSpecific(u, key[t])
      BY DEF NewKeysFresh
    <2>1. key[t] \in KeyIndexes /\ count[key[t]] = 1 /\ owners[key[t]] = 0
      BY DEF IInv
    <2>2. Users(key[t]) = {} /\ Ending(key[t]) = {}
      BY <2>1, Counts
    <2> QED
      BY <2>1, <2>2 DEF Users, GetSpecific
  <1> QED
    BY <1>1, Invariance, PTL
=================================================================================
