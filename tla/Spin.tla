---------------------------------- MODULE Spin ----------------------------------
(***************************************************************************)
(* One pthread_spinlock_t (src/src/pthread_spin.c) over the atomic bit      *)
(* operations of src/pthread/include/pthread_atomic.h, down to the          *)
(* ldrex/strex pair they are built from: one action per access to the word. *)
(*                                                                          *)
(* The exclusive monitor is the processor's: a reservation is taken by      *)
(* ldrex, cleared by every store to the word, and may be lost at any time   *)
(* (a context switch); strex stores only while the reservation stands.      *)
(***************************************************************************)
EXTENDS Naturals, Callers

VARIABLES
    lock,      \* the word: bit 0 set while locked, INVALID after a destroy
    reserved,  \* the threads whose reservation of the word stands
    op,        \* the call each thread is in
    t1,        \* the value its loop expects in the word
    held       \* locks minus unlocks each thread has completed

vars == <<lock, reserved, pc, op, t1, held>>

INVALID == 2
PCs == {"idle", "load", "ldrex", "strex"}
Calls == {"lock", "trylock", "unlock"}

Unused == \A t \in Threads : pc[t] = "idle" /\ held[t] = 0

Init == /\ lock \in {0, INVALID}
        /\ reserved = {}
        /\ pc = [t \in Threads |-> "idle"]
        /\ op = [t \in Threads |-> "lock"]
        /\ t1 = [t \in Threads |-> 0]
        /\ held = [t \in Threads |-> 0]

--------------------------------------------------------------------------------
(* pthread_spin_init and pthread_spin_destroy, which no other call overlaps. *)

InitLock == /\ Unused
            /\ lock' = 0
            /\ reserved' = {}
            /\ UNCHANGED <<pc, op, t1, held>>

Destroy == /\ lock # INVALID
           /\ Unused
           /\ lock' = INVALID
           /\ reserved' = {}
           /\ UNCHANGED <<pc, op, t1, held>>

--------------------------------------------------------------------------------
(* lock, trylock, unlock.  Locking a lock one holds and unlocking one that    *)
(* one does not hold are undefined: no caller does.                           *)

CallerMay(t, c) == held[t] = IF c = "unlock" THEN 1 ELSE 0

Call(t, c) == /\ lock # INVALID
              /\ CallerMay(t, c)
              /\ Go(t, "idle", "load")
              /\ op' = [op EXCEPT ![t] = c]
              /\ UNCHANGED <<lock, reserved, t1, held>>

Bit(v) == v % 2
Set(v) == IF Bit(v) = 0 THEN v + 1 ELSE v
Flip(v) == IF Bit(v) = 0 THEN v + 1 ELSE v - 1

\* What test_and_set_bit and test_and_clear_bit store in place of v.
Desired(t, v) == IF op[t] = "unlock" THEN Flip(v) ELSE Set(v)

\* t2 = *addr
Load(t) == /\ Go(t, "load", "ldrex")
           /\ t1' = [t1 EXCEPT ![t] = lock]
           /\ UNCHANGED <<lock, reserved, op, held>>

\* Fault: ATOMIC_CAS stores whatever it found.
LdrexUncompared(t) == /\ Go(t, "ldrex", "strex")
                      /\ reserved' = reserved \cup {t}
                      /\ UNCHANGED <<lock, op, t1, held>>

\* ATOMIC_CAS: the value loaded is the one expected.
LdrexSame(t) == /\ lock = t1[t]
                /\ Go(t, "ldrex", "strex")
                /\ reserved' = reserved \cup {t}
                /\ UNCHANGED <<lock, op, t1, held>>

\* Fault: the next round expects the same value again.
LdrexKeepsExpected(t) == /\ IsAt(t, "ldrex")
                         /\ lock # t1[t]
                         /\ reserved' = reserved \cup {t}
                         /\ UNCHANGED <<lock, pc, op, t1, held>>

\* It is another: ATOMIC_CAS returns it and the loop of the bit operation tries
\* again with it.
LdrexDiffers(t) == /\ IsAt(t, "ldrex")
                   /\ lock # t1[t]
                   /\ reserved' = reserved \cup {t}
                   /\ t1' = [t1 EXCEPT ![t] = lock]
                   /\ UNCHANGED <<lock, pc, op, held>>

\* Fault: strex is tried again without a new ldrex.
StrexRepeats(t) == /\ t \notin reserved
                   /\ Go(t, "strex", "strex")
                   /\ UNCHANGED <<lock, reserved, op, t1, held>>

StrexFails(t) == /\ t \notin reserved
                 /\ Go(t, "strex", "ldrex")
                 /\ UNCHANGED <<lock, reserved, op, t1, held>>

\* pthread_spin_lock calls test_and_set_bit again while the bit was set; the
\* other calls return what it was.
AfterStore(t) == IF op[t] = "lock" /\ Bit(t1[t]) = 1 THEN "load" ELSE "idle"

\* lock and trylock have got it if the bit was clear, unlock has freed it if not.
HeldAfter(t) == IF Bit(t1[t]) = IF op[t] = "unlock" THEN 0 ELSE 1
                THEN held[t]
                ELSE 1 - held[t]

Store(t) == /\ lock' = Desired(t, t1[t])
            /\ reserved' = {}
            /\ Go(t, "strex", AfterStore(t))
            /\ held' = [held EXCEPT ![t] = HeldAfter(t)]
            /\ UNCHANGED <<op, t1>>

StrexSucceeds(t) == t \in reserved /\ Store(t)

LoseReservation(t) == /\ t \in reserved
                      /\ reserved' = reserved \ {t}
                      /\ UNCHANGED <<lock, pc, op, t1, held>>

--------------------------------------------------------------------------------
Running(t) == Load(t) \/ LdrexSame(t) \/ LdrexDiffers(t) \/ StrexFails(t)

Next == \/ InitLock \/ Destroy
        \/ \E t \in Threads : \/ \E c \in Calls : Call(t, c)
                              \/ Running(t) \/ StrexSucceeds(t)
                              \/ LoseReservation(t)

Spec == Init /\ [][Next]_vars

\* A running thread is scheduled, and the stores and interrupts of the others do
\* not take away its reservation for ever between every ldrex and its strex.
Fairness == \A t \in Threads : WF_vars(Running(t)) /\ SF_vars(StrexSucceeds(t))

FairSpec == Spec /\ Fairness

--------------------------------------------------------------------------------
TypeOK == /\ lock \in {0, 1, INVALID}
          /\ reserved \subseteq Threads
          /\ pc \in [Threads -> PCs]
          /\ op \in [Threads -> Calls]
          /\ t1 \in [Threads -> {0, 1, INVALID}]
          /\ held \in [Threads -> {0, 1}]

\* The lock of ldrex/strex loops implements the abstract one: at most one thread
\* has it, although spinning threads store into the locked word too
\* (pthread_atomic.h:60-82, pthread_spin.c:56-96).
Abstract == INSTANCE LockSpec WITH Types <- {"NORMAL"}, type <- "NORMAL"
ImplementsLock == Abstract!Spec

\* unlock returns, however many threads spin and store into the word it clears.
UnlockReturns == \A t \in Threads :
    (pc[t] # "idle" /\ op[t] = "unlock") ~> pc[t] = "idle"

\* A lock that is wanted is taken by somebody, unless the call that wanted it has
\* returned (trylock).  Who takes it is left open: a thread that spins, and even a
\* trylock, may be passed over for ever by others that lock and unlock.
SomebodyGetsIt == \A t \in Threads :
    (pc[t] # "idle" /\ op[t] # "unlock")
        ~> (pc[t] = "idle" \/ \E s \in Threads : held[s] = 1)
================================================================================
