# pthread-vita: models, checks and proofs

pthread-vita is a POSIX threads library for one game console, written over the semaphores,
threads and callbacks of the console's kernel (`src/src/*.c`, headers in
`src/pthread/include`). This directory holds TLA+ models of its synchronisation objects and
of the life of a thread, TLC configurations that check them on small instances, and proofs
that TLAPS checks for every value of the constants.

Line numbers below are those of the files under `src/src` unless another path is given.

## The system and its parts

| part | state it keeps | operations | hard about it |
|---|---|---|---|
| library initialisation (`pthread.c` 985-1007, `pthread_impl.h` 340-374, `pthread_atomic.h`) | `control` of EXECUTE_ONCE (`init_control` in the module), the pointers `pthread_enter_critical` / `pthread_leave_critical`, the global mutex `_PTGLOBAL_` | `pthread_init_`, ENTER_CRITICAL, LEAVE_CRITICAL | first calls of several threads at once; pointers replaced while others go through them |
| mutex (`pthread_mutex.c`) | `id`, `owner`, `recursivecount`, `type`, `protocol`, one kernel semaphore | init, destroy, lock, timedlock, trylock, unlock, priority ceiling | semaphore and owner are updated apart; static initialisation without a lock; destruction after unlock |
| condition variable (`pthread_cond.c`) | `control`, `NbWait`, `lock` (two semaphores); the field `inWAIT` of the waiter | init, destroy, wait, timedwait, signal, broadcast | mutex and control released in a callback of the kernel; timeouts against signals; cancellation in the middle of a wait |
| read-write lock (`pthread_rwlock.c`) | one semaphore `rdwrQ` of MAX_COUNT units, `writelock` | init, destroy, six ways to lock, unlock | the flag that tells unlock how many units to give back is not protected by anything but the lock itself |
| barrier (`pthread_barrier.c`) | `control`, `queue` (two semaphores), `count`, `neededcount` | init, destroy, wait | sleepers of successive rounds share one semaphore |
| thread (`pthread.c`, `pthread_cleanup.c`) | the `pthread_storage_t`: `id`, `control`, `returncode`, `detached`, `waiting`, the cancellation fields, the cleanup stack; the kernel's thread | create, exit, join, detach, cancel, testcancel, setcancelstate/type, cleanup push/pop | whoever detaches frees the storage that the others use |
| once (`pthread_once.c`) | `done`, a static mutex | `pthread_once` | cancellation of the thread that runs `init` |
| keys (`pthread_key.c`) | the key table with a count and a mutex per key, the specific data of each thread | create, delete, set, get, destructors | counts kept under two different locks; deletion of a key in use |
| priorities (`pthread_mutex.c` 215-290, 446-470, 515-527, `pthread.c` 420-437) | `protocol`, `prioceiling` and `owner` of a mutex; `priority` and `priomutex` of a thread; the kernel's current priority | what lock and unlock do for PRIO_PROTECT and PRIO_INHERIT, setprioceiling, setschedprio | several fields read without a critical section; two threads that raise and lower a third |
| spin lock (`pthread_spin.c`, `pthread_atomic.h`) | one word | init, destroy, lock, trylock, unlock | compare-and-swap loops over exclusive loads and stores; spinning threads store too |
| event flag (`pthread_eventflag_np.c`) | `id` of a kernel event flag | init, destroy, set, try, wait, timedwait | destruction while others wait or are about to |
| time (`pthread.c` 1096-1110, `pthread_np.c`, `pthread_impl.h` 435-438) | none | absolute to relative timeouts, delays | 32-bit overflow, units, rounding |
| mailboxes, message pipes, scheduling | none | disabled code or stubs | nothing |

They interact through shared objects. All objects with a static initialiser, and all init and
destroy calls, go through the critical section of the library initialisation. A condition
variable unlocks and relocks a mutex. `pthread_cancel` reads the `inWAIT` that a condition
variable sets, and deletes the waiting thread. `pthread_once` and the keys use mutexes, and
the end of a thread runs the destructors of the keys.

Two idioms recur. *Control*: most objects have a semaphore `control`, created with one unit,
used as an internal lock (LOCK_CONTROL, UNLOCK_CONTROL). *Static initialisation*: an object
whose identifier is STATIC_INIT_ID_ and whose second field holds a signature is created by
the first call that needs it; the test is made without a lock and again in the critical
section, but the fields are published one by one.

## Properties that make it correct

* A lock is held by one thread (readers: or by readers only), whatever mixture of lock,
  timed and try calls, nested locks, refused calls and concurrent static initialisation.
* Its books agree with the holds: owner, recursive count, units of the semaphore.
* A wait does not lose a wake-up sent after its mutex was released; a broadcast wakes all.
* A barrier releases nobody before all have arrived, and everybody then.
* A join returns after the end of the thread, with its value; the thread's storage is freed
  once, after everybody has finished with it.
* Initialisation happens once and before anybody uses what it makes.
* A thread runs at the priority that the mutexes it has give it, and at its own when it has none.
* A timed call ends neither before its deadline nor much later.
* Calls that nothing prevents return.

The hazards of the code, each at its line, are listed in `PROJECT.json` with the properties
that watch them, or the reason why none does yet.

## Modules

    Callers             the threads and where each is in its call: all below but Threads
    KernelSema          the kernel's counting semaphores (external)
      Mutex             pthread_mutex.c               LockSpec   what a lock promises
        MCMutex           instances                     (Mutex and Spin implement it)
        Once              pthread_once.c over Mutex
          MutexProofs       proofs of Mutex and Once
      Priority          the priority protocols        MCPriority
      Cond              pthread_cond.c                CondProofs
      RWLock            pthread_rwlock.c              RWLockProofs
      Barrier           pthread_barrier.c             BarrierProofs
    InitOnce            pthread_init_, EXECUTE_ONCE
    Threads             pthread.c, pthread_cleanup.c  MCThreads
      PthreadProofs       proofs of InitOnce, Threads and Priority
    Keys                pthread_key.c                 MCKeys, KeysProofs
    Spin                pthread_spin.c, atomic bits   SpinProofs
    Time                deadlines to timeouts
      EventFlag         pthread_eventflag_np.c,       MCEventFlag, EventFlagProofs
                        pthread_delay_until_np

The modules without an MC module are checked directly: their cfg gives all the constants. Where
the proofs of several components share a module, the definitions of all but one have names of
their own (`LibraryInit`, `LibraryNext`, `LibrarySpec` in `InitOnce`; `PriorityInit`... in
`Priority`; `OnceInit`... in `Once`).

Conventions, the same in all modules. `pc[t]` (`Callers`) says where thread `t` is in its call; it is
"idle" between calls; `Go` takes the thread from one point to the next, `NobodyInside` is what a
destroy needs and `AllReturn` that calls end. One action is one access to shared state: a line of code that reads or
writes a field, or a call of the kernel. Two accesses are in one action only where no other
thread can tell (both under the control, or the object is undefined to use). A blocking call
of the kernel is an action that is enabled when the kernel would grant it, and which of
several waiters is granted is left open, which includes the FIFO order of the code's
semaphores. A call that is refused without a change of any field (EINVAL of an invalid
object, EPERM, EBUSY, ENOMEM) is a stuttering step and has no action. Memory is sequentially
consistent. A definition whose comment begins with *Fault* is a wrong variant of the one that
follows it, used to see that a property would notice; no specification contains it.

What the callers must respect is in the guards, each with its comment: nobody unlocks what
he does not hold where that is undefined, destroys what is in use, uses a condition variable
without its mutex, joins a thread twice, or calls on a thread whose storage is gone.

Of the kernel the models assume: semaphores count as described in `KernelSema`, and refuse a
signal beyond their maximum; a callback that a thread has been notified of runs inside of
its next waiting call with the suffix CB, before it sleeps; `sceKernelDeleteThread` ends a
thread wherever it is; waiting for the end of a thread that does not exist returns at once.

### Mutex

The variables are the fields, the count of the semaphore (`sema`), how the object was declared
(`static`, which never changes), who is in the critical section, and `held`, the locks minus
the unlocks of each thread, which is what a user of the mutex counts. `LockCall` is the entry of lock, timedlock and trylock with the test of
STATIC_INIT; `EnterCritical`, `InitStatic...` are `init_static` and `pthread_mutex_init` up
to each store; `CheckRelock`, `CheckDeadlock`, `CheckOther` the tests of `lock`; `Grant` and
`GiveUp` the semaphore; `SetOwner` the store after it. `UnlockNested`, `UnlockClear`,
`UnlockSignal`, `UnlockProtocol` are `pthread_mutex_unlock`. What the protocols do to
priorities changes nothing of this and is module `Priority`. `LockSpec` is the abstract lock:
acquire when free, relock if recursive, release. Its refinement mapping is the identity on
`held` and `type`.

### Priority

Several mutexes of one protocol, type NORMAL, and threads made by `pthread_create`. The
variables are the fields of mutexes and threads, the count of each semaphore, the kernel's
priority of each thread (`current`), and the locals of `lock`. `InheritTest`, `InheritInfo`,
`InheritSave`, `InheritBoost` are the four reads of `owner` in PRIO_INHERIT, `InheritFaults`
the case that it has become NULL, which ends the behaviour; `ProtectCount` and `ProtectRaise`
are PRIO_PROTECT; `Grant`, `GiveUp`, `SetOwner`, `RestorePriority` the rest of lock; `Unlock...` are
unlock; `Ceiling...` setprioceiling and `SchedPrio...` setschedprio. `disturbed` becomes true
where PRIO_INHERIT can no longer tell what to restore: two threads raise an owner at once,
the owner changes between the reads, or a timed wait expires after it has raised an owner.
Careful callers have at most 128 mutexes of one ceiling (`MutexesPerPriority`), which
`pthread_impl.h` 85 assumes of them: 256 would take the byte of `priomutex` back to 0.

`Slots` stands for the 128 entries of `priomutex`, `Lowest` for the least urgent priority, which
the byte `priority` holds: it may well be beyond the last entry, and unlock then looks for the
thread's own priority in vain (`Own`). Ceilings are those that have an entry (`Ceilings`); a
mutex with another one, perhaps the default of `pthread_mutexattr_init`
(SCE_KERNEL_PROCESS_PRIORITY_USER_LOW, `pthread_mutex.c` 536, whose value is not in the
repository), would be counted outside of the array and is not modelled.

### Spin

One action per access to the word: `Load` the first read, `LdrexSame` and `LdrexDiffers` the
exclusive load with its comparison, `StrexSucceeds` and `StrexFails` the exclusive store.
`reserved` is the exclusive monitor, whose reservations every store clears and which
`LoseReservation` may take away. The refinement of `LockSpec` maps `held` to itself.

### Time and EventFlag

`Time` has the arithmetic as operators, in words of WORD values: `timespec2usec`,
`getsystemtime` (which gives `tv_nsec` microseconds, one of which may be lost by rounding) and
`getDeltaTime`, which `pthread_delay_until_np` repeats. `EventFlag` uses them under a clock
(`now`): a timed wait or a delay gets the time `due` at which the kernel ends it, and
`promise` is when that may be. `Delete` is the kernel's deletion of the flag, which ends the
waits on it, `Invalidate` the store of the id after it; `KernelWait` enters the kernel with the
id as it is then.

### Cond

`LockControl`, `CountWaiter`, the three steps of `CallbackHandler` (`CallbackMutex`,
`CallbackControl`, `CallbackInWait`), the semaphore (`Wake`, `TimeOut`), `LeaveWAIT`,
`CountLate` and `Relock` are one wait in its order. The mutex is the abstract one, with its
recursive locks given up and taken back at once. `SignalLock`, `SignalPost`, `SignalCount`,
`SignalUnlock` are signal and broadcast; their test of `NbWait` without the control is in
`SignalCall`. `Cancel` is `pthread_cancel` on a thread with deferred cancelability: the
request is left pending, but a thread with `inWAIT` set is deleted, and its unit or its place
in `NbWait` stays as it is ("dead", "dead_counted").

### RWLock

`Demand` is what a call takes from the semaphore, `Flag` what it then stores in `writelock`
(`SetWriteLock`; tryrdlock stores nothing). `UnlockTest` reads and clears the flag,
`UnlockSignal` gives the units back. `reads` and `writers` are the holds as users see them.

### Barrier

`LockControl`, then `ArriveEarly`, `UnlockEarly`, `ReturnEarly` for the early arrivals and
`ArriveLast`, `ReturnSerial` for the last. `started` and `done` count the waits of each
thread, and `permits` the returns that complete groups of arrivals still allow.

### InitOnce

`Test`, `Load`, `Swap`, `SwapFails`, `Restore` are EXECUTE_ONCE_BEGIN with the loops of
ATOMIC_LW_SW and ATOMIC_CAS; `InitMutexes`, `SetEnter`, `SetLeave` the body, `End`
EXECUTE_ONCE_END. A thread that found 1 stays in "spin": the loop `while (s != 2)` tests a
local variable that it does not read again.

### Threads

One target thread, with one joiner, one canceller and one detacher, who share its
`pthread_storage_t`. `Create` and `CreateFails` are `pthread_create`; `Glue`, `Return`,
`Store`, `TestDetached` are `sceGlue`; `Exit...` is `pthread_exit`; `TestCancel...` is
`pthread_testcancel`, and `Cleanup...` the loop of `cleanup` in it; `Release` is `detach`; the
rest is named after join, detach and cancel. The `Wait...` steps are what a condition wait does
to the storage of its thread: push the handler, set `inWAIT` in the callback, take the control
when it wakes, clear `inWAIT` and give the control back, pop the handler. The condition itself
is `Cond`. `pthread_cancel` is followed line by line: a deferred request is left pending
(`CancelPend`), and ends there (`CancelLeave`) or goes on to delete a thread that it finds in
a wait (`CancelWaiting`). A join ends at "done" when it has waited for the thread, at "late" when
it found it marked as deleted. The constant `Programs` lists what programs do with the library (join,
detach, cancel asynchronously, exit, ...); `uses` is the program of a behaviour, which its
initial state chooses. A property that some use breaks names that use in its premise;
`JoinsWait` is the premise that no program joins a thread that tests for cancellations.

### Once

`pthread_once` on one static `pthread_once_t`, composed with its mutex: `in_progress` is the
mutex of `Mutex`, which `Once` extends, static and of type NORMAL (`OnceInit`). `stage[t]`
says where a thread is in `pthread_once`, `pc[t]` where it is in the mutex; `Lock`, `Cleanup`
and `Unlock` start the calls, `InMutex` takes their steps, `UnlockReturns` ends them.
`TestDone` is the test of `done` without the mutex, `TestAgain` the one with it. `init` ends in
three ways: it returns (`RunInit`, `SetDone`); its thread acts upon a cancellation and the
handler unlocks (`Cancel`, `Cleanup`); its thread is gone without a handler (`Kill`), which is
what `pthread_exit` and an asynchronous cancellation do in this library. The result of
`pthread_mutex_lock`, which the code ignores, is taken to be success: the kernel has a
semaphore left.

### Keys

The key table (`count`, `dtor`, `mutex`), `key_mutex`, and per thread `data` and
`specific_data_count`. Counts are read and written in two steps (`SetTest` and `SetWrite`,
`EndRead` and `EndWrite`, `DeleteTest` and `DeleteZero`), because they are changed under two
different mutexes. `Create...` is `pthread_key_create`, `Delete...` `pthread_key_delete`,
`Set...` `pthread_setspecific`, called by the thread or by one of its destructors, `End...`
the cleanup. `pos[t]` is the turn of its two loops; a turn for a key without data does nothing
and is skipped (`Remaining`). `owners[k]` is how often the program has been given key `k` and
has not deleted it: what a correct program knows. Mutexes are abstract locks; one that
`pthread_key_delete` has destroyed is locked and unlocked without effect, since nobody looks
at the error. The once-only `memset` in `init` clears a table that is zero already and has no
step.

## Runs

Every passing run is complete: TLC visits all states reachable within the bounds, which for
`priority` include a constraint.

| run | instance | shows |
|---|---|---|
| `mutex` | 3 threads, all types, two nested locks, initialised by call or (types that do not nest) statically by several threads at once, destroyed and initialised again; fairness; 39550 states | ownership, exact books, refinement of `LockSpec`, which excludes, and every call returns if every holder keeps letting go |
| `priority` | 3 threads, 2 mutexes, 4 priorities of which unlock looks for 3, 2 programs, symmetry; about 1400000 | PRIO_PROTECT: the counts of ceilings are exact at every step, and between calls a thread runs at the highest ceiling it has, and at its own priority when it has none, if unlock looks for that; PRIO_INHERIT: an undisturbed owner gets its own priority back |
| `spin` | 3 threads, fairness; 12404 | refinement of `LockSpec`; the unlock gets through; a wanted lock is taken by somebody |
| `cond` | 3 threads, all calls, by call or static, destroyed and initialised again, one thread may be cancelled anywhere; fairness; 80848 | no wake-up is lost, a broadcast wakes all, nothing is left over between calls; signals and timed waits return, and waits do when broadcasts keep coming |
| `rwlock` | 3 threads, one read lock each, 4 units, by call or static, fairness; 48347 | a writer is alone; of a lock initialised by call, units are exact, and every call returns if the lock keeps becoming free |
| `barrier` | 4 threads, count 3, up to 3 waits each, fairness; 20408 | wake-ups are conserved, no return without a complete group; a barrier used once by as many as its count releases them all |
| `barrier_reuse` | 2 threads, count 2, 2 waits each | *violated*: a quick thread steals the wake-up of a slow one |
| `eventflag` | 2 threads, 2 events, a word of 32 values, seconds of 5, 6 units of the clock; fairness; 245641 | timed waits and delays end in time although the word wraps, and return; a destroy releases who waits |
| `initonce` | 3 threads, guarded and plain calls, fairness; 11609 | one execution, complete before use, exclusion in the critical section; calls return if one thread ran first |
| `once` | 3 threads, fairness; 5187 | `init` completes once, nobody returns before it has; calls return if nobody loses the mutex's ownership and nobody is killed in `init` |
| `threads` | 5 programs, fairness; 19378 | storage outlives its users and is freed, joins follow the end and get the value, joins return |
| `keys` | 3 programs, 2 threads, 2 keys, fairness; 279281 | counts exact, so that no key in use is handed out, while data is not set next to ends and deletions; no destructor called that has been taken away; each cleanup leaves no data; calls return |

Static and dynamic objects share a run because the initial state chooses between them.
Properties that concurrent static initialisation breaks say `~static =>`; the others hold of
both. The five programs of `threads` are: join, exit, detached threads and cancellations that
stay pending or find the thread in a wait; the same with asynchronous cancellation; join, exit,
late detach, asynchronous cancellation and callbacks that the kernel refuses (where `Reclaimed`
is left out); pending cancellations that the thread acts upon, with waits and late detaches but
no joins (`NoAccessAfterFree`), and with joins (where only `JoinReturns` is left). Those of `keys` are: data set while keys are
created; ends while keys are created and deleted; ends with destructors that set data again
while keys are created. The premise `Separate` of two properties names the first two; the
others hold of all three. Those of `priority` are: nested PRIO_PROTECT mutexes with ceilings and
priorities that change while nobody has the mutex; PRIO_INHERIT mutexes with every way of locking.

**Bounds.** Threads: three are the fewest with which a third party acts between two others
(a holder, a waiter, an initialiser; a signaller, a late waiter, a new waiter; a thread in
`init`, one that waits, one that initialises the mutex); four for the barrier, where one more
than the count comes back early. Two for the keys, where two writers of one count are what
matters; with two keys and two iterations a cleanup passes over a key without data, and comes
back to one whose destructor has set it again. `MaxCalls` 2 lets one thread delete a key and
make a new one, or a destructor set data in each iteration. `MaxDepth` 2 gives a
nested lock, so that the unlock that gives the mutex up differs from the one that does not.
MAX_COUNT 4 is more than the three threads can read at once, as 0x7fffffff is in practice:
units that static initialisation loses then do not let a writer in; the proofs hold for any
value. `Rounds` 3 lets a thread be two rounds ahead. `MaxHandlers` 1 distinguishes an empty
cleanup stack from one that is not; a wait adds one to it. Counters of the code are not cut off; `NbWait` may be
negative. In `priority` three threads are an owner, one that raises it and one that is granted
the mutex or raises it too; two mutexes nest; with `Slots` 3 a ceiling can be above, equal to
or below a priority, and with `Lowest` 3 there is one priority beyond those that unlock looks
for. Priorities differ by their order and by that only. The constraint
`Bound` stops behaviours at the first disturbance, after which nothing is stated, lets two
threads at a time use PRIO_PROTECT mutexes, since what happens to the priority of a thread with
these it does itself, and gives threads that use PRIO_INHERIT mutexes, where nothing is looked
for, the other three priorities only. In
`eventflag` the word, the second and the microsecond are scaled down with what matters kept: a
second divides neither the word nor its half, and rounding and the lost microsecond occur.
`Start` 30 and `MaxTime` 33 put the wrap of the word, at 32, between the calls and their
deadlines, and `Ahead` has a deadline as far in the past and one nearly as far ahead as the
assumptions allow; the theorem holds for any width.

**Deadlock** is checked in `spin`. It is not in the others, because each of these systems may
rightly, or by a flaw that a property names, stop: all threads asleep or cancelled with nobody
left to signal or to set an event, a thread in the barrier's queue when the others have made all
their waits, an owner or a unit lost in a static race, threads that spin on the initialisation
or have been killed in `init`, a process that has read an owner that is gone, the end of the
thread or of its `MaxCalls` calls. What must not stop is stated by the liveness properties.

**Fairness.** A thread that can run does (weak fairness of the steps that wait for nothing),
a timeout expires (weak fairness of waiting or giving up), and a waiter of a semaphore that
becomes available again and again gets it (strong fairness of the grants): the library creates
its semaphores with SCE_KERNEL_ATTR_TH_FIFO, so that nobody is passed over for ever. No
fairness is assumed of the program: liveness properties state what they need of it in a
premise (holders keep letting go, broadcasts keep coming, the round is full). Only the end of
the target thread in `Threads` is assumed, as "the thread does end" (it pops the handlers it has
pushed, and its waits are woken), that of `init` in `Once`,
in any of its ways, and that of destructors in `Keys`. In these two modules each thread has
strong fairness of its steps as a whole, which at any moment are those of one call. In `Spin`
the exclusive store has strong fairness: a thread that again and again holds a reservation
stores at last, as it does on a processor that lets a thread run from the load to the store
without an interrupt from time to time. Which of several spinners gets the lock is left open.
In `EventFlag` time passes (`Tick`); no event is assumed to be set.

## What the code does otherwise than documented

The violated run is a place where the code does something else than its own documentation
says, with the quotation in `PROJECT.json`, "findings".

* *A barrier cannot be reused at once* (`barrier_reuse`): a released thread may come back and
  take the unit of one that has not woken yet. That one may then sleep for ever. Counted over
  all threads no return is invented (`NoEarlyReturn`); it is the wrong thread that returns.

Seven more are definitions of the modules that TLC finds violated, each with the constants
named here and those of the passing run otherwise. They have no run of their own; the properties
of the passing runs leave these cases out, or say what is left of the promise.

* *Unlock may leave a thread at the ceiling* (`DocumentedPriority` of `Priority`, one thread, one
  mutex, `Lowest` 1, `Slots` 1, `PriorityPrograms` = {Protection}): the loop that looks for the
  priority to go back to ends at 127 (`pthread_mutex.c` 451), but priorities go up to 255, and
  the default one is SCE_KERNEL_PROCESS_PRIORITY_USER_LOW + 1 (`pthread.c` 839), beyond the end
  where that constant is 127 or more. Such a thread runs at the ceiling after its unlock,
  against `pthread_mutex.c` 449-450 and 249-253. `CeilingPriority` says what is left: it is not
  lower than it should be.
* *Cleanup handlers that are not called* (`HandlersRun` of `Threads`, `Programs` =
  {{"cancel", "wait"}} or {{"exit"}}): a thread in a condition wait is deleted where it is, even
  with deferred cancelability (`pthread.c` 576), with the handler that takes the mutex back and
  all others still on its stack; and `pthread_exit` calls none (672). Against
  `pthread_cleanup.c` 8-11.
* *A thread that is joined and not reclaimed* (`JoinReclaims` of `Threads`, `Programs` =
  {{"join", "cancel", "wait"}}): a join that finds the thread marked, as one that was cancelled
  is, returns without detaching it (`pthread.c` 722), against 647-648 and 770-771.
  The status it hands over is sound, however: a thread that is cancelled in a wait is deleted
  under its control, which it must take before it leaves the wait (`JoinValue`).
* *The status of a thread that has ended is not kept* (`StatusKept` of `Threads`, `Programs` =
  {{"join", "exit", "cancel", "async"}}): an asynchronous cancellation that comes after the end
  overwrites it (`pthread.c` 591), against 642-645. It is the second alternative of `JoinValue`.
* *Keys* (`NewKeysFresh` of `Keys`, an invariant, with `Programs` = {{"set", "end"}}, one key,
  one iteration, `MaxCalls` 3): a thread that sets data and one that ends write the same count
  under different mutexes (`pthread_key.c` 144 and 177, 185). An update is lost, the count falls
  to 0 with the key in use, and `pthread_key_create` gives it to somebody else, against
  `pthread_key.c` 28-31. In the other direction the key is never free. (`CallsReturn`,
  `CountExact`.)
* *Static initialisation publishes too early* (`EveryCallReturns` of `Once`, two threads): `id`
  is stored first (`pthread_mutex.c` 85), and other threads use the object before the fields
  written after it are cleared (88). Here the holder of `in_progress` loses its ownership,
  against `pthread_mutex.c` 135-137, its unlock is refused, and the calls after it hang.
  `OnceCallsReturn` shows that there is no other way to hang, but for threads killed in
  `init`. Condition variables are not exposed: they store `control` last, and `cond` passes
  for static ones.
* *Initialisation* (`EveryCallReturns` of `InitOnce`, two threads): a thread that finds it in
  progress loops on a local variable (`pthread_impl.h` 366) and never returns, against
  `pthread_impl.h` 345-346. A program whose first call is made by a single thread is safe from
  it (`CallsReturn`).

The models contain the following behaviours too, where nothing else is said. The premises of the
properties exclude them, or no property is about them.

* The recursive count of a static recursive mutex can be zeroed after a nested lock
  (`pthread_mutex.c` 87): `StaticTypes` leaves recursive mutexes out, and `StaticSafe` is a
  hypothesis of the proofs. The flag of a static read-write lock can be cleared after a writer
  has set it (`pthread_rwlock.c` 96), whose unlock then gives back one unit of all:
  `UnitsExact` is about the other locks. Exclusion holds of both, as long as fewer locks are read
  at once than there are units (`FewReads` in the proofs).
* `pthread_mutex_unlock` reads `protocol` (446) after it has let in the next thread, which may
  destroy the mutex (`UnlockProtocol`).
* With two threads more than its count, two groups can be released at once and overflow the
  queue semaphore of a barrier (`pthread_barrier.c` 159): `FewThreads` in the proofs.
* The critical section's two pointers are replaced one after the other (`pthread.c` 1003): a
  thread between them leaves by another door than it entered, and the global mutex may stay
  taken (`SingleStart` is the premise of `CallsReturn` in `InitOnce`).
* A `pthread_create` that fails frees the storage, but neither the control semaphore nor, when it
  is the start that fails, the kernel's thread (`pthread.c` 380, `CreateFails`).
* `pthread_testcancel` marks its thread as deleted (`pthread.c` 535) before it stores the status
  and before it ends: a join returns too early, without the status, or frees the storage under
  the thread (`JoinsWait`).
* A thread that leaves `init` by `pthread_exit` or an asynchronous cancellation keeps
  `in_progress` for ever (`Kill` in `Once`).
* `pthread_key_delete` destroys the mutex of a key that stays because its data is still counted,
  or that has been created again in the meantime (`pthread_key.c` 114): setspecific then
  goes on without it. A key deleted while a cleanup still counts its data is never free again.
* Condition waits do not test for a pending cancellation (`pthread_cond.c` 209), and a
  cancelled waiter stays counted (`dead_counted` in `NothingLeft`).
* A thread that is detached after its end, and one whose joiner failed, are not reclaimed (the
  premise of `Reclaimed`); a detached thread leaves its kernel thread dormant (677).
* PRIO_PROTECT counts `priomutex` up before the wait: a timed lock that expires leaves the count
  and the raised priority (`pthread_mutex.c` 275), a trylock never counts, so that the unlock
  makes a count of 0 to 255, and setprioceiling between the signal of an unlock (444) and its
  decrement (448) makes it decrement another ceiling. setprioceiling on a static mutex that
  nobody has locked changes the ceiling although its wait for the semaphore is refused (not in
  the model).
* PRIO_INHERIT: unlock resets the thread to its own priority although it has other mutexes
  (`pthread_mutex.c` 468), against 256-257 and `pthread_vita.h` 1090-1092; a second thread that
  raises the owner saves, and later restores, the raised priority; the owner may change or
  become NULL between its reads (226, 232, 236, 239); a timed wait that expires does not lower
  the owner again, against `pthread_vita.h` 926-929. setschedprio overrides what the protocols
  have raised. Threads that the library adopts have `priority` 0 (`pthread.c` 218; not in the
  model): an unlock sets them to the most urgent one.
* A deadline 2147 seconds ahead or more times out at once, and one that passed as long ago may
  wait for up to 35 minutes (`DeadlineAssumption`). `pthread_getsystemtime_np` puts
  microseconds in `tv_nsec`: a deadline counted from it may end a second early.
* `pthread_eventflag_try_np` returns 0 whether the events were set or not
  (`pthread_eventflag_np.c` 119), against `pthread_vita.h` 1365-1366.

## Proofs

Each proof module defines an inductive invariant for each specification it extends (`IInv`,
`OnceInv`, `LibraryInv`, `ThreadInv`, `PriorityInv`), a conjunction of named parts, proves that the initial
states satisfy it and that every action preserves it, and derives the properties. Nothing
bounds the number of threads there, nor keys, handlers, nested locks or calls, and `Threads`,
`Keys` and `Priority` are proved for every set of programs.

| module | theorems | hypotheses beyond the ASSUMEs of the module |
|---|---|---|
| `MutexProofs`, `Mutex` | `TypeCorrect`, `Exclusion`, `BookkeepingExact`, `Ownership`, `RefinesLock` | `StaticSafe`: no recursive mutex with a static initialiser; `OwnedOnReturn` is about mutexes that are not `static` |
| `CondProofs` | `WakeupsKept`, `BroadcastReachesAll`, `ControlIsLock`, `CancelIsClean`, `NothingLeftOver` | none |
| `RWLockProofs` | `WritersAlone`, `UnitsAccounted`, `UnlockFindsKind` | the first: `FewReads`, fewer than MAX_COUNT locks can be read at once; the others are about locks that are not `static` |
| `BarrierProofs` | `WakeupsConserved`, `NoOverflow`, `ReturnsArePermitted` | at most one thread more than the count |
| `MutexProofs`, `Once` | `OnceOnly`, `InitExcludes`, `ReturnsAfterInit` | none |
| `PthreadProofs`, `InitOnce` | `BodyOnce`, `InitialisedOnReturn`, `CriticalSection` | none |
| `PthreadProofs`, `Threads` | `StorageSafe`, `JoinGetsStatus`, `JoinWaitsForEnd`, `StorageReclaimed` | none (the premises of the properties name the uses that break them) |
| `PthreadProofs`, `Priority` | `PriorityInvariant`, `CeilingsCounted`, `RunsAtCeiling`, `OwnPriorityBack` | none (the first two properties are about disciplined programs, the last about undisturbed executions without setschedprio) |
| `KeysProofs` | `CountsExact`, `DestructorsThere`, `NoDataLeft`, `NewKeys` | none (`Separate` is in the first two and the last) |
| `SpinProofs` | `WordIsExact`, `RefinesLock` | none |
| `EventFlagProofs` | `TimedCallsAreOnTime`, `TypeCorrect` | none (deadlines are less than half of the word away, `DeadlineAssumption`) |

The hypotheses are what the behaviours of the last list break. Some theorems are about properties
that no run checks, which are defined in the proof modules: exclusion of mutexes and of the control of
condition variables, what the cancelled hold, what an unlock gives back, that a barrier's
semaphore does not overflow, and that `init` runs alone.

*Mutex.* Exclusion alone is not inductive: it needs that the semaphore is taken exactly while
somebody holds the mutex (`SemaHeld`), that the count describes the holder (`CountExact`) and
that the owner field names nobody else, even in the windows between the semaphore and the
field (`OwnerSound`). The refinement shows for each action which step of `LockSpec` it is.

*Cond.* `Shape` says where threads can be while the object is being made, who has the mutex at
each step of a wait, and that the control is a lock. `Conservation` is the heart: `NbWait`
plus the units of the semaphore equal the number of threads that have been counted (asleep, in
the callback, late, or deleted there), with the exact imbalance in the middle of a signal or a
broadcast. Sleepers are among the counted, so no wake-up is lost, although `NbWait` may be
negative after a timeout that raced a signal, and between calls the count is exactly that of the
deleted.

*Once.* Every step of `Once` that is not a stutter of the mutex is one of its actions
(`MutexStep`), so that the mutex's invariant holds here, ownership lost or not: the mutex is
NORMAL, and needs no `StaticSafe`.
Then who is in `init` has the mutex (`CallsExact`), and `done` goes with the number of completed
runs but for the thread between the two (`DoneExact`).

*RWLock.* The flag is set exactly while a writer is between its two accesses to it
(`FlagExact`), and a unit left in the semaphore means that there is no writer (`UnitsTell`).
Of static locks less is true, because static initialisation can clear the flag of a writer:
the invariant `Loose` says only that units are never too many, so that with fewer readers than
units a writer, who takes them all, is alone.

*Spin.* While a thread between its exclusive load and its exclusive store has a reservation,
the word holds the value it compared (`ReservedSame`): a store that succeeds is a locker's of a
free word, the holder's unlock, or a spinner's that writes back what is there. With `WordExact`
each of them is a step of `LockSpec` or a stutter.

*EventFlag.* `DeltaOfDeadline` adds up the roundings: the wrapped difference, taken as an int, is
the true difference plus less than a second, because neither is half of a word away
(`Difference`). What is due then stays what was computed at the call.

*Barrier.* Threads that arrived early and have not returned are those of the incomplete group
plus one for each unit (`Conservation`); with the control a lock (`ControlExact`) the last
arrival knows how many units can be in the queue.

*InitOnce.* Who holds a 2, in `control` or in a local variable, got it from an `End`
(`TwoMeansDone`), so that the 1 that the swap writes over it for a moment starts nothing.

*Threads.* The hard part is who may still use the storage. `ControlExact` says that the control
is a lock between joiner and canceller, and that both are there only while the thread has its
storage; `OneReleases` that of the three who may free it two are ruled out at any moment: nobody
joins a detached thread, and a thread stays while somebody is in the middle of cancelling it.
For joins `JoinSound` follows `id` through the code: only a canceller that has the control marks
it, so that a joiner takes it unmarked into its wait, and the wait ends with the thread.
`CodeSound` does the same for `returncode` from the store of `sceGlue` or `pthread_exit` to the
join, and `ReleaseInTime` counts `waiting`, which the last join must find at 0. For
cancellations of a thread in a wait it is `WaitSound` that counts: `inWAIT` is cleared only with
the control, which the canceller keeps from its test to the deletion, so that the thread it has
found in the wait cannot leave it (`AsyncChosen`). All of them have
the premise of their property in them (`Joined` is the use of joins without tests for
cancellations), without which they do not hold.

*Priority.* The ceilings a thread counts are those of the PRIO_PROTECT mutexes it has, is locking
or has not finished unlocking (`Counted`), and only two steps change that set, each of which
changes one count (`Counting`). For the rest the ceilings themselves must stand still:
`CeilingsKept` says that one that is being changed is that of a mutex nobody has or asks for.
`FewPerCeiling` keeps the counts away from the end of the byte, so that adding 255 to one is
taking 1 off. `CeilingExact` then follows the kernel's priority through a call: `unlock` finds
the highest ceiling in the counts because they are exact; when the thread's own priority is not
among those it looks for, only one half is left, that the thread is not lower than it should be. For PRIO_INHERIT `SavedIsOwn` says
that whoever does not run at his own priority has been raised by a thread that is about to
restore him, and that what this thread has saved is his own: as long as nobody else was raising
anybody when it was read.

*Keys.* `CountExact` is nearly its own invariant, if what was read of a count is still so when
it is written. That has two reasons, one for each half of `Separate`. While data is only set
(`LockedByKey`) a key that the program owns has a mutex that is not destroyed, and whoever is
between its read and its write has it. While threads only end (`CleaningSafe`) the writers have
`key_mutex`, except for `pthread_key_delete`; and that is only at a key that nobody has data of,
nobody else is deleting and `pthread_key_create` has not been able to find, since its count is
not 0. `NoNullDtor` follows: a destructor that is running is counted, so that the count is not
the 1 with which `pthread_key_delete` would take it away. `DataDestroyed` needs that the count
each thread keeps is the number of keys it has data of (`LocalExact`), and that every such key
has a turn left in the loops of the cleanup (`Ahead`).

Only model-checked: every liveness property (`CallsReturn`, `OnceCallsReturn`, `WaitsReturn`, `JoinReturns`,
`UnlockReturns`, `SomebodyGetsIt`), because the prover does no ENABLED and no fairness; type
correctness of the modules other than `Mutex` and `EventFlag` as a theorem of its own (it is
part of the invariant).

## Not modelled, and what could follow

Not modelled: mailboxes and message pipes (disabled or empty in this version), thread
attributes (stored and passed on), threads that the library adopts, several joiners of one
thread (undefined by `pthread_vita.h` 520-522), tracing and printing, and memory orders weaker
than sequential consistency, although the atomic operations have no barriers. Of the delays
`pthread_delay_until_np` is modelled; `pthread_delay_np` and `pthread_sleep_np` pass a duration
on. The kernel's event flags are external.

Two failures of the kernel are not modelled. When it has no callback left for a condition wait
(`pthread_cond.c` 190-194), the code only reports it and goes on to sleep with the mutex and the
control held: every other call on that condition variable then hangs. When it has no semaphore
left for a static mutex, its first lock fails: `pthread_once` ignores that (32), and two threads
may then run `init`.

Calls on the global mutex within the critical section go through `pthread_self` with its own
PTHREAD_INIT (`pthread.c` 191), which `InitOnce` leaves out: a thread that goes through the new
pointer before `control` is 2 may spin there as well (`pthread_impl.h` 366), beside the place
where the model lets it.

What could follow: as theorems, separation of a barrier used once by as many threads as its
count, and that what waits in the queue of an event flag that is destroyed is released.
