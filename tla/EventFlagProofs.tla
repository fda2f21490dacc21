---------------------------- MODULE EventFlagProofs ----------------------------
(***************************************************************************)
(* A timed call ends when its caller may expect it to, for every width of    *)
(* the word, length of the second and set of deadlines that the assumptions  *)
(* of EventFlag allow, the ones of the program included.                     *)
(***************************************************************************)
EXTENDS EventFlag, TLAPS

USE DEF NONE, NoPromise

--------------------------------------------------------------------------------
(* What the words hold. *)

\* timespec2usec (pthread_impl.h:435-438) gives a true timespec its microseconds,
\* but for the bits that a word has no room for.
LEMMA TimespecWord ==
    ASSUME NEW x \in Nat
    PROVE  timespec2usec(Timespec(x)) = x % WORD
<1> DEFINE f == x % SEC
<1>1. x = (x \div SEC) * SEC + f /\ f \in Nat /\ x \div SEC \in Int
  BY WidthAssumption
<1>2. (f * NSEC + NSEC \div 2) \div NSEC = f
  <2>1. NSEC \div 2 \in 0..(NSEC - 1)
    BY WidthAssumption
  <2> QED BY <1>1, <2>1, WidthAssumption
<1> QED BY <1>1, <1>2 DEF timespec2usec, Timespec

\* The clock's word is that of a moment of the current second, not after now: its
\* tv_nsec holds microseconds (pthread_np.c:59-72), so it counts for next to
\* nothing.
LEMMA ClockWord ==
    ASSUME NEW x \in Nat, NEW lost \in 0..1, NEW k \in Nat
    PROVE  \E z \in Int :
              /\ x - SEC < z /\ z <= x
              /\ timespec2usec([getsystemtime(x, lost) EXCEPT !.tv_sec = @ + k])
                    = (z + k * SEC) % WORD
              /\ timespec2usec(getsystemtime(x, lost)) = z % WORD
<1> DEFINE f == IF x % SEC = 0 THEN 0 ELSE (x % SEC) - lost
           s == x \div SEC
           g == (f + NSEC \div 2) \div NSEC
<1>1. x = s * SEC + (x % SEC) /\ x % SEC \in 0..(SEC - 1) /\ s \in Int
  BY WidthAssumption
<1>2. f \in Nat /\ f <= x % SEC
  BY <1>1
<1>3. g \in Int /\ 0 <= g /\ g <= f
  <2>1. NSEC \div 2 \in Nat /\ NSEC \div 2 <= NSEC - 1
    BY WidthAssumption
  <2>2. CASE f = 0
    BY <2>1, <2>2, WidthAssumption
  <2>3. CASE f # 0
    <3>1. f * NSEC >= f + (NSEC - 1)
      <4>1. f - 1 \in Nat /\ NSEC - 1 \in Nat
        BY <1>2, <2>3, WidthAssumption
      <4>2. (f - 1) * (NSEC - 1) >= 0
        BY <4>1
      <4> QED BY <4>1, <4>2, <1>2, WidthAssumption
    <3>2. f + NSEC \div 2 \in Nat /\ f + NSEC \div 2 <= f * NSEC
      BY <3>1, <2>1, <1>2, WidthAssumption
    <3> QED BY <3>2, <1>2, WidthAssumption
  <2> QED BY <2>2, <2>3
<1>4. s * SEC + g \in Int /\ x - SEC < s * SEC + g /\ s * SEC + g <= x
  BY <1>1, <1>2, <1>3, WidthAssumption
<1>5. timespec2usec(getsystemtime(x, lost)) = (s * SEC + g) % WORD
  BY DEF timespec2usec, getsystemtime
<1>6. timespec2usec([getsystemtime(x, lost) EXCEPT !.tv_sec = @ + k])
         = ((s + k) * SEC + g) % WORD
  BY DEF timespec2usec, getsystemtime
<1>7. (s + k) * SEC + g = (s * SEC + g) + k * SEC
  BY <1>1, <1>3, WidthAssumption
<1> QED BY <1>4, <1>5, <1>6, <1>7

LEMMA Remainder ==
    ASSUME NEW q \in Int, NEW r \in 0..(WORD - 1)
    PROVE  (WORD * q + r) % WORD = r
<1> DEFINE v == WORD * q + r
<1>1. v \in Int /\ v = WORD * (v \div WORD) + (v % WORD) /\ v % WORD \in 0..(WORD - 1)
  BY WidthAssumption
<1>2. WORD * ((v \div WORD) - q) = r - (v % WORD)
  BY <1>1, WidthAssumption
<1>3. (v \div WORD) - q = 0
  BY <1>1, <1>2, WidthAssumption
<1> QED BY <1>1, <1>2, <1>3, WidthAssumption

\* A difference that fits in an int survives the words it went through.
LEMMA Difference ==
    ASSUME NEW a \in Int, NEW n \in Int,
           -(WORD \div 2) <= a - n, a - n < WORD \div 2
    PROVE  AsInt((a % WORD) - (n % WORD)) = a - n
<1> DEFINE qa == a \div WORD
           qn == n \div WORD
           x == (a % WORD) - (n % WORD)
<1>1. /\ a = qa * WORD + (a % WORD) /\ qa \in Int /\ a % WORD \in 0..(WORD - 1)
      /\ n = qn * WORD + (n % WORD) /\ qn \in Int /\ n % WORD \in 0..(WORD - 1)
  BY WidthAssumption
<1>2. x = (a - n) + (qn - qa) * WORD
  BY <1>1, WidthAssumption
<1>3. WORD = 2 * (WORD \div 2) /\ WORD \div 2 \in Nat
  BY WidthAssumption
<1>4. CASE a - n >= 0
  <2>1. x % WORD = a - n
    <3>1. x = WORD * (qn - qa) + (a - n) /\ qn - qa \in Int /\ a - n \in 0..(WORD - 1)
      BY <1>1, <1>2, <1>3, <1>4, WidthAssumption
    <3> HIDE DEF x, qa, qn
    <3> QED BY <3>1, Remainder
  <2> QED BY <2>1, <1>4 DEF AsInt
<1>5. CASE a - n < 0
  <2>1. x % WORD = (a - n) + WORD
    <3>1. /\ x = WORD * (qn - qa - 1) + ((a - n) + WORD)
          /\ qn - qa - 1 \in Int /\ (a - n) + WORD \in 0..(WORD - 1)
      BY <1>1, <1>2, <1>3, <1>5, WidthAssumption
    <3> HIDE DEF x, qa, qn
    <3> QED BY <3>1, Remainder
  <2> QED BY <2>1, <1>3, <1>5 DEF AsInt
<1> QED BY <1>1, <1>4, <1>5

--------------------------------------------------------------------------------
(* What getDeltaTime makes of the deadline of a call. *)

\* The call ends between the deadline, less what the caller has to allow for, and a
\* second after the later of the deadline and now.
LEMMA DeltaOfDeadline ==
    ASSUME now \in Nat, NEW d \in Deadlines, NEW lost \in 0..1
    PROVE  LET end == now + getDeltaTime(d.abstime, now, lost) IN
           /\ d.at \in Int /\ d.early \in Int /\ end \in Int
           /\ d.at - d.early <= end
           /\ end <= (IF d.at < now THEN now ELSE d.at) + SEC
<1> DEFINE end == now + getDeltaTime(d.abstime, now, lost)
<1>1. PICK n \in Int : /\ now - SEC < n /\ n <= now
                       /\ timespec2usec(getsystemtime(now, lost)) = n % WORD
  BY ClockWord
<1>2. WORD \div 2 \in Nat /\ 2 * SEC <= WORD \div 2 /\ SEC \in Nat
  BY WidthAssumption, DeadlineAssumption
<1>3. \E a \in Int : /\ timespec2usec(d.abstime) = a % WORD
                     /\ -(WORD \div 2) <= a - n /\ a - n < WORD \div 2
                     /\ d.at \in Int /\ d.early \in Int
                     /\ d.at - d.early <= a /\ a <= d.at
  <2>1. CASE \E e \in Ahead : /\ now + e >= 0
                              /\ d = [at |-> now + e, early |-> 0,
                                      abstime |-> Timespec(now + e)]
    <3>1. PICK e \in Ahead : /\ now + e >= 0
                             /\ d = [at |-> now + e, early |-> 0,
                                     abstime |-> Timespec(now + e)]
      BY <2>1
    <3>2. e \in Int /\ -(WORD \div 2) <= e /\ e <= WORD \div 2 - SEC
      BY <1>2, DeadlineAssumption
    <3>3. timespec2usec(d.abstime) = (now + e) % WORD
      BY <3>1, <3>2, TimespecWord
    <3> QED BY <3>1, <3>2, <3>3, <1>1, <1>2
  <2>2. CASE \E k \in Seconds, o \in Old :
                /\ now - o >= 0
                /\ d = [at |-> now - o + k * SEC, early |-> SEC,
                        abstime |-> [getsystemtime(now - o, 0) EXCEPT !.tv_sec = @ + k]]
    <3>1. PICK k \in Seconds, o \in Old :
                /\ now - o >= 0
                /\ d = [at |-> now - o + k * SEC, early |-> SEC,
                        abstime |-> [getsystemtime(now - o, 0) EXCEPT !.tv_sec = @ + k]]
      BY <2>2
    <3>2. k \in Nat /\ o \in 0..SEC /\ k * SEC \in Nat /\ k * SEC <= WORD \div 2 - SEC
      BY <1>2, DeadlineAssumption
    <3>3. PICK z \in Int : /\ (now - o) - SEC < z /\ z <= now - o
                           /\ timespec2usec(d.abstime) = (z + k * SEC) % WORD
      <4>1. now - o \in Nat
        BY <3>1, <3>2
      <4> QED BY <4>1, <3>1, <3>2, ClockWord
    <3> DEFINE a == z + k * SEC
    <3>4. /\ a \in Int /\ -(WORD \div 2) <= a - n /\ a - n < WORD \div 2
          /\ d.at \in Int /\ d.early \in Int /\ d.at - d.early <= a /\ a <= d.at
      BY <3>1, <3>2, <3>3, <1>1, <1>2
    <3> QED BY <3>3, <3>4
  <2> QED BY <2>1, <2>2 DEF Deadlines
<1>4. PICK a \in Int : /\ timespec2usec(d.abstime) = a % WORD
                       /\ -(WORD \div 2) <= a - n /\ a - n < WORD \div 2
                       /\ d.at \in Int /\ d.early \in Int
                       /\ d.at - d.early <= a /\ a <= d.at
  BY <1>3
<1>5. AsInt(timespec2usec(d.abstime) - timespec2usec(getsystemtime(now, lost))) = a - n
  BY <1>1, <1>4, Difference
<1>6. getDeltaTime(d.abstime, now, lost) = IF a - n < 0 THEN 0 ELSE a - n
  BY <1>5 DEF getDeltaTime
<1> QED BY <1>1, <1>2, <1>4, <1>6

--------------------------------------------------------------------------------
(* The calls. *)

Kept == /\ now \in Nat
        /\ due \in [Threads -> Int]
        /\ promise \in [Threads -> [from : Int, to : Int]]
        /\ OnTime

LEMMA KeptInit == Init => Kept
BY TimeAssumption DEF Init, Kept, OnTime

\* A call that computes its timeout.
LEMMA KeptTimed ==
    ASSUME Kept, NEW t \in Threads, NEW d \in Deadlines, Timed(t, d), now' = now
    PROVE  Kept'
<1>1. PICK lost \in 0..1 :
         due' = [due EXCEPT ![t] = now + getDeltaTime(d.abstime, now, lost)]
  BY DEF Timed
<1> DEFINE end == now + getDeltaTime(d.abstime, now, lost)
           from == d.at - d.early
           to == (IF d.at < now THEN now ELSE d.at) + SEC
<1>2. end \in Int /\ d.at \in Int /\ d.early \in Int /\ from <= end /\ end <= to
  BY DeltaOfDeadline DEF Kept
<1>3. from \in Int /\ to \in Int
  BY <1>2, WidthAssumption DEF Kept
<1>4. promise' = [promise EXCEPT ![t] = [from |-> from, to |-> to]]
  BY DEF Timed
<1> HIDE DEF end, from, to
<1>5. due' = [due EXCEPT ![t] = end]
  BY <1>1 DEF end
<1> QED BY <1>2, <1>3, <1>4, <1>5 DEF Kept, OnTime

\* A call that ends.
LEMMA KeptReturn ==
    ASSUME Kept, NEW t \in Threads, NEW from, Return(t, from), now' = now
    PROVE  Kept'
BY DEF Kept, Return, OnTime

LEMMA KeptNext == Kept /\ [Next]_vars => Kept'
<1> SUFFICES ASSUME Kept, [Next]_vars PROVE Kept'
  OBVIOUS
<1>1. CASE UNCHANGED <<now, due, promise>>
  BY <1>1 DEF Kept, OnTime
<1>2. CASE Tick
  BY <1>2 DEF Tick, calls, Kept, OnTime
<1>3. ASSUME NEW t \in Threads, NEW d \in Deadlines, DelayCall(t, d)
      PROVE  Kept'
  BY <1>3, KeptTimed DEF DelayCall, object
<1>4. ASSUME NEW t \in Threads, NEW d \in Deadlines, NEW r \in Requests,
             TimedWaitCall(t, r, d)
      PROVE  Kept'
  BY <1>4, KeptTimed DEF TimedWaitCall, object
<1>5. ASSUME NEW t \in Threads,
             LeaveCritical(t) \/ WaitRefused(t) \/ Grant(t) \/ TimeOut(t)
      PROVE  Kept'
  <2>1. now' = now
    BY <1>5 DEF LeaveCritical, WaitRefused, Grant, TimeOut, object
  <2>2. \/ Return(t, "leave") \/ Return(t, "pend") \/ Return(t, "deleted")
        \/ Return(t, "wait") \/ Return(t, "delay")
    BY <1>5 DEF LeaveCritical, WaitRefused, Grant, TimeOut
  <2> QED BY <2>1, <2>2, KeptReturn
<1>6. ASSUME NEW t \in Threads,
             \/ InitCall(t) \/ DestroyCall(t) \/ EnterCritical(t)
             \/ Create(t) \/ Delete(t) \/ Invalidate(t) \/ KernelWait(t)
             \/ \E e \in Events : SetEvents(t, {e})
             \/ \E r \in Requests : Try(t, r) \/ WaitCall(t, r)
      PROVE  UNCHANGED <<now, due, promise>>
  BY <1>6 DEF InitCall, DestroyCall, EnterCritical, Create, Delete, Invalidate,
              KernelWait, SetEvents, Try, WaitCall, object, calls
<1> QED BY <1>1, <1>2, <1>3, <1>4, <1>5, <1>6 DEF Next, Running, vars

\* A timed call ends when its caller may expect it to, although the deadline and the
\* clock go through 32-bit words that wrap (pthread_impl.h:435-438,
\* pthread.c:1096-1110), whatever those words, the second and the deadlines are.
THEOREM TimedCallsAreOnTime == Spec => []OnTime
<1>1. Kept => OnTime
  BY DEF Kept
<1> QED BY <1>1, KeptInit, KeptNext, PTL DEF Spec

--------------------------------------------------------------------------------
LEMMA TypeNext == Kept /\ TypeOK /\ [Next]_vars => TypeOK'
<1> SUFFICES ASSUME Kept, TypeOK, [Next]_vars PROVE TypeOK'
  OBVIOUS
<1>0. /\ now' \in Nat /\ due' \in [Threads -> Int]
      /\ promise' \in [Threads -> [from : Int, to : Int]]
  BY KeptNext DEF Kept
<1> USE <1>0 DEF TypeOK, PCs, object, calls, Go, IsAt, Return
<1>1. CASE UNCHANGED vars
  BY <1>1 DEF vars
<1>2. CASE Tick
  BY <1>2 DEF Tick
<1>3. ASSUME NEW t \in Threads,
             \/ InitCall(t) \/ DestroyCall(t) \/ EnterCritical(t)
             \/ \E d \in Deadlines : DelayCall(t, d)
             \/ \E e \in Events : SetEvents(t, {e})
             \/ \E r \in Requests : \/ Try(t, r) \/ WaitCall(t, r)
                                   \/ \E d \in Deadlines : TimedWaitCall(t, r, d)
      PROVE  TypeOK'
  BY <1>3 DEF InitCall, DestroyCall, EnterCritical, DelayCall, SetEvents, Try, Cleared,
              WaitCall, TimedWaitCall
<1>4. ASSUME NEW t \in Threads, Running(t) \/ Grant(t) PROVE TypeOK'
  <2>1. Idle \in Requests
    BY RequestAssumption DEF Idle
  <2>2. CASE Create(t) \/ Invalidate(t) \/ KernelWait(t)
    BY <2>2 DEF Create, Invalidate, KernelWait
  <2>3. CASE Delete(t)
    <3>1. pc' \in [Threads -> PCs]
      BY <2>3 DEF Delete
    <3>2. flag' \in BOOLEAN /\ events' \subseteq Events
      BY <2>3 DEF Delete
    <3> QED BY <2>3, <3>1, <3>2 DEF Delete
  <2>4. CASE LeaveCritical(t) \/ WaitRefused(t) \/ TimeOut(t) \/ Grant(t)
    <3>0. /\ pc' = [pc EXCEPT ![t] = "idle"]
          /\ request' = [request EXCEPT ![t] = Idle]
      BY <2>4, Zenon DEF LeaveCritical, WaitRefused, TimeOut, Grant
    <3>1. pc' \in [Threads -> PCs] /\ request' \in [Threads -> Requests]
      BY <2>1, <3>0
    <3>2. id' \in {"INVALID", "LIVE"} /\ flag' \in BOOLEAN /\ critical' \in BOOLEAN
      BY <2>4 DEF LeaveCritical, WaitRefused, TimeOut, Grant
    <3>3. events' \subseteq Events
      BY <2>4 DEF LeaveCritical, WaitRefused, TimeOut, Grant, Cleared
    <3> QED BY <3>1, <3>2, <3>3
  <2> QED BY <1>4, <2>2, <2>3, <2>4 DEF Running
<1> QED BY <1>1, <1>2, <1>3, <1>4 DEF Next

\* Type correctness of the flag and of the calls in progress.
THEOREM TypeCorrect == Spec => []TypeOK
<1>1. Init => TypeOK
  <2>1. Idle \in Requests
    BY RequestAssumption DEF Idle
  <2> SUFFICES ASSUME Init PROVE TypeOK
    OBVIOUS
  <2>2. flag \in BOOLEAN /\ critical \in BOOLEAN
    BY Zenon DEF Init
  <2>3. Kept
    BY KeptInit
  <2> QED BY <2>1, <2>2, <2>3 DEF Init, TypeOK, Kept, PCs
<1> QED BY <1>1, KeptInit, KeptNext, TypeNext, PTL DEF Spec
================================================================================
