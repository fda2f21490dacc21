------------------------------ MODULE KernelSema ------------------------------
(***************************************************************************)
(* The counting semaphores of the kernel, as the library uses them         *)
(* (sceKernelCreateSema, WaitSema, PollSema, SignalSema).  They are not    *)
(* part of the repository: this is what the calls in src/ rely on.         *)
(*                                                                         *)
(* A semaphore is its count.  A thread that calls sceKernelWaitSema(n) sits *)
(* in a "waiting" program counter of its module until a grant step takes n  *)
(* from the count; which waiter is granted is left open, so both queueing   *)
(* policies (FIFO and priority) are among the behaviours.                   *)
(***************************************************************************)
EXTENDS Naturals

\* sceKernelWaitSema / sceKernelPollSema can take n from the count.
Available(count, n) == count >= n

\* sceKernelSignalSema refuses (and changes nothing) a signal that would take
\* the count above the maximum given at creation.
SignalFits(count, n, max) == count + n <= max

AfterSignal(count, n, max) == IF SignalFits(count, n, max) THEN count + n ELSE count
================================================================================
