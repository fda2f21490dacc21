------------------------------- MODULE MCThreads -------------------------------
(* The programs that Threads is checked with. *)
EXTENDS Threads

\* Cancellations stay pending or find the thread in a wait; they come at any moment; the
\* thread tests for them, and may be joined meanwhile.
AllPrograms == {{"join", "exit", "cancel", "wait", "detached"},
                {"join", "exit", "cancel", "async", "wait", "detached"},
                {"join", "exit", "cancel", "async", "callback", "detached", "detach"},
                {"cancel", "testcancel", "wait", "detached", "detach"},
                {"join", "cancel", "testcancel", "wait"}}
================================================================================
