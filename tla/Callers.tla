--------------------------------- MODULE Callers ---------------------------------
(***************************************************************************)
(* The threads of a program, and where each of them is in its call of the  *)
(* library.  A call is cut into points, named in the modules that extend   *)
(* this one, between which other threads can run.                          *)
(***************************************************************************)
CONSTANT Threads

VARIABLE pc   \* the point of its call where each thread is, "idle" outside of one

IsAt(t, point) == pc[t] = point

\* What the objects' destroy functions count on.
NobodyInside == \A t \in Threads : IsAt(t, "idle")

Go(t, point, next) == IsAt(t, point) /\ pc' = [pc EXCEPT ![t] = next]

\* Each call that begins ends.
AllReturn == \A t \in Threads : ~IsAt(t, "idle") ~> IsAt(t, "idle")
==================================================================================
