--------------------------------- MODULE MCKeys ---------------------------------
(* The programs that Keys is checked with. *)
EXTENDS Keys

\* The last one changes counts under two mutexes.
AllPrograms == {{"set"}, {"end", "delete"}, {"end", "reset"}}
================================================================================
