------------------------------ MODULE MCEventFlag ------------------------------
(* An instance of EventFlag for TLC, with a word, a second and a microsecond *)
(* that keep the proportions that matter: a second divides neither the word  *)
(* nor its half.                                                             *)
EXTENDS EventFlag

WaitRequests == {[pattern |-> {1, 2}, mode |-> "AND", clear |-> "PAT"],
                 [pattern |-> {1}, mode |-> "OR", clear |-> "ALL"]}
AheadValues == {-16, 2, 11}
================================================================================
