-------------------------------- MODULE MCMutex --------------------------------
(* Instances of Mutex for TLC. *)
EXTENDS Mutex

AllTypes == MutexTypes
NonRecursive == {"NORMAL", "ERRORCHECK"}
================================================================================
