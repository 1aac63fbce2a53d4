-------------------------------- MODULE Mutex --------------------------------
(***************************************************************************)
(* Mutexes.  The value of a mutex is the thread that holds it.             *)
(***************************************************************************)
Cpu == "cpu"
FrontEnd == "front_end"
Free == "free"

Lock(mutex, thread) == mutex = Free /\ mutex' = thread
Unlock(mutex) == mutex' = Free
=============================================================================
