---------------------------- MODULE MCKSemaphore ----------------------------
(* A semaphore shared by three environments. *)
EXTENDS KSemaphore
=============================================================================
