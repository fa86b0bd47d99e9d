-------------------------- MODULE MCSemaphoreQueue --------------------------
(* SemaphoreQueue with the thread counts and bounds of semaphore_*.cfg. *)
EXTENDS SemaphoreQueue
=============================================================================
