-------------------------- MODULE MCConditionQueue --------------------------
(* ConditionQueue with the thread counts and bounds of condition_queue.cfg. *)
EXTENDS ConditionQueue
=============================================================================
