-------------------------- MODULE MCLockfreeSlabPool --------------------------
(* LockfreeSlabPool with the thread counts and bounds of pool_*.cfg. *)
EXTENDS LockfreeSlabPool
=============================================================================
