--------------------------- MODULE MCLockfreeStack ---------------------------
(* LockfreeStack with the quotas and bounds of stack*.cfg. *)
EXTENDS LockfreeStack, TLC

CONSTANTS p1, p2, c1, c2

MCQuotas ==
    {[t \in Threads |-> 1], p1 :> 1 @@ p2 :> 2 @@ c1 :> 3 @@ c2 :> 0}
MCRecycled == {p1 :> 4 @@ c1 :> 2 @@ c2 :> 2}
=============================================================================
