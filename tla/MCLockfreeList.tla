--------------------------- MODULE MCLockfreeList ---------------------------
(* LockfreeList with the quotas and bounds of list*.cfg. *)
EXTENDS LockfreeList, TLC

CONSTANTS p1, p2, c1, c2

MCQuotas ==
    {p1 :> 2 @@ p2 :> 0 @@ c1 :> 1 @@ c2 :> 1, p1 :> 2 @@ p2 :> 1 @@ c1 :> 0 @@ c2 :> 0}
MCLossy == {p1 :> 1 @@ p2 :> 1 @@ c1 :> 2}
=============================================================================
