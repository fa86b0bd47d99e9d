-------------------------- MODULE CombinedPointers --------------------------
(***************************************************************************)
(* naesala/lockfree/lockfree_util.h: a 64-bit word that combines a 48-bit  *)
(* pointer with a 16-bit version, so that a compare-exchange can tell two  *)
(* visits of the same address apart.                                       *)
(*                                                                         *)
(* combine<T> draws the version from a function-local static counter: each *)
(* pointer type T it is instantiated with has a counter of its own.        *)
(***************************************************************************)
EXTENDS Naturals

CONSTANTS Nodes,      \* the addresses of list and stack nodes
          Null,       \* the null pointer
          Versions    \* how many versions a counter has: 2^16 in the code

ASSUME CombinedAssumption ==
    /\ Null \notin Nodes
    /\ Versions \in Nat \ {0}

Pointers == Nodes \cup {Null}
Words    == [ptr : Pointers, version : 0..Versions - 1]

\* The word of a null pointer that no combine has made.
NullWord == [ptr |-> Null, version |-> 0]

\* combine(ptr) when its type's counter is at version, and the counter after.
Combine(ptr, version) == [ptr |-> ptr, version |-> version]
NextVersion(version)  == (version + 1) % Versions
=============================================================================
