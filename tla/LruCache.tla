------------------------------ MODULE LruCache ------------------------------
(***************************************************************************)
(* naesala/container/lru.h: a cache of bounded size that gives up the      *)
(* entry that was used longest ago.  A list of entries and an index of     *)
(* iterators into it must agree.                                           *)
(*                                                                         *)
(* The capacity is positive: with none, Set reads the last entry of an     *)
(* empty list.                                                             *)
(***************************************************************************)
EXTENDS Naturals, Sequences, FiniteSets, SequencesExt

CONSTANTS Keys, Values, Capacity

CapacityAssumption == Capacity \in Nat \ {0}

VARIABLES entry,   \* the entry in each list node that is alive; it stays in
                   \* its place while the list is spliced around it
          cache,   \* cache_, as the sequence of its nodes
          index,   \* index_, from keys to nodes
          used     \* history: every key ever set with its last value, the
                   \* one used last first

vars == <<entry, cache, index, used>>

Nodes == 1..Capacity

Init ==
    /\ entry = <<>>
    /\ cache = <<>>
    /\ index = <<>>
    /\ used = <<>>

Uses(k, v) == used' = <<<<k, v>>>> \o RemoveFirstMatch(used, LAMBDA e : e[1] = k)

\* splice: what is before node n moves behind it.
ToFront(n) == cache' = <<n>> \o RemoveFirst(cache, n)

\* A defect to catch: the entry stays where it is in the list.
GetInPlace(k) ==
    /\ k \in DOMAIN index
    /\ Uses(k, entry[index[k]][2])
    /\ UNCHANGED <<entry, cache, index>>

\* A key that is not cached is answered without a change.
Get(k) ==
    /\ k \in DOMAIN index
    /\ ToFront(index[k])
    /\ Uses(k, entry[index[k]][2])
    /\ UNCHANGED <<entry, index>>

\* Set, if k is cached.
Replace(k, v) ==
    /\ k \in DOMAIN index
    /\ ToFront(index[k])
    /\ entry' = [entry EXCEPT ![index[k]] = <<k, v>>]
    /\ Uses(k, v)
    /\ UNCHANGED index

\* If there is no room for one more entry the list loses its last one, and
\* before that the index the key of that one.
Full == Cardinality(DOMAIN index) = Capacity
Room == IF Full THEN Front(cache) ELSE cache
Lost == IF Full THEN {entry[Last(cache)][1]} ELSE {}

\* The function f on S, with k |-> x in addition.
With(f, S, k, x) == [j \in S \cup {k} |-> IF j = k THEN x ELSE f[j]]

\* A defect to catch: the key of the lost entry stays in the index.
AddUnindexed(k, v) ==
    /\ k \notin DOMAIN index
    /\ \E n \in Nodes \ ToSet(Room) :
          /\ cache' = <<n>> \o Room
          /\ entry' = With(entry, ToSet(Room), n, <<k, v>>)
          /\ index' = With(index, DOMAIN index, k, n)
    /\ Uses(k, v)

\* Set, if k is not cached; emplace_front gets memory anywhere.
Add(k, v) ==
    /\ k \notin DOMAIN index
    /\ \E n \in Nodes \ ToSet(Room) :
          /\ cache' = <<n>> \o Room
          /\ entry' = With(entry, ToSet(Room), n, <<k, v>>)
          /\ index' = With(index, DOMAIN index \ Lost, k, n)
    /\ Uses(k, v)

Next ==
    \E k \in Keys :
        \/ Get(k)
        \/ \E v \in Values : Replace(k, v) \/ Add(k, v)

Spec == Init /\ [][Next]_vars

-----------------------------------------------------------------------------
\* Type invariant; the list has no node twice.
TypeOK ==
    /\ cache \in Seq(Nodes) /\ IsInjective(cache)
    /\ entry \in [ToSet(cache) -> Keys \X Values]
    /\ DOMAIN index \subseteq Keys /\ \A k \in DOMAIN index : index[k] \in Nodes
    /\ used \in Seq(Keys \X Values)

\* The index leads from the key of each entry in the list to that entry, and
\* from nowhere else; there are as many as the cache has room for at most (Set
\* of lru.h).
IndexAgrees ==
    /\ Len(cache) <= Capacity
    /\ DOMAIN index = {entry[n][1] : n \in ToSet(cache)}
    /\ \A k \in DOMAIN index : index[k] \in ToSet(cache) /\ entry[index[k]][1] = k

\* The cache holds the keys used last, with the values set last, and has them
\* in that order (Get and Set of lru.h).
HoldsMostRecent ==
    [i \in DOMAIN cache |-> entry[cache[i]]] =
        SubSeq(used, 1, IF Len(used) < Capacity THEN Len(used) ELSE Capacity)
=============================================================================
