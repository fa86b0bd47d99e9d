---------------------------- MODULE IntrusiveList ----------------------------
(***************************************************************************)
(* naesala/container/list.h and list_node.h: a FIFO list linked through    *)
(* its nodes, which the client makes and owns before it pushes them and    *)
(* after it has popped them.  No list is appended to itself.               *)
(***************************************************************************)
EXTENDS Naturals, Sequences, FiniteSets, SequencesExt, Chains

CONSTANTS Lists, Nodes, Null

NodeAssumption == IsFiniteSet(Nodes) /\ Null \notin Nodes

VARIABLES start, end,   \* _start and _end of each list
          next,         \* next of each node
          destroyed,    \* the nodes destroyed so far
          dead,         \* the lists that were destroyed
          contents      \* history: the nodes each list holds, or held at its
                        \* end, the oldest first

vars == <<start, end, next, destroyed, dead, contents>>

Init ==
    /\ start = [l \in Lists |-> Null]
    /\ end = [l \in Lists |-> Null]
    /\ next = [n \in Nodes |-> Null]
    /\ destroyed = {}
    /\ dead = {}
    /\ contents = [l \in Lists |-> <<>>]

IsEmpty(l) == start[l] = Null

\* The nodes met from n on along next.
Chain(n) == ChainFrom(n, next, Null)

\* Those the client may push.
Owned == {n \in Nodes \ destroyed : \A l \in Lists : n \notin ToSet(contents[l])}

\* A defect to catch: the node keeps its old next.
PushUncleared(l, n) ==
    /\ l \notin dead /\ n \in Owned
    /\ next' = IF IsEmpty(l) THEN next ELSE [next EXCEPT ![end[l]] = n]
    /\ start' = [start EXCEPT ![l] = IF IsEmpty(l) THEN n ELSE @]
    /\ end' = [end EXCEPT ![l] = n]
    /\ contents' = [contents EXCEPT ![l] = Append(@, n)]
    /\ UNCHANGED <<destroyed, dead>>

Push(l, n) ==
    /\ l \notin dead /\ n \in Owned
    /\ next' = IF IsEmpty(l) THEN [next EXCEPT ![n] = Null]
               ELSE [next EXCEPT ![n] = Null, ![end[l]] = n]
    /\ start' = [start EXCEPT ![l] = IF IsEmpty(l) THEN n ELSE @]
    /\ end' = [end EXCEPT ![l] = n]
    /\ contents' = [contents EXCEPT ![l] = Append(@, n)]
    /\ UNCHANGED <<destroyed, dead>>

\* The client uses next of a node it owns for something else.
Scribble(n, m) ==
    /\ n \in Owned
    /\ next' = [next EXCEPT ![n] = m]
    /\ UNCHANGED <<start, end, destroyed, dead, contents>>

\* Moves the nodes of m behind those of l.
AppendList(l, m) ==
    /\ l \notin dead /\ m \notin dead
    /\ ~IsEmpty(m)
    /\ start' = [start EXCEPT ![l] = IF IsEmpty(l) THEN start[m] ELSE @, ![m] = Null]
    /\ next' = IF IsEmpty(l) THEN next ELSE [next EXCEPT ![end[l]] = start[m]]
    /\ end' = [end EXCEPT ![l] = end[m], ![m] = Null]
    /\ contents' = [contents EXCEPT ![l] = @ \o contents[m], ![m] = <<>>]
    /\ UNCHANGED <<destroyed, dead>>

\* A pop from an empty list answers null and changes nothing.
Pop(l) ==
    LET n == start[l] IN
    /\ l \notin dead
    /\ ~IsEmpty(l)
    /\ start' = [start EXCEPT ![l] = next[n]]
    /\ end' = [end EXCEPT ![l] = IF next[n] = Null THEN Null ELSE @]
    /\ next' = [next EXCEPT ![n] = Null]
    /\ contents' = [contents EXCEPT ![l] = Tail(@)]
    /\ UNCHANGED <<destroyed, dead>>

\* A defect to catch: the node that is popped and destroyed is kept, the rest
\* is destroyed.
DestroyFromSecond(l) ==
    /\ l \notin dead
    /\ dead' = dead \cup {l}
    /\ destroyed' = destroyed \cup {n \in ToSet(Chain(start[l])) : n # start[l]}
    /\ UNCHANGED <<start, end, next, contents>>

\* The destructor pops and destroys until _start equals _end: until the list
\* is empty or has one node.
Destroy(l) ==
    /\ l \notin dead
    /\ dead' = dead \cup {l}
    /\ destroyed' = destroyed \cup {n \in ToSet(Chain(start[l])) : n # end[l]}
    /\ start' = [start EXCEPT ![l] = end[l]]
    /\ next' = [n \in Nodes |-> IF n \in destroyed' \ destroyed THEN Null ELSE next[n]]
    /\ UNCHANGED <<end, contents>>

Next ==
    \E l \in Lists :
        \/ Pop(l) \/ Destroy(l)
        \/ \E m \in Lists \ {l} : AppendList(l, m)
        \/ \E n \in Nodes : Push(l, n) \/ (\E m \in Nodes : Scribble(n, m))

Spec == Init /\ [][Next]_vars

-----------------------------------------------------------------------------
\* Type invariant; no node is in two lists, or twice in one, or in a list and
\* destroyed by another.
TypeOK ==
    /\ start \in [Lists -> Nodes \cup {Null}] /\ end \in [Lists -> Nodes \cup {Null}]
    /\ next \in [Nodes -> Nodes \cup {Null}]
    /\ destroyed \subseteq Nodes /\ dead \subseteq Lists
    /\ contents \in [Lists -> Seq(Nodes)]
    /\ \A l \in Lists : IsInjective(contents[l])
    /\ \A l, m \in Lists : l # m => ToSet(contents[l]) \cap ToSet(contents[m]) = {}

\* Following next from _start meets what was pushed and appended and not popped
\* yet, in that order, and _end is the last of it (push, append and pop of
\* list.h).
ChainsIntact ==
    \A l \in Lists \ dead :
        /\ Chain(start[l]) = contents[l]
        /\ end[l] = IF contents[l] = <<>> THEN Null ELSE Last(contents[l])

\* The destructor destroys what is in the list except for its last node, which
\* nobody can reach any more, and nothing else (~List of list.h).
LastIsLeft ==
    destroyed = UNION {ToSet(Front(contents[l])) : l \in {d \in dead : contents[d] # <<>>}}
=============================================================================
