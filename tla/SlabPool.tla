------------------------------- MODULE SlabPool -------------------------------
(***************************************************************************)
(* naesala/container/slab_pool.h: a pool for one thread, with a list of    *)
(* the nodes in use and a list of the free ones.  Both are linked through  *)
(* next of the nodes, and back does not take a node off the first.         *)
(***************************************************************************)
EXTENDS Naturals, Sequences, FiniteSets, SequencesExt, Chains

CONSTANTS Nodes, Null

NodeAssumption == IsFiniteSet(Nodes) /\ Null \notin Nodes

VARIABLES next,      \* next of each node that new has made
          live,      \* _live
          free,      \* _free
          got,       \* history: the nodes clients have got
          returned,  \* history: those given back since, the last one first
          ever,      \* history: has a node ever been given back?
          deleted    \* the nodes the destructor deletes one after the other,
                     \* until it deletes one a second time

vars == <<next, live, free, got, returned, ever, deleted>>

Init ==
    /\ next = <<>>
    /\ live = Null /\ free = Null
    /\ got = {} /\ returned = <<>> /\ ever = FALSE
    /\ deleted = <<>>

Made  == DOMAIN next
Alive == deleted = <<>>

Linked(n, m) == next' = [x \in Made \cup {n} |-> IF x = n THEN m ELSE next[x]]

\* A defect to catch: the node is not taken off the free list.
GetKeepsFree(n) ==
    /\ Alive
    /\ IF free # Null THEN n = free ELSE n \in Nodes \ Made
    /\ Linked(n, live)
    /\ live' = n
    /\ got' = got \cup {n}
    /\ returned' = RemoveFirst(returned, n)
    /\ UNCHANGED <<free, ever, deleted>>

\* The first free node, or a new one.
Get(n) ==
    /\ Alive
    /\ IF free # Null THEN n = free /\ free' = next[n]
       ELSE n \in Nodes \ Made /\ UNCHANGED free
    /\ Linked(n, live)
    /\ live' = n
    /\ got' = got \cup {n}
    /\ returned' = RemoveFirst(returned, n)
    /\ UNCHANGED <<ever, deleted>>

Back(n) ==
    /\ Alive
    /\ n \in got
    /\ Linked(n, free)
    /\ free' = n
    /\ got' = got \ {n}
    /\ returned' = <<n>> \o returned
    /\ ever' = TRUE
    /\ UNCHANGED <<live, deleted>>

\* The nodes met from n on along next, up to the first that was met before.
Chain(n) == ChainFrom(n, next, Null)

\* The defect to catch: only the nodes in use are deleted.
DestroyLive ==
    /\ Alive /\ Made # {}
    /\ deleted' = Chain(live)
    /\ UNCHANGED <<next, live, free, got, returned, ever>>

\* The destructor.
Destroy ==
    /\ Alive /\ Made # {}
    /\ deleted' = Chain(live) \o Chain(free)
    /\ UNCHANGED <<next, live, free, got, returned, ever>>

Next == Destroy \/ \E n \in Nodes : Get(n) \/ Back(n)

Spec == Init /\ [][Next]_vars

-----------------------------------------------------------------------------
\* Type invariant; a node is in a client's hands or returned.
TypeOK ==
    /\ Made \subseteq Nodes /\ \A n \in Made : next[n] \in Made \cup {Null}
    /\ live \in Made \cup {Null} /\ free \in Made \cup {Null}
    /\ returned \in Seq(Made) /\ deleted \in Seq(Made)
    /\ got \cap ToSet(returned) = {} /\ got \cup ToSet(returned) = Made
    /\ ever \in BOOLEAN

\* The free list leads through the nodes that were given back and not got
\* again, each once, however the list of live nodes has been damaged (get and
\* back of slab_pool.h).
FreeIntact == Chain(free) = returned

\* The destructor deletes each node, and none twice, just when no node has ever
\* been given back: a node that was is on the list of live nodes, too (back and
\* ~SlabPool of slab_pool.h).
DeletedOnce ==
    deleted # <<>> => (IsInjective(deleted) /\ ToSet(deleted) = Made <=> ~ever)
=============================================================================
