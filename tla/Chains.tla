------------------------------- MODULE Chains -------------------------------
(***************************************************************************)
(* Nodes that are linked through a pointer each, as List of list.h and     *)
(* SlabPool of slab_pool.h link them: what their loops meet.               *)
(***************************************************************************)
EXTENDS Naturals, Sequences, FiniteSets

\* p is what one meets from n on when following succ: it ends with null, or with
\* the first node that was met before.
IsChain(p, n, succ, null) ==
    /\ IF p = <<>> THEN n = null ELSE p[1] = n
    /\ \A i \in 1..Len(p) - 1 : succ[p[i]] = p[i + 1]
    /\ \A i, j \in 1..Len(p) - 1 : p[i] = p[j] => i = j
    /\ p # <<>> => \/ succ[p[Len(p)]] = null
                   \/ \E i \in 1..Len(p) - 1 : p[i] = p[Len(p)]

\* It has at most one node more than there are.
ChainFrom(n, succ, null) ==
    LET nodes == DOMAIN succ
    IN  CHOOSE p \in UNION {[1..k -> nodes] : k \in 0..Cardinality(nodes) + 1} :
            IsChain(p, n, succ, null)
=============================================================================
