--------------------------- MODULE LockfreeClients ---------------------------
(***************************************************************************)
(* The threads of benchmark/main_lockfree.cpp, which use a lock-free stack *)
(* or list: a producer allocates a node, numbers it, sets the number's     *)
(* flag and hands the node over; a consumer that gets a node asserts that  *)
(* its flag is set, clears the flag and deletes the node.                  *)
(*                                                                         *)
(* The numbers start at 1: 0 stands for no number.  LockfreeStack and      *)
(* LockfreeList add the containers.                                        *)
(***************************************************************************)
EXTENDS CombinedPointers, FiniteSets, Sequences

LOCAL INSTANCE Functions

CONSTANTS Producers, Consumers,
          Quotas,                \* how many nodes each thread may be meant to
                                 \* hand over or to get
          Reuse,                 \* can new return the address of a deleted node?
          MaxSpurious            \* bound: how many weak exchanges fail for nothing

Threads == Producers \cup Consumers

ASSUME ClientAssumption ==
    /\ Producers \cap Consumers = {}
    /\ IsFiniteSet(Threads) /\ IsFiniteSet(Nodes)
    /\ Quotas \subseteq [Threads -> Nat] /\ MaxSpurious \in Nat
    /\ Reuse \in BOOLEAN

VARIABLES quota,      \* which of the Quotas
          memory,     \* each address: "fresh", "live" or "deleted"
          data,       \* the data field of each node
          count,      \* the number of the next node
          flags,      \* sets: the numbers whose flag is set
          done,       \* how many nodes each thread has handed over or got
          broken,     \* an assertion has failed
          spurious    \* how many exchanges have failed for nothing

heap   == <<memory, data>>
client == <<quota, count, flags, done, broken>>

ClientInit(allocated) ==
    /\ quota \in Quotas
    /\ memory = [n \in Nodes |-> IF n \in allocated THEN "live" ELSE "fresh"]
    /\ data = [n \in Nodes |-> 0]
    /\ count = 1
    /\ flags = {}
    /\ done = [t \in Threads |-> 0]
    /\ broken = FALSE
    /\ spurious = 0

Allocatable == {n \in Nodes : memory[n] = "fresh" \/ (Reuse /\ memory[n] = "deleted")}

\* new Node(), node->data = count.fetch_add(1), and the flag's test_and_set.
Make(n) ==
    /\ n \in Allocatable
    /\ memory' = [memory EXCEPT ![n] = "live"]
    /\ data' = [data EXCEPT ![n] = count]
    /\ count' = count + 1
    /\ broken' = (broken \/ count \in flags)
    /\ flags' = flags \cup {count}
    /\ UNCHANGED <<quota, done>>

\* The assertion on the flag, its clear() and the delete.
Consume(n) ==
    /\ broken' = (broken \/ data[n] \notin flags)
    /\ flags' = flags \ {data[n]}
    /\ memory' = [memory EXCEPT ![n] = "deleted"]
    /\ UNCHANGED <<data, count>>

Busy(t)  == done[t] < quota[t]
Count(t) == done' = [done EXCEPT ![t] = @ + 1] /\ UNCHANGED quota

\* How many nodes the threads leave in the container when they have finished.
LeftOver == SumFunctionOnSet(quota, Producers) - SumFunctionOnSet(quota, Consumers)

\* A weak exchange may fail although the word is as expected.
FailsForNothing == spurious < MaxSpurious /\ spurious' = spurious + 1

ClientTypeOK ==
    /\ memory \in [Nodes -> {"fresh", "live", "deleted"}]
    /\ data \in [Nodes -> Nat]
    /\ count \in Nat \ {0} /\ flags \subseteq 1..count - 1
    /\ done \in [Threads -> Nat]
    /\ broken \in BOOLEAN /\ spurious \in 0..MaxSpurious

\* The assertions of benchmark/main_lockfree.cpp hold: no node is handed out
\* twice (lines 101 and 121).
AssertionsHold == ~broken
=============================================================================
