----------------------------- MODULE BoundedFifo -----------------------------
(***************************************************************************)
(* What the blocking queues promise their callers: put and take are        *)
(* linearizable operations on one FIFO queue of at most Capacity items.    *)
(* An operation is called, takes effect in one atomic step (commits) while *)
(* its caller is inside it, and returns.  put commits only while there is  *)
(* room, take only while there is an item, and take hands its caller the   *)
(* oldest item.                                                            *)
(*                                                                         *)
(* The callers are those of benchmark/main_blocking_queue.cpp: a producer  *)
(* puts PutQuota items, a consumer takes TakeQuota items.  The k-th item   *)
(* of producer p is <<p, k>>, so every item is distinct.                   *)
(***************************************************************************)
EXTENDS Naturals, Sequences

CONSTANTS Producers, Consumers, Capacity, PutQuota, TakeQuota

VARIABLES buf,     \* the items in the queue, oldest first
          phase,   \* where each thread is: "idle", "called" or "committed"
          done,    \* how many operations each thread has completed
          got      \* the items each consumer has been handed, in order

vars == <<buf, phase, done, got>>

Threads == Producers \cup Consumers
Quota(t) == IF t \in Producers THEN PutQuota ELSE TakeQuota

Init ==
    /\ buf = <<>>
    /\ phase = [t \in Threads |-> "idle"]
    /\ done = [t \in Threads |-> 0]
    /\ got = [c \in Consumers |-> <<>>]

Call(t) ==
    /\ phase[t] = "idle"
    /\ done[t] < Quota(t)
    /\ phase' = [phase EXCEPT ![t] = "called"]
    /\ UNCHANGED <<buf, done, got>>

CommitPut(p) ==
    /\ phase[p] = "called"
    /\ Len(buf) < Capacity
    /\ buf' = Append(buf, <<p, done[p] + 1>>)
    /\ phase' = [phase EXCEPT ![p] = "committed"]
    /\ UNCHANGED <<done, got>>

CommitTake(c) ==
    /\ phase[c] = "called"
    /\ buf # <<>>
    /\ got' = [got EXCEPT ![c] = Append(@, Head(buf))]
    /\ buf' = Tail(buf)
    /\ phase' = [phase EXCEPT ![c] = "committed"]
    /\ UNCHANGED done

Return(t) ==
    /\ phase[t] = "committed"
    /\ phase' = [phase EXCEPT ![t] = "idle"]
    /\ done' = [done EXCEPT ![t] = @ + 1]
    /\ UNCHANGED <<buf, got>>

Next ==
    \/ \E t \in Threads : Call(t) \/ Return(t)
    \/ \E p \in Producers : CommitPut(p)
    \/ \E c \in Consumers : CommitTake(c)

Spec == Init /\ [][Next]_vars
=============================================================================
