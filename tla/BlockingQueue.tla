---------------------------- MODULE BlockingQueue ----------------------------
(***************************************************************************)
(* What the four queues of naesala/blocking_queue share: a circular        *)
(* buffer, one mutex around every access to it, and put and take bodies    *)
(* that differ only in how a thread waits before and notifies after.       *)
(* ConditionQueue and SemaphoreQueue add the waiting and the notifying.    *)
(*                                                                         *)
(* The callers are those of benchmark/main_blocking_queue.cpp: a producer  *)
(* puts PutQuota items, a consumer takes TakeQuota items.  The k-th item   *)
(* of producer p is <<p, k>>, so every item is distinct.                   *)
(*                                                                         *)
(* A thread is at one of these places:                                     *)
(*   "idle"    outside put and take                                        *)
(*   "wait"    waiting for room or for an item                             *)
(*   "lock"    before locking the mutex                                    *)
(*   "check"   holding the mutex, before the test or assertion on _queue   *)
(*   "pop"     holding the mutex, the front element already copied         *)
(*   "unlock"  about to unlock the mutex                                   *)
(*   "signal"  the mutex released, the other side not yet notified         *)
(***************************************************************************)
EXTENDS CircularBuffer, FiniteSets

CONSTANTS Producers, Consumers,   \* the threads that put, and that take
          PutQuota, TakeQuota,    \* how many operations each performs
          NoThread                \* the owner of a free mutex

Threads == Producers \cup Consumers

ASSUME ThreadAssumption ==
    /\ Producers \cap Consumers = {}
    /\ NoThread \notin Threads
    /\ IsFiniteSet(Threads)

ASSUME QuotaAssumption == PutQuota \in Nat /\ TakeQuota \in Nat

VARIABLES mutex,   \* _mutex: its owner
          queue,   \* _queue
          pc,      \* where each thread is
          front,   \* take's local copy of the front element
          done,    \* how many operations each thread has completed
          got      \* history: the items each consumer has been handed

queueVars == <<mutex, queue, pc, front, done, got>>

Items  == Producers \X (Nat \ {0})
NoItem == <<>>
Quota(t) == IF t \in Producers THEN PutQuota ELSE TakeQuota
NextItem(p) == <<p, done[p] + 1>>
Goto(t, place) == pc' = [pc EXCEPT ![t] = place]

QueueInit ==
    /\ mutex = NoThread
    /\ queue = <<>>
    /\ pc = [t \in Threads |-> "idle"]
    /\ front = [c \in Consumers |-> NoItem]
    /\ done = [t \in Threads |-> 0]
    /\ got = [c \in Consumers |-> <<>>]

\* The client's loop calls put or take again; place is where the body begins.
Enter(t, place) ==
    /\ pc[t] = "idle"
    /\ done[t] < Quota(t)
    /\ Goto(t, place)
    /\ UNCHANGED <<mutex, queue, front, done, got>>

\* The thread gets the mutex.
Acquire(t) ==
    /\ mutex = NoThread
    /\ mutex' = t
    /\ Goto(t, "check")
    /\ UNCHANGED <<queue, front, done, got>>

\* A defect to catch: the mutex stays locked.
ReleaseForgotten(t) ==
    /\ pc[t] = "unlock"
    /\ Goto(t, "signal")
    /\ UNCHANGED <<mutex, queue, front, done, got>>

Release(t) ==
    /\ pc[t] = "unlock"
    /\ mutex' = NoThread
    /\ Goto(t, "signal")
    /\ UNCHANGED <<queue, front, done, got>>

\* A defect to catch: no test for room, so push_back drops the oldest item.
PushUnchecked(p) ==
    /\ pc[p] = "check"
    /\ queue' = PushBack(queue, NextItem(p))
    /\ Goto(p, "unlock")
    /\ UNCHANGED <<mutex, front, done, got>>

Push(p) ==
    /\ pc[p] = "check"
    /\ ~Full(queue)
    /\ queue' = PushBack(queue, NextItem(p))
    /\ Goto(p, "unlock")
    /\ UNCHANGED <<mutex, front, done, got>>

\* take copies the front element and only then pops it.
CopyFront(c) ==
    /\ pc[c] = "check"
    /\ ~Empty(queue)
    /\ front' = [front EXCEPT ![c] = Front(queue)]
    /\ Goto(c, "pop")
    /\ UNCHANGED <<mutex, queue, done, got>>

Pop(c) ==
    /\ pc[c] = "pop"
    /\ queue' = PopFront(queue)
    /\ got' = [got EXCEPT ![c] = Append(@, front[c])]
    /\ Goto(c, "unlock")
    /\ UNCHANGED <<mutex, front, done>>

\* put or take returns, and its local copy goes out of scope.
Leave(t) ==
    /\ pc[t] = "signal"
    /\ front' = [c \in Consumers |-> IF c = t THEN NoItem ELSE front[c]]
    /\ done' = [done EXCEPT ![t] = @ + 1]
    /\ Goto(t, "idle")
    /\ UNCHANGED <<mutex, queue, got>>

\* Every thread has done its share and can be joined.
Finished == \A t \in Threads : pc[t] = "idle" /\ done[t] = Quota(t)

-----------------------------------------------------------------------------
Places == {"idle", "wait", "lock", "check", "pop", "unlock", "signal"}

QueueTypeOK ==
    /\ mutex \in Threads \cup {NoThread}
    /\ queue \in Seq(Items)
    /\ Len(queue) <= Capacity
    /\ pc \in [Threads -> Places]
    /\ front \in [Consumers -> Items \cup {NoItem}]
    /\ done \in [Threads -> Nat]
    /\ got \in [Consumers -> Seq(Items)]

\* The threads of T that are at one of the given places.
At(T, places) == {t \in T : pc[t] \in places}

\* put and take are atomic operations on a bounded FIFO queue: they take effect
\* at push_back and at pop_front, whatever the interleaving.
Phase(t) == CASE pc[t] = "idle"                -> "idle"
              [] pc[t] \in {"unlock", "signal"} -> "committed"
              [] OTHER                         -> "called"

Fifo == INSTANCE BoundedFifo WITH buf <- queue,
                                  phase <- [t \in Threads |-> Phase(t)]
FifoSpec == Fifo!Spec
=============================================================================
