--------------------------- MODULE CircularBuffer ---------------------------
(***************************************************************************)
(* boost::circular_buffer<Task> as the four blocking queues of             *)
(* naesala/blocking_queue use it: a sequence of at most Capacity elements  *)
(* whose push_back drops the oldest element when the buffer is full.       *)
(* The library is not part of the repository; only the operations the      *)
(* queues call are modelled.                                               *)
(***************************************************************************)
EXTENDS Naturals, Sequences

CONSTANT Capacity   \* the constructor's max_size

\* A capacity of 0 makes full() and empty() both true: every put and every
\* take would block for ever, so no client uses it.
ASSUME CapacityAssumption == Capacity \in Nat \ {0}

Full(q)  == Len(q) = Capacity
Empty(q) == q = <<>>

\* push_back overwrites the element at the front when there is no room.
PushBack(q, x) == IF Full(q) THEN Append(Tail(q), x) ELSE Append(q, x)
PopFront(q)    == Tail(q)
Front(q)       == Head(q)
=============================================================================
