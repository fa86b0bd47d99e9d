----------------------------- MODULE LinearQueue -----------------------------
(***************************************************************************)
(* What a concurrent unbounded queue promises: put and take are            *)
(* linearizable operations on one FIFO queue.  An operation is called,     *)
(* takes effect in one atomic step (commits) and returns.  take hands out  *)
(* the oldest item; it may say that there is none only if there was none   *)
(* at some moment since it was called.                                     *)
(***************************************************************************)
EXTENDS Naturals, Sequences

CONSTANTS Producers, Consumers, Nothing

VARIABLES items,     \* what is in the queue, oldest first
          phase,     \* where each thread is: "idle", "called" or "committed"
          handed,    \* what each consumer's committed take will return
          putting,   \* what each producer's uncommitted put has been called with
          sawEmpty   \* the consumers in a take during which the queue was empty

vars == <<items, phase, handed, putting, sawEmpty>>

Init ==
    /\ items = <<>>
    /\ phase = [t \in Producers \cup Consumers |-> "idle"]
    /\ handed = [c \in Consumers |-> Nothing]
    /\ putting = [p \in Producers |-> Nothing]
    /\ sawEmpty = {}

Move(t, from, to) == phase[t] = from /\ phase' = [phase EXCEPT ![t] = to]

CallPut(p) ==
    /\ Move(p, "idle", "called")
    /\ putting' = [putting EXCEPT ![p] = putting'[p]] /\ putting'[p] \in Nat
    /\ UNCHANGED <<items, handed, sawEmpty>>

CommitPut(p) ==
    /\ Move(p, "called", "committed")
    /\ items' = Append(items, putting[p])
    /\ putting' = [putting EXCEPT ![p] = Nothing]
    /\ UNCHANGED <<handed, sawEmpty>>

ReturnPut(p) ==
    /\ Move(p, "committed", "idle")
    /\ UNCHANGED <<items, handed, putting, sawEmpty>>

CallTake(c) ==
    /\ Move(c, "idle", "called")
    /\ sawEmpty' = IF items = <<>> THEN sawEmpty \cup {c} ELSE sawEmpty
    /\ UNCHANGED <<items, handed, putting>>

\* The last item's take lets every other take in progress see an empty queue.
CommitTake(c) ==
    /\ Move(c, "called", "committed")
    /\ items # <<>>
    /\ handed' = [handed EXCEPT ![c] = Head(items)]
    /\ items' = Tail(items)
    /\ sawEmpty' = (sawEmpty \ {c}) \cup
                     {d \in Consumers \ {c} : phase[d] = "called" /\ Tail(items) = <<>>}
    /\ UNCHANGED putting

ReturnTake(c) ==
    /\ Move(c, "committed", "idle")
    /\ handed' = [handed EXCEPT ![c] = Nothing]
    /\ UNCHANGED <<items, putting, sawEmpty>>

ReturnNothing(c) ==
    /\ Move(c, "called", "idle")
    /\ c \in sawEmpty
    /\ sawEmpty' = sawEmpty \ {c}
    /\ UNCHANGED <<items, handed, putting>>

Next ==
    \/ \E p \in Producers : CallPut(p) \/ CommitPut(p) \/ ReturnPut(p)
    \/ \E c \in Consumers :
          CallTake(c) \/ CommitTake(c) \/ ReturnTake(c) \/ ReturnNothing(c)

Spec == Init /\ [][Next]_vars
=============================================================================
