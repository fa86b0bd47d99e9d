----------------------------- MODULE LinearStack -----------------------------
(***************************************************************************)
(* What a concurrent stack promises: push and pop are linearizable         *)
(* operations on one stack.  An operation is called, takes effect in one   *)
(* atomic step (commits) and returns.  pop hands out the newest item, or   *)
(* says that there is none when there is none.                             *)
(***************************************************************************)
EXTENDS Naturals, Sequences

CONSTANTS Producers, Consumers, Nothing

VARIABLES items,    \* what is on the stack, newest first
          phase,    \* where each thread is: "idle", "called" or "committed"
          handed,   \* what each consumer's committed pop has returned
          pushing   \* what each producer's uncommitted push has been called with

vars == <<items, phase, handed, pushing>>

Init ==
    /\ items = <<>>
    /\ phase = [t \in Producers \cup Consumers |-> "idle"]
    /\ handed = [c \in Consumers |-> Nothing]
    /\ pushing = [p \in Producers |-> Nothing]

Move(t, from, to) == phase[t] = from /\ phase' = [phase EXCEPT ![t] = to]

CallPush(p) ==
    /\ Move(p, "idle", "called")
    /\ pushing' = [pushing EXCEPT ![p] = pushing'[p]] /\ pushing'[p] \in Nat
    /\ UNCHANGED <<items, handed>>

CommitPush(p) ==
    /\ Move(p, "called", "committed")
    /\ items' = <<pushing[p]>> \o items
    /\ pushing' = [pushing EXCEPT ![p] = Nothing]
    /\ UNCHANGED handed

ReturnPush(p) ==
    /\ Move(p, "committed", "idle")
    /\ UNCHANGED <<items, handed, pushing>>

CallPop(c) ==
    /\ Move(c, "idle", "called")
    /\ UNCHANGED <<items, handed, pushing>>

CommitPop(c) ==
    /\ Move(c, "called", "committed")
    /\ IF items = <<>>
       THEN UNCHANGED <<items, handed>>
       ELSE /\ handed' = [handed EXCEPT ![c] = Head(items)]
            /\ items' = Tail(items)
    /\ UNCHANGED pushing

ReturnPop(c) ==
    /\ Move(c, "committed", "idle")
    /\ handed' = [handed EXCEPT ![c] = Nothing]
    /\ UNCHANGED <<items, pushing>>

Next ==
    \/ \E p \in Producers : CallPush(p) \/ CommitPush(p) \/ ReturnPush(p)
    \/ \E c \in Consumers : CallPop(c) \/ CommitPop(c) \/ ReturnPop(c)

Spec == Init /\ [][Next]_vars
=============================================================================
