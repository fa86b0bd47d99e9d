------------------------------- MODULE Barrier -------------------------------
(***************************************************************************)
(* naesala/common/barrier.h: the threads that call await wait until as     *)
(* many have called it as the barrier has parties.  A barrier serves once. *)
(*                                                                         *)
(* await holds the mutex except while it waits, and wait releases it and   *)
(* sleeps in one step: each action is a critical section.                  *)
(***************************************************************************)
EXTENDS Integers, FiniteSets

CONSTANTS Threads,      \* the threads, each of which calls await once
          PartyCounts,  \* the constructor's arguments in use
          Word,         \* how many values a uint32_t has
          MaxSpurious   \* bound: how many spurious wakeups happen

ASSUME BarrierAssumption ==
    /\ IsFiniteSet(Threads)
    /\ Word \in Nat /\ PartyCounts \subseteq 1..Word - 1
    /\ MaxSpurious \in Nat

VARIABLES needed,     \* the constructor's argument
          parties,    \* _parties
          pc,         \* where each thread is: "before", "waiting" or "passed"
          asleep,     \* the threads asleep on _cond
          spurious    \* how many spurious wakeups have happened

vars == <<needed, parties, pc, asleep, spurious>>

Init ==
    /\ needed \in PartyCounts
    /\ parties = needed
    /\ pc = [t \in Threads |-> "before"]
    /\ asleep = {}
    /\ spurious = 0

Goto(t, place) == pc' = [pc EXCEPT ![t] = place]

\* --_parties, which is unsigned.
Decremented == IF parties = 0 THEN Word - 1 ELSE parties - 1

\* A defect to catch: the last party wakes one thread only.
ArriveNotifyOne(t) ==
    /\ pc[t] = "before"
    /\ parties' = Decremented
    /\ IF parties' = 0
       THEN /\ Goto(t, "passed")
            /\ \E woken \in SUBSET asleep :
                  /\ Cardinality(woken) = (IF asleep = {} THEN 0 ELSE 1)
                  /\ asleep' = asleep \ woken
       ELSE Goto(t, "waiting") /\ asleep' = asleep \cup {t}
    /\ UNCHANGED <<needed, spurious>>

\* A defect to catch: a signed counter.
ArriveSigned(t) ==
    /\ pc[t] = "before"
    /\ parties' = parties - 1
    /\ IF parties' = 0
       THEN Goto(t, "passed") /\ asleep' = {}
       ELSE Goto(t, "waiting") /\ asleep' = asleep \cup {t}
    /\ UNCHANGED <<needed, spurious>>

\* The last party wakes all the others and returns; each other one waits.
Arrive(t) ==
    /\ pc[t] = "before"
    /\ parties' = Decremented
    /\ IF parties' = 0
       THEN Goto(t, "passed") /\ asleep' = {}
       ELSE Goto(t, "waiting") /\ asleep' = asleep \cup {t}
    /\ UNCHANGED <<needed, spurious>>

SpuriousWakeup(t) ==
    /\ t \in asleep
    /\ spurious < MaxSpurious
    /\ spurious' = spurious + 1
    /\ asleep' = asleep \ {t}
    /\ UNCHANGED <<needed, parties, pc>>

\* A defect to catch: a woken thread goes on without looking at the counter.
ResumeUnchecked(t) ==
    /\ pc[t] = "waiting" /\ t \notin asleep
    /\ Goto(t, "passed")
    /\ UNCHANGED <<needed, parties, asleep, spurious>>

\* A woken thread has the mutex again: it returns, or sleeps on.
Resume(t) ==
    /\ pc[t] = "waiting" /\ t \notin asleep
    /\ IF parties = 0
       THEN Goto(t, "passed") /\ UNCHANGED asleep
       ELSE UNCHANGED pc /\ asleep' = asleep \cup {t}
    /\ UNCHANGED <<needed, parties, spurious>>

Next == \E t \in Threads : Arrive(t) \/ SpuriousWakeup(t) \/ Resume(t)

Spec == Init /\ [][Next]_vars

\* The operating system keeps running some thread that can run.
FairSpec == Spec /\ WF_vars(Next)

-----------------------------------------------------------------------------
At(place) == {t \in Threads : pc[t] = place}
Arrived   == At("waiting") \cup At("passed")

\* Type invariant; the counter keeps its width.
TypeOK ==
    /\ needed \in PartyCounts
    /\ parties \in 0..Word - 1
    /\ pc \in [Threads -> {"before", "waiting", "passed"}]
    /\ asleep \subseteq At("waiting")
    /\ spurious \in 0..MaxSpurious

\* Nobody passes the barrier before every party has called await (await of
\* barrier.h).
NobodyEarly ==
    At("passed") # {} => Cardinality(Arrived) >= needed

\* Everybody passes when there are as many threads as parties, although only
\* the last one notifies, and once (await of barrier.h; the threads of
\* benchmark/main_lockfree.cpp).
EverybodyPasses ==
    needed = Cardinality(Threads) => <>(At("passed") = Threads)
=============================================================================
