--------------------------- MODULE ConditionQueue ---------------------------
(***************************************************************************)
(* naesala/blocking_queue/condition_bounded_blocking_queue.h: the queue    *)
(* whose threads wait on a condition variable for each side.               *)
(* cplus_condition_bounded_blocking_queue.h has the same control: its      *)
(* wait(mg, pred) is the while loop written out here.                      *)
(*                                                                         *)
(* A thread in "wait" sleeps while it is in its condition variable's set   *)
(* and competes for the mutex once it is not.                              *)
(***************************************************************************)
EXTENDS BlockingQueue

CONSTANT MaxSpurious   \* bound: how many spurious wakeups happen

ASSUME SpuriousAssumption == MaxSpurious \in Nat

VARIABLES notFull,    \* the threads asleep on _not_full
          notEmpty,   \* the threads asleep on _not_empty
          spurious    \* how many spurious wakeups have happened

condVars == <<notFull, notEmpty, spurious>>
vars == <<queueVars, condVars>>

Init ==
    /\ QueueInit
    /\ notFull = {}
    /\ notEmpty = {}
    /\ spurious = 0

Asleep == notFull \cup notEmpty

Call(t) == Enter(t, "lock") /\ UNCHANGED condVars

\* pthread_mutex_lock, or the re-acquisition at the end of pthread_cond_wait.
Lock(t) ==
    /\ pc[t] = "lock" \/ (pc[t] = "wait" /\ t \notin Asleep)
    /\ Acquire(t)
    /\ UNCHANGED condVars

Unlock(t) == Release(t) /\ UNCHANGED condVars

\* pthread_cond_wait releases the mutex and sleeps, in one step.
Sleep(t) ==
    /\ pc[t] = "check"
    /\ mutex' = NoThread
    /\ Goto(t, "wait")
    /\ UNCHANGED <<queue, front, done, got, spurious>>

\* pthread_cond_wait may return although nobody signalled.
SpuriousWakeup(t) ==
    /\ t \in Asleep
    /\ spurious < MaxSpurious
    /\ spurious' = spurious + 1
    /\ notFull' = notFull \ {t}
    /\ notEmpty' = notEmpty \ {t}
    /\ UNCHANGED queueVars

\* The sets of sleepers pthread_cond_signal can leave behind: it wakes one of
\* them, any one, and does nothing when nobody sleeps.
AfterSignal(sleepers) ==
    IF sleepers = {} THEN {{}} ELSE {sleepers \ {t} : t \in sleepers}

\* A defect to catch: put waits on the wrong condition variable.
PutWaitSwapped(p) ==
    /\ Sleep(p)
    /\ Full(queue)
    /\ notEmpty' = notEmpty \cup {p}
    /\ UNCHANGED notFull

PutWait(p) ==
    /\ Sleep(p)
    /\ Full(queue)
    /\ notFull' = notFull \cup {p}
    /\ UNCHANGED notEmpty

PutPush(p) == Push(p) /\ UNCHANGED condVars

\* A defect to catch: put signals only when the queue was empty before.
PutSignalOnFirst(p) ==
    /\ Leave(p)
    /\ notEmpty' \in IF Len(queue) = 1 THEN AfterSignal(notEmpty) ELSE {notEmpty}
    /\ UNCHANGED <<notFull, spurious>>

\* The signal is sent after the mutex is released, as put returns.
PutSignal(p) ==
    /\ Leave(p)
    /\ notEmpty' \in AfterSignal(notEmpty)
    /\ UNCHANGED <<notFull, spurious>>

TakeWait(c) ==
    /\ Sleep(c)
    /\ Empty(queue)
    /\ notEmpty' = notEmpty \cup {c}
    /\ UNCHANGED notFull

TakeFront(c) == CopyFront(c) /\ UNCHANGED condVars

TakePop(c) == Pop(c) /\ UNCHANGED condVars

TakeSignal(c) ==
    /\ Leave(c)
    /\ notFull' \in AfterSignal(notFull)
    /\ UNCHANGED <<notEmpty, spurious>>

Next ==
    \/ \E t \in Threads : Call(t) \/ Lock(t) \/ Unlock(t) \/ SpuriousWakeup(t)
    \/ \E p \in Producers : PutWait(p) \/ PutPush(p) \/ PutSignal(p)
    \/ \E c \in Consumers :
          TakeWait(c) \/ TakeFront(c) \/ TakePop(c) \/ TakeSignal(c)

Spec == Init /\ [][Next]_vars

\* The operating system keeps running some thread that can run.
FairSpec == Spec /\ WF_vars(Next)

-----------------------------------------------------------------------------
\* Type invariant; a thread sleeps only on the condition variable of its side.
TypeOK ==
    /\ QueueTypeOK
    /\ notFull \in SUBSET Producers
    /\ notEmpty \in SUBSET Consumers
    /\ spurious \in 0..MaxSpurious

\* The threads on their way to a push (a pop) that nobody has to wake first.
AwakeProducers == At(Producers, {"lock", "check", "wait"}) \ notFull
AwakeConsumers == At(Consumers, {"lock", "check", "wait", "pop"}) \ notEmpty

\* The threads that have pushed (popped) and still owe a signal.
Owing(T) == At(T, {"unlock", "signal"})

\* No wakeup is lost although signals are sent outside the mutex and wake only
\* one thread (put and take of condition_bounded_blocking_queue.h): while a
\* consumer sleeps, every queued item has a thread on its way to it (an awake
\* consumer, or a producer that has yet to signal), and while a producer
\* sleeps, so has every free slot.
NoLostWakeup ==
    /\ notEmpty # {} =>
         Len(queue) <= Cardinality(AwakeConsumers) + Cardinality(Owing(Producers))
    /\ notFull # {} =>
         Capacity - Len(queue)
           <= Cardinality(AwakeProducers) + Cardinality(Owing(Consumers))

\* When as much is put as is taken every put and every take returns, and the
\* queue is empty at the end (the joins of benchmark/main_blocking_queue.cpp).
Termination == <>(Finished /\ queue = <<>>)
=============================================================================
