--------------------------- MODULE SemaphoreQueue ---------------------------
(***************************************************************************)
(* naesala/blocking_queue/semaphore_bounded_blocking_queue.h: the queue    *)
(* whose threads take a permit from a counting semaphore for each side     *)
(* before they touch the buffer, and give the other side one afterwards.   *)
(* cplus_semaphore_bounded_blocking_queue.h has the same control.          *)
(*                                                                         *)
(* put and take ignore the result of sem_wait.  When a signal handler      *)
(* interrupts it, sem_wait returns without a permit and the body goes on;  *)
(* the assertion on _queue then stops the program if there is no room (no  *)
(* item) after all.  The build defines no NDEBUG, so it is compiled in.    *)
(***************************************************************************)
EXTENDS BlockingQueue

CONSTANT MaxInterrupts   \* bound: how many waits a signal interrupts

ASSUME InterruptAssumption == MaxInterrupts \in Nat

VARIABLES notFull,       \* the permits of _not_full
          notEmpty,      \* the permits of _not_empty
          cutPuts,       \* how many waits in put were interrupted
          cutTakes,      \* how many waits in take were interrupted
          aborted        \* an assertion has stopped the program

semVars == <<notFull, notEmpty, cutPuts, cutTakes, aborted>>
vars == <<queueVars, semVars>>

Init ==
    /\ QueueInit
    /\ notFull = Capacity
    /\ notEmpty = 0
    /\ cutPuts = 0
    /\ cutTakes = 0
    /\ aborted = FALSE

Call(t) == Enter(t, "wait") /\ UNCHANGED semVars

\* The wait is over, with or without a permit.
WaitReturns(t) ==
    /\ pc[t] = "wait"
    /\ Goto(t, "lock")
    /\ UNCHANGED <<mutex, queue, front, done, got, aborted>>

\* A defect to catch: put does not wait for a permit.
PutWaitUnchecked(p) ==
    /\ WaitReturns(p)
    /\ notFull' = notFull - 1
    /\ UNCHANGED <<notEmpty, cutPuts, cutTakes>>

PutWait(p) ==
    /\ WaitReturns(p)
    /\ notFull > 0
    /\ notFull' = notFull - 1
    /\ UNCHANGED <<notEmpty, cutPuts, cutTakes>>

\* sem_wait fails with EINTR; only a waiting thread, one without a permit to
\* take, can be interrupted.
PutWaitInterrupted(p) ==
    /\ WaitReturns(p)
    /\ notFull = 0
    /\ cutPuts + cutTakes < MaxInterrupts
    /\ cutPuts' = cutPuts + 1
    /\ UNCHANGED <<notFull, notEmpty, cutTakes>>

TakeWait(c) ==
    /\ WaitReturns(c)
    /\ notEmpty > 0
    /\ notEmpty' = notEmpty - 1
    /\ UNCHANGED <<notFull, cutPuts, cutTakes>>

TakeWaitInterrupted(c) ==
    /\ WaitReturns(c)
    /\ notEmpty = 0
    /\ cutPuts + cutTakes < MaxInterrupts
    /\ cutTakes' = cutTakes + 1
    /\ UNCHANGED <<notFull, notEmpty, cutPuts>>

Lock(t) == pc[t] = "lock" /\ Acquire(t) /\ UNCHANGED semVars

Unlock(t) == Release(t) /\ UNCHANGED semVars

\* assert(!_queue.full()) in put and assert(!_queue.empty()) in take.
AssertionFails(t) ==
    /\ pc[t] = "check"
    /\ IF t \in Producers THEN Full(queue) ELSE Empty(queue)
    /\ aborted' = TRUE
    /\ UNCHANGED <<queueVars, notFull, notEmpty, cutPuts, cutTakes>>

PutPush(p) == Push(p) /\ UNCHANGED semVars

TakeFront(c) == CopyFront(c) /\ UNCHANGED semVars

TakePop(c) == Pop(c) /\ UNCHANGED semVars

\* A defect to catch: put gives the permit back to its own side.
PutPostSwapped(p) ==
    /\ Leave(p)
    /\ notFull' = notFull + 1
    /\ UNCHANGED <<notEmpty, cutPuts, cutTakes, aborted>>

PutPost(p) ==
    /\ Leave(p)
    /\ notEmpty' = notEmpty + 1
    /\ UNCHANGED <<notFull, cutPuts, cutTakes, aborted>>

TakePost(c) ==
    /\ Leave(c)
    /\ notFull' = notFull + 1
    /\ UNCHANGED <<notEmpty, cutPuts, cutTakes, aborted>>

Next ==
    /\ ~aborted
    /\ \/ \E t \in Threads : Call(t) \/ Lock(t) \/ Unlock(t) \/ AssertionFails(t)
       \/ \E p \in Producers :
             PutWait(p) \/ PutWaitInterrupted(p) \/ PutPush(p) \/ PutPost(p)
       \/ \E c \in Consumers :
             \/ TakeWait(c) \/ TakeWaitInterrupted(c)
             \/ TakeFront(c) \/ TakePop(c) \/ TakePost(c)

Spec == Init /\ [][Next]_vars

\* The operating system keeps running some thread that can run.
FairSpec == Spec /\ WF_vars(Next)

-----------------------------------------------------------------------------
\* Type invariant.
TypeOK ==
    /\ QueueTypeOK
    /\ notFull \in Nat
    /\ notEmpty \in Nat
    /\ cutPuts \in 0..MaxInterrupts
    /\ cutTakes \in 0..MaxInterrupts
    /\ aborted \in BOOLEAN

\* Every slot of the buffer is accounted for by a permit, an item, a producer
\* past its wait or a consumer that has yet to post, and every item by a
\* permit, a producer that has yet to post or a consumer past its wait (put and
\* take of semaphore_bounded_blocking_queue.h).  Each interrupted wait puts one
\* slot or item too many into circulation, for good.
PermitsConserved ==
    /\ notFull + Len(queue) + Cardinality(At(Producers, {"lock", "check"}))
         + Cardinality(At(Consumers, {"unlock", "signal"})) = Capacity + cutPuts
    /\ notEmpty + Cardinality(At(Producers, {"unlock", "signal"}))
         + Cardinality(At(Consumers, {"lock", "check", "pop"}))
         = Len(queue) + cutTakes

\* The assertions of put (line 29) and take (line 38) hold.
AssertionsHold == ~aborted

\* An assertion of put or take can fail only after an interrupted wait.
AbortsAreInterrupted == aborted => cutPuts + cutTakes > 0

\* When as much is put as is taken every put and every take returns, and the
\* queue is empty at the end (the joins of benchmark/main_blocking_queue.cpp),
\* unless an assertion stops the program: an interruption makes nobody wait.
Termination == <>(aborted \/ (Finished /\ queue = <<>>))
=============================================================================
