------------------------ MODULE SemaphoreQueueProofs ------------------------
(***************************************************************************)
(* Theorems about SemaphoreQueue, for any number of producers and          *)
(* consumers, any capacity, any quotas and any number of interrupted       *)
(* waits; the last one for programs none of whose waits is interrupted.    *)
(***************************************************************************)
EXTENDS SemaphoreQueue, BlockingQueueProofs

\* Every step of the queue is a step of the shared bodies, or leaves their
\* state alone.
LEMMA NextIsBodyNext == [Next]_vars => [BodyNext]_queueVars
  <1> SUFFICES ASSUME [Next]_vars PROVE [BodyNext]_queueVars
    OBVIOUS
  <1>1. CASE UNCHANGED vars
    BY <1>1 DEF vars
  <1>2. ASSUME NEW t \in Threads, Call(t) \/ Lock(t) \/ Unlock(t)
        PROVE  BodyNext
    BY <1>2 DEF Call, Lock, Unlock, BodyNext, BodyStep
  <1>3. ASSUME NEW t \in Threads, AssertionFails(t) PROVE UNCHANGED queueVars
    BY <1>3 DEF AssertionFails
  <1>4. ASSUME NEW p \in Producers,
               PutWait(p) \/ PutWaitInterrupted(p) \/ PutPush(p) \/ PutPost(p)
        PROVE  BodyNext
    BY <1>4 DEF PutWait, PutWaitInterrupted, WaitReturns, Admit, PutPush, PutPost,
                BodyNext, BodyStep, Threads
  <1>5. ASSUME NEW c \in Consumers,
               \/ TakeWait(c) \/ TakeWaitInterrupted(c)
               \/ TakeFront(c) \/ TakePop(c) \/ TakePost(c)
        PROVE  BodyNext
    BY <1>5 DEF TakeWait, TakeWaitInterrupted, WaitReturns, Admit, TakeFront, TakePop,
                TakePost, BodyNext, BodyStep, Threads
  <1> QED
    BY <1>1, <1>2, <1>3, <1>4, <1>5 DEF Next

\* The permits and the counts of interrupted waits stay in type.
CountersOK ==
    /\ notFull \in Nat /\ notEmpty \in Nat
    /\ cutPuts \in Nat /\ cutTakes \in Nat
    /\ cutPuts + cutTakes <= MaxInterrupts

AbortedOK == aborted \in BOOLEAN

LEMMA NextAborted == AbortedOK /\ [Next]_vars => AbortedOK'
  BY DEF AbortedOK, Next, vars, semVars, Call, Lock, Unlock, AssertionFails, PutWait,
         PutWaitInterrupted, WaitReturns, PutPush, PutPost, TakeWait,
         TakeWaitInterrupted, TakeFront, TakePop, TakePost

LEMMA NextCounters == CountersOK /\ [Next]_vars => CountersOK'
  <1> SUFFICES ASSUME CountersOK, [Next]_vars PROVE CountersOK'
    OBVIOUS
  <1> USE InterruptAssumption DEF CountersOK
  <1>1. CASE UNCHANGED vars
    BY <1>1 DEF vars, semVars
  <1>2. ASSUME NEW t \in Threads, Call(t) \/ Lock(t) \/ Unlock(t) \/ AssertionFails(t)
        PROVE  CountersOK'
    BY <1>2 DEF Call, Lock, Unlock, AssertionFails, semVars
  <1>3. ASSUME NEW p \in Producers,
               PutWait(p) \/ PutWaitInterrupted(p) \/ PutPush(p) \/ PutPost(p)
        PROVE  CountersOK'
    BY <1>3 DEF PutWait, PutWaitInterrupted, WaitReturns, PutPush, PutPost, semVars
  <1>4. ASSUME NEW c \in Consumers,
               \/ TakeWait(c) \/ TakeWaitInterrupted(c)
               \/ TakeFront(c) \/ TakePop(c) \/ TakePost(c)
        PROVE  CountersOK'
    BY <1>4 DEF TakeWait, TakeWaitInterrupted, WaitReturns, TakeFront, TakePop,
                TakePost, semVars
  <1> QED
    BY <1>1, <1>2, <1>3, <1>4 DEF Next

-----------------------------------------------------------------------------
\* The inductive invariant: the shared one, and the account of the permits.
IInv == QueueInv /\ CountersOK /\ AbortedOK /\ PermitsConserved

LEMMA InitIInv == Init => IInv
  <1> SUFFICES ASSUME Init PROVE IInv
    OBVIOUS
  <1>1. QueueInv
    BY BodyInit DEF Init
  <1>2. CountersOK
    BY CapacityAssumption, InterruptAssumption DEF Init, CountersOK
  <1>3. AbortedOK
    BY DEF Init, AbortedOK
  <1>4. \A T \in SUBSET Threads : \A S : "idle" \notin S => At(T, S) = {}
    BY DEF Init, QueueInit, At
  <1>5. /\ At(Producers, {"lock", "check"}) = {}
        /\ At(Consumers, {"unlock", "signal"}) = {}
        /\ At(Producers, {"unlock", "signal"}) = {}
        /\ At(Consumers, {"lock", "check", "pop"}) = {}
    BY <1>4 DEF Threads
  <1>6. PermitsConserved
    <2>1. Cardinality({}) = 0
      BY FS_EmptySet
    <2>2. Len(queue) = 0 /\ notFull = Capacity /\ notEmpty = 0 /\ cutPuts = 0 /\ cutTakes = 0
      BY DEF Init, QueueInit
    <2>3. /\ Cardinality(At(Producers, {"lock", "check"})) = 0
          /\ Cardinality(At(Consumers, {"unlock", "signal"})) = 0
          /\ Cardinality(At(Producers, {"unlock", "signal"})) = 0
          /\ Cardinality(At(Consumers, {"lock", "check", "pop"})) = 0
      BY <1>5, <2>1
    <2> QED
      BY <2>2, <2>3, CapacityAssumption DEF PermitsConserved
  <1> QED
    BY <1>1, <1>2, <1>3, <1>6 DEF IInv

\* The four counts of PermitsConserved are numbers.
LEMMA CountsAreNat ==
  ASSUME NEW T \in SUBSET Threads, NEW S
  PROVE  Cardinality(At(T, S)) \in Nat
  BY ThreadAssumption, FS_Subset, FS_CardinalityType DEF At

\* The moves that none of the four counts sees.
Quiet == {<<"idle", "wait">>, <<"lock", "check">>, <<"unlock", "signal">>}

\* Each step moves one unit between two terms of each sum.
LEMMA NextPermits == IInv /\ [Next]_vars => PermitsConserved'
  <1> SUFFICES ASSUME IInv, [Next]_vars PROVE PermitsConserved'
    OBVIOUS
  <1> DEFINE Entering == Cardinality(At(Producers, {"lock", "check"}))
             Returned == Cardinality(At(Consumers, {"unlock", "signal"}))
             Filled   == Cardinality(At(Producers, {"unlock", "signal"}))
             Taking   == Cardinality(At(Consumers, {"lock", "check", "pop"}))
  <1>1. /\ QueueTypeOK /\ CountersOK /\ pc \in [Threads -> Places]
        /\ queue \in Seq(Items) /\ Len(queue) \in Nat
        /\ notFull + Len(queue) + Entering + Returned = Capacity + cutPuts
        /\ notEmpty + Filled + Taking = Len(queue) + cutTakes
        /\ Capacity \in Nat
    BY CapacityAssumption DEF IInv, QueueInv, QueueTypeOK, PermitsConserved
  <1>2. Producers \in SUBSET Threads /\ Consumers \in SUBSET Threads
    BY DEF Threads
  <1>3. Entering \in Nat /\ Returned \in Nat /\ Filled \in Nat /\ Taking \in Nat
    BY <1>2, CountsAreNat
  <1> DEFINE Sums == /\ notFull + Len(queue) + Entering + Returned = Capacity + cutPuts
                     /\ notEmpty + Filled + Taking = Len(queue) + cutTakes
  <1> HIDE DEF Entering, Returned, Filled, Taking
  <1>4. CASE UNCHANGED vars
    BY <1>1, <1>4 DEF vars, queueVars, semVars, At, PermitsConserved, Entering, Returned, Filled, Taking
  <1>5. SUFFICES ASSUME Next PROVE Sums'
    BY <1>4 DEF PermitsConserved, Entering, Returned, Filled, Taking
  <1> USE DEF Places
  <1>6. pc \in [Threads -> Places]
    BY <1>1
  <1>7. ASSUME NEW p \in Producers, NEW place \in Places, Goto(p, place)
        PROVE  /\ Returned' = Returned /\ Taking' = Taking
               /\ pc[p] = "wait" /\ place = "lock"
                    => Entering' = Entering + 1 /\ Filled' = Filled
               /\ pc[p] = "check" /\ place = "unlock"
                    => Entering' = Entering - 1 /\ Filled' = Filled + 1
               /\ pc[p] = "signal" /\ place = "idle"
                    => Entering' = Entering /\ Filled' = Filled - 1
               /\ <<pc[p], place>> \in Quiet
                    => Entering' = Entering /\ Filled' = Filled
    <2>1. p \in Threads /\ p \notin Consumers
      BY ThreadAssumption DEF Threads
    <2>2. /\ pc[p] = "wait" /\ place = "lock" => Entering' = Entering + 1
          /\ pc[p] = "check" /\ place = "unlock" => Entering' = Entering - 1
          /\ pc[p] = "signal" /\ place = "idle" => Entering' = Entering
          /\ <<pc[p], place>> \in Quiet => Entering' = Entering
      BY <1>2, <1>7, <1>6, <2>1, CountAt DEF Entering, Quiet
    <2>3. /\ pc[p] = "wait" /\ place = "lock" => Filled' = Filled
          /\ pc[p] = "check" /\ place = "unlock" => Filled' = Filled + 1
          /\ pc[p] = "signal" /\ place = "idle" => Filled' = Filled - 1
          /\ <<pc[p], place>> \in Quiet => Filled' = Filled
      BY <1>2, <1>7, <1>6, <2>1, CountAt DEF Filled, Quiet
    <2> QED
      BY <1>1, <1>2, <1>7, <2>1, <2>2, <2>3, CountAt DEF Returned, Taking
  <1>8. ASSUME NEW c \in Consumers, NEW place \in Places, Goto(c, place)
        PROVE  /\ Entering' = Entering /\ Filled' = Filled
               /\ pc[c] = "wait" /\ place = "lock"
                    => Taking' = Taking + 1 /\ Returned' = Returned
               /\ pc[c] = "pop" /\ place = "unlock"
                    => Taking' = Taking - 1 /\ Returned' = Returned + 1
               /\ pc[c] = "signal" /\ place = "idle"
                    => Taking' = Taking /\ Returned' = Returned - 1
               /\ <<pc[c], place>> \in Quiet \cup {<<"check", "pop">>}
                    => Taking' = Taking /\ Returned' = Returned
    <2>1. c \in Threads /\ c \notin Producers
      BY ThreadAssumption DEF Threads
    <2> QED
      BY <1>1, <1>2, <1>8, <2>1, CountAt DEF Entering, Returned, Filled, Taking, Quiet
  <1>9. ASSUME NEW t \in Threads, Call(t) \/ Lock(t) \/ Unlock(t) PROVE Sums'
    <2>1. PICK place \in Places : Goto(t, place) /\ <<pc[t], place>> \in Quiet
      BY <1>9 DEF Call, Enter, Lock, Acquire, Unlock, Release, Quiet
    <2>2. Entering' = Entering /\ Filled' = Filled /\ Taking' = Taking /\ Returned' = Returned
      BY <1>7, <1>8, <2>1 DEF Threads
    <2>3. UNCHANGED <<queue, notFull, notEmpty, cutPuts, cutTakes>>
      BY <1>9 DEF Call, Enter, Lock, Acquire, Unlock, Release, semVars
    <2> QED
      BY <1>1, <2>2, <2>3
  <1>10. ASSUME NEW t \in Threads, AssertionFails(t) PROVE Sums'
    BY <1>1, <1>10 DEF AssertionFails, queueVars, At, Entering, Returned, Filled, Taking
  <1>11. ASSUME NEW p \in Producers,
               PutWait(p) \/ PutWaitInterrupted(p) \/ PutPush(p) \/ PutPost(p)
        PROVE  Sums'
    <2>1. CASE PutWait(p) \/ PutWaitInterrupted(p)
      <3>1. Goto(p, "lock") /\ pc[p] = "wait"
        BY <2>1 DEF PutWait, PutWaitInterrupted, WaitReturns
      <3>2. Entering' = Entering + 1 /\ UNCHANGED <<Filled, Taking, Returned>>
        BY <1>7, <3>1
      <3>3. UNCHANGED <<queue, notEmpty, cutTakes>>
        BY <2>1 DEF PutWait, PutWaitInterrupted, WaitReturns
      <3>4. CASE PutWait(p)
        BY <1>1, <1>3, <3>2, <3>3, <3>4 DEF PutWait, CountersOK
      <3>5. CASE PutWaitInterrupted(p)
        BY <1>1, <1>3, <3>2, <3>3, <3>5 DEF PutWaitInterrupted, CountersOK
      <3> QED
        BY <2>1, <3>4, <3>5
    <2>2. CASE PutPush(p)
      <3>1. Goto(p, "unlock") /\ pc[p] = "check" /\ UNCHANGED semVars
        BY <2>2 DEF PutPush, Push
      <3>2. Entering' = Entering - 1 /\ Filled' = Filled + 1 /\ UNCHANGED <<Taking, Returned>>
        BY <1>7, <3>1
      <3>3. Len(queue') = Len(queue) + 1
        <4>1. NextItem(p) \in Items
          BY <1>1, NextItemType
        <4>2. queue' = Append(queue, NextItem(p))
          BY <1>1, <2>2, <4>1, PushBackAppends DEF PutPush, Push, QueueTypeOK
        <4> QED
          BY <1>1, <4>1, <4>2
      <3> QED
        BY <1>1, <1>3, <3>1, <3>2, <3>3 DEF semVars, CountersOK
    <2>3. CASE PutPost(p)
      <3>1. Goto(p, "idle") /\ pc[p] = "signal"
        BY <2>3 DEF PutPost, Leave
      <3>2. Filled' = Filled - 1 /\ UNCHANGED <<Entering, Taking, Returned>>
        BY <1>7, <3>1
      <3> QED
        BY <1>1, <1>3, <2>3, <3>2 DEF PutPost, Leave, CountersOK
    <2> QED
      BY <1>11, <2>1, <2>2, <2>3
  <1>12. ASSUME NEW c \in Consumers,
                \/ TakeWait(c) \/ TakeWaitInterrupted(c)
                \/ TakeFront(c) \/ TakePop(c) \/ TakePost(c)
         PROVE  Sums'
    <2>1. CASE TakeWait(c) \/ TakeWaitInterrupted(c)
      <3>1. Goto(c, "lock") /\ pc[c] = "wait"
        BY <2>1 DEF TakeWait, TakeWaitInterrupted, WaitReturns
      <3>2. Taking' = Taking + 1 /\ UNCHANGED <<Entering, Filled, Returned>>
        BY <1>8, <3>1
      <3>3. UNCHANGED <<queue, notFull, cutPuts>>
        BY <2>1 DEF TakeWait, TakeWaitInterrupted, WaitReturns
      <3>4. CASE TakeWait(c)
        BY <1>1, <1>3, <3>2, <3>3, <3>4 DEF TakeWait, CountersOK
      <3>5. CASE TakeWaitInterrupted(c)
        BY <1>1, <1>3, <3>2, <3>3, <3>5 DEF TakeWaitInterrupted, CountersOK
      <3> QED
        BY <2>1, <3>4, <3>5
    <2>2. CASE TakeFront(c)
      <3>1. Goto(c, "pop") /\ pc[c] = "check"
        BY <2>2 DEF TakeFront, CopyFront
      <3>2. UNCHANGED <<Entering, Filled, Taking, Returned>>
        BY <1>8, <3>1
      <3> QED
        BY <1>1, <2>2, <3>2 DEF TakeFront, CopyFront, semVars
    <2>3. CASE TakePop(c)
      <3>1. Goto(c, "unlock") /\ pc[c] = "pop" /\ UNCHANGED semVars
        BY <2>3 DEF TakePop, Pop
      <3>2. Taking' = Taking - 1 /\ Returned' = Returned + 1 /\ UNCHANGED <<Entering, Filled>>
        BY <1>8, <3>1
      <3>3. queue # <<>>
        BY <2>3 DEF TakePop, Pop, IInv, QueueInv, FrontIsCopied, Threads
      <3>4. Len(queue') = Len(queue) - 1
        BY <1>1, <2>3, <3>3 DEF TakePop, Pop, PopFront
      <3> QED
        BY <1>1, <1>3, <3>1, <3>2, <3>4 DEF semVars, CountersOK
    <2>4. CASE TakePost(c)
      <3>1. Goto(c, "idle") /\ pc[c] = "signal"
        BY <2>4 DEF TakePost, Leave
      <3>2. Returned' = Returned - 1 /\ UNCHANGED <<Entering, Filled, Taking>>
        BY <1>8, <3>1
      <3> QED
        BY <1>1, <1>3, <2>4, <3>2 DEF TakePost, Leave, CountersOK
    <2> QED
      BY <1>12, <2>1, <2>2, <2>3, <2>4
  <1> QED
    BY <1>5, <1>9, <1>10, <1>11, <1>12 DEF Next

-----------------------------------------------------------------------------
\* The account of permits, slots and items balances in every reachable state,
\* with mutual exclusion and types.
THEOREM Safety == Spec => []IInv
  <1>1. Init => IInv
    BY InitIInv
  <1>2. IInv /\ [Next]_vars => IInv'
    <2>1. QueueInv /\ [Next]_vars => QueueInv'
      BY NextIsBodyNext, BodyStepKeepsInv
    <2> QED
      BY <2>1, NextCounters, NextAborted, NextPermits DEF IInv
  <1> QED
    BY <1>1, <1>2, PTL DEF Spec

\* The type invariant the run checks.
THEOREM TypeCorrect == Spec => []TypeOK
  <1>1. IInv => TypeOK
    BY InterruptAssumption DEF IInv, QueueInv, CountersOK, AbortedOK, TypeOK
  <1> QED
    BY <1>1, Safety, PTL

\* No permit is lost or made up between put and take of
\* semaphore_bounded_blocking_queue.h, but for the one too many that each
\* interrupted wait lets into circulation.
THEOREM PermitAccount == Spec => []PermitsConserved
  <1>1. IInv => PermitsConserved
    BY DEF IInv
  <1> QED
    BY <1>1, Safety, PTL

\* put and take of semaphore_bounded_blocking_queue.h are linearizable
\* operations on a bounded FIFO queue: after an interrupted wait the assertions
\* stop the program before a full buffer drops an item.
THEOREM Linearizable == Spec => FifoSpec
  <1>1. Init => Fifo!Init
    BY BodyInitRefines DEF Init
  <1>2. IInv /\ [Next]_vars => [Fifo!Next]_(Fifo!vars)
    BY NextIsBodyNext, BodyStepRefines DEF IInv
  <1> QED
    BY <1>1, <1>2, Safety, PTL DEF Spec, FifoSpec, Fifo!Spec

\* While no wait is interrupted the assertions of put and take cannot fail: a
\* producer past its wait holds a free slot, a consumer past its wait an item.
LEMMA AssertionsKept ==
  IInv /\ cutPuts = 0 /\ cutTakes = 0 =>
      \A t \in Threads : ~AssertionFails(t)
  <1> SUFFICES ASSUME IInv, cutPuts = 0, cutTakes = 0,
                      NEW t \in Threads, AssertionFails(t)
               PROVE  FALSE
    OBVIOUS
  <1>1. /\ notFull \in Nat /\ notEmpty \in Nat
        /\ Capacity \in Nat /\ Len(queue) \in Nat
    BY CapacityAssumption DEF IInv, CountersOK, QueueInv, QueueTypeOK
  <1>2. \A T \in SUBSET Threads : \A S : pc[t] \in S /\ t \in T =>
            Cardinality(At(T, S)) \in Nat \ {0}
    <2> SUFFICES ASSUME NEW T \in SUBSET Threads, NEW S, pc[t] \in S, t \in T
                 PROVE  Cardinality(At(T, S)) \in Nat \ {0}
      OBVIOUS
    <2>1. IsFiniteSet(At(T, S)) /\ t \in At(T, S)
      BY ThreadAssumption, FS_Subset DEF At
    <2> QED
      BY <2>1, FS_EmptySet, FS_CardinalityType
  <1>3. /\ Cardinality(At(Producers, {"lock", "check"})) \in Nat
        /\ Cardinality(At(Consumers, {"unlock", "signal"})) \in Nat
        /\ Cardinality(At(Producers, {"unlock", "signal"})) \in Nat
        /\ Cardinality(At(Consumers, {"lock", "check", "pop"})) \in Nat
    BY CountsAreNat DEF Threads
  <1>4. CASE t \in Producers
    <2>1. Len(queue) = Capacity
      BY <1>4 DEF AssertionFails, Full
    <2>2. Cardinality(At(Producers, {"lock", "check"})) \in Nat \ {0}
      BY <1>2, <1>4 DEF AssertionFails, Threads
    <2> QED
      BY <1>1, <1>3, <2>1, <2>2 DEF IInv, PermitsConserved
  <1>5. CASE t \notin Producers
    <2>1. Len(queue) = 0
      BY <1>5 DEF AssertionFails, Empty
    <2>2. Cardinality(At(Consumers, {"lock", "check", "pop"})) \in Nat \ {0}
      BY <1>2, <1>5 DEF AssertionFails, Threads
    <2> QED
      BY <1>1, <1>3, <2>1, <2>2 DEF IInv, PermitsConserved
  <1> QED
    BY <1>4, <1>5

\* An assertion of put or take fails only after an interrupted wait.
THEOREM NoAssertionFails == Spec => []AbortsAreInterrupted
  <1>1. Init => AbortsAreInterrupted
    BY DEF Init, AbortsAreInterrupted
  <1>2. IInv /\ AbortsAreInterrupted /\ [Next]_vars => AbortsAreInterrupted'
    <2> SUFFICES ASSUME IInv, AbortsAreInterrupted, [Next]_vars
                 PROVE  AbortsAreInterrupted'
      OBVIOUS
    <2>1. cutPuts \in Nat /\ cutTakes \in Nat
      BY DEF IInv, CountersOK
    <2>2. ASSUME NEW t \in Threads, AssertionFails(t) PROVE AbortsAreInterrupted'
      <3>1. cutPuts # 0 \/ cutTakes # 0
        BY <2>2, AssertionsKept
      <3>2. cutPuts' = cutPuts /\ cutTakes' = cutTakes
        BY <2>2 DEF AssertionFails
      <3> QED
        BY <2>1, <3>1, <3>2 DEF AbortsAreInterrupted
    <2>3. CASE Next /\ ~ \E t \in Threads : AssertionFails(t)
      <3>1. ~aborted /\ aborted' = aborted
        BY <2>3 DEF Next, semVars, Call, Lock, Unlock, PutWait, PutWaitInterrupted,
               WaitReturns, PutPush, PutPost, TakeWait, TakeWaitInterrupted,
               TakeFront, TakePop, TakePost
      <3> QED
        BY <3>1, Zenon DEF AbortsAreInterrupted
    <2>4. CASE UNCHANGED vars
      BY <2>4 DEF vars, semVars, AbortsAreInterrupted
    <2> QED
      BY <2>2, <2>3, <2>4
  <1> QED
    BY <1>1, <1>2, Safety, PTL DEF Spec
=============================================================================
