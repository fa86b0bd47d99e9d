------------------------ MODULE ConditionQueueProofs ------------------------
(***************************************************************************)
(* Theorems about ConditionQueue, for any number of producers and          *)
(* consumers, any capacity, any quotas and any number of spurious wakeups. *)
(***************************************************************************)
EXTENDS ConditionQueue, BlockingQueueProofs

\* The inductive invariant: the shared one and who may sleep where.
IInv == QueueInv /\ TypeOK

\* Every step of the queue is a step of the shared bodies, or leaves their
\* state alone.
LEMMA NextIsBodyNext == [Next]_vars => [BodyNext]_queueVars
  <1> SUFFICES ASSUME [Next]_vars PROVE [BodyNext]_queueVars
    OBVIOUS
  <1>1. CASE UNCHANGED vars
    BY <1>1 DEF vars
  <1>2. ASSUME NEW t \in Threads, Call(t) \/ Lock(t) \/ Unlock(t)
        PROVE  BodyNext
    BY <1>2 DEF Call, Lock, Unlock, BodyNext, BodyStep
  <1>3. ASSUME NEW t \in Threads, SpuriousWakeup(t) PROVE UNCHANGED queueVars
    BY <1>3 DEF SpuriousWakeup
  <1>4. ASSUME NEW p \in Producers, PutWait(p) \/ PutPush(p) \/ PutSignal(p)
        PROVE  BodyNext
    BY <1>4 DEF PutWait, Sleep, YieldMutex, PutPush, PutSignal, BodyNext, BodyStep, Threads
  <1>5. ASSUME NEW c \in Consumers,
               TakeWait(c) \/ TakeFront(c) \/ TakePop(c) \/ TakeSignal(c)
        PROVE  BodyNext
    BY <1>5 DEF TakeWait, Sleep, YieldMutex, TakeFront, TakePop, TakeSignal,
                BodyNext, BodyStep, Threads
  <1> QED
    BY <1>1, <1>2, <1>3, <1>4, <1>5 DEF Next

\* What is left asleep by a signal was asleep before it.
LEMMA AfterSignalShrinks ==
  ASSUME NEW sleepers, NEW left \in AfterSignal(sleepers)
  PROVE  left \subseteq sleepers
  BY DEF AfterSignal

LEMMA InitIInv == Init => IInv
  BY BodyInit, SpuriousAssumption DEF Init, IInv, TypeOK, QueueInv

LEMMA NextIInv == IInv /\ [Next]_vars => IInv'
  <1> SUFFICES ASSUME IInv, [Next]_vars PROVE IInv'
    OBVIOUS
  <1>1. QueueInv'
    BY NextIsBodyNext, BodyStepKeepsInv DEF IInv
  <1> DEFINE SleepersOK == /\ notFull \in SUBSET Producers
                           /\ notEmpty \in SUBSET Consumers
                           /\ spurious \in 0..MaxSpurious
  <1>2. SleepersOK
    BY DEF IInv, TypeOK
  <1>3. ASSUME UNCHANGED vars PROVE SleepersOK'
    BY <1>2, <1>3 DEF vars, condVars
  <1>4. ASSUME NEW t \in Threads, Call(t) \/ Lock(t) \/ Unlock(t)
        PROVE  SleepersOK'
    BY <1>2, <1>4 DEF Call, Lock, Unlock, condVars
  <1>5. ASSUME NEW t \in Threads, SpuriousWakeup(t) PROVE SleepersOK'
    BY <1>2, <1>5, SpuriousAssumption DEF SpuriousWakeup
  <1>6. ASSUME NEW p \in Producers, PutWait(p) \/ PutPush(p) \/ PutSignal(p)
        PROVE  SleepersOK'
    BY <1>2, <1>6, AfterSignalShrinks DEF PutWait, Sleep, PutPush, PutSignal, condVars
  <1>7. ASSUME NEW c \in Consumers,
               TakeWait(c) \/ TakeFront(c) \/ TakePop(c) \/ TakeSignal(c)
        PROVE  SleepersOK'
    BY <1>2, <1>7, AfterSignalShrinks
       DEF TakeWait, Sleep, TakeFront, TakePop, TakeSignal, condVars
  <1>8. SleepersOK'
    BY <1>3, <1>4, <1>5, <1>6, <1>7 DEF Next
  <1> QED
    BY <1>1, <1>8 DEF IInv, TypeOK, QueueInv

\* Mutual exclusion, types, and a front element that nobody else pops between
\* its copy and its pop, in every reachable state.
THEOREM Safety == Spec => []IInv
  <1>1. Init => IInv
    BY InitIInv
  <1>2. IInv /\ [Next]_vars => IInv'
    BY NextIInv
  <1> QED
    BY <1>1, <1>2, PTL DEF Spec

\* The type invariant the run checks.
THEOREM TypeCorrect == Spec => []TypeOK
  <1>1. IInv => TypeOK
    BY DEF IInv
  <1> QED
    BY <1>1, Safety, PTL

\* put and take of condition_bounded_blocking_queue.h are linearizable
\* operations on a bounded FIFO queue.
THEOREM Linearizable == Spec => FifoSpec
  <1>1. Init => Fifo!Init
    BY BodyInitRefines DEF Init
  <1>2. IInv /\ [Next]_vars => [Fifo!Next]_(Fifo!vars)
    BY NextIsBodyNext, BodyStepRefines DEF IInv
  <1> QED
    BY <1>1, <1>2, Safety, PTL DEF Spec, FifoSpec, Fifo!Spec

-----------------------------------------------------------------------------
\* A thread that is asleep on a condition variable is at its wait.
SleepersWait == \A t \in Asleep : pc[t] = "wait"

\* The two halves of NoLostWakeup.
ItemsCovered ==
    notEmpty # {} =>
        Len(queue) <= Cardinality(AwakeConsumers) + Cardinality(Owing(Producers))
SlotsCovered ==
    notFull # {} =>
        Capacity - Len(queue) <= Cardinality(AwakeProducers) + Cardinality(Owing(Consumers))

\* NoLostWakeup is inductive together with the first invariant and SleepersWait,
\* which makes the thread that a signal wakes a new member of the awake ones.
WakeupInv == IInv /\ SleepersWait /\ ItemsCovered /\ SlotsCovered

\* Sets of threads are finite, so their counts grow and shrink as they do.
LEMMA ThreadSets ==
  ASSUME NEW S \in SUBSET Threads
  PROVE  /\ Cardinality(S) \in Nat
         /\ S = {} => Cardinality(S) = 0
         /\ \A T \in SUBSET S : Cardinality(T) <= Cardinality(S)
         /\ \A t \in Threads \ S : Cardinality(S \cup {t}) = Cardinality(S) + 1
         /\ \A t \in S : Cardinality(S \ {t}) = Cardinality(S) - 1
  <1>1. IsFiniteSet(S)
    BY ThreadAssumption, FS_Subset
  <1> QED
    BY <1>1, FS_CardinalityType, FS_EmptySet, FS_Subset, FS_AddElement, FS_RemoveElement

LEMMA AwakeAndOwingAreThreads ==
  /\ AwakeProducers \in SUBSET Threads /\ AwakeConsumers \in SUBSET Threads
  /\ \A T \in SUBSET Threads : Owing(T) \in SUBSET Threads
  /\ Producers \in SUBSET Threads /\ Consumers \in SUBSET Threads
  BY DEF AwakeProducers, AwakeConsumers, Owing, At, Threads

\* A step that wakes or frees threads, puts none to sleep and leaves the queue
\* alone keeps both halves.
LEMMA MoreAwake ==
  ASSUME TypeOK, UNCHANGED queue
  PROVE  /\ /\ ItemsCovered /\ notEmpty' \subseteq notEmpty
            /\ AwakeConsumers \subseteq AwakeConsumers'
            /\ Owing(Producers) \subseteq Owing(Producers)'
            => ItemsCovered'
         /\ /\ SlotsCovered /\ notFull' \subseteq notFull
            /\ AwakeProducers \subseteq AwakeProducers'
            /\ Owing(Consumers) \subseteq Owing(Consumers)'
            => SlotsCovered'
  <1>1. /\ AwakeProducers' \in SUBSET Threads /\ AwakeConsumers' \in SUBSET Threads
        /\ Owing(Producers)' \in SUBSET Threads /\ Owing(Consumers)' \in SUBSET Threads
    BY DEF AwakeProducers, AwakeConsumers, Owing, At, Threads
  <1>2. /\ Cardinality(AwakeProducers) \in Nat /\ Cardinality(AwakeConsumers) \in Nat
        /\ Cardinality(Owing(Producers)) \in Nat /\ Cardinality(Owing(Consumers)) \in Nat
        /\ Cardinality(AwakeProducers') \in Nat /\ Cardinality(AwakeConsumers') \in Nat
        /\ Cardinality(Owing(Producers)') \in Nat /\ Cardinality(Owing(Consumers)') \in Nat
    BY <1>1, AwakeAndOwingAreThreads, ThreadSets
  <1>3. Len(queue) \in Nat /\ Len(queue') = Len(queue) /\ Capacity \in Nat
    BY CapacityAssumption DEF TypeOK, QueueTypeOK
  <1>4. /\ AwakeConsumers \subseteq AwakeConsumers'
              => Cardinality(AwakeConsumers) <= Cardinality(AwakeConsumers')
        /\ Owing(Producers) \subseteq Owing(Producers)'
              => Cardinality(Owing(Producers)) <= Cardinality(Owing(Producers)')
        /\ AwakeProducers \subseteq AwakeProducers'
              => Cardinality(AwakeProducers) <= Cardinality(AwakeProducers')
        /\ Owing(Consumers) \subseteq Owing(Consumers)'
              => Cardinality(Owing(Consumers)) <= Cardinality(Owing(Consumers)')
    BY <1>1, ThreadSets
  <1>5. ASSUME ItemsCovered, notEmpty' \subseteq notEmpty,
               AwakeConsumers \subseteq AwakeConsumers',
               Owing(Producers) \subseteq Owing(Producers)'
        PROVE  ItemsCovered'
    BY <1>2, <1>3, <1>4, <1>5 DEF ItemsCovered
  <1>6. ASSUME SlotsCovered, notFull' \subseteq notFull,
               AwakeProducers \subseteq AwakeProducers',
               Owing(Consumers) \subseteq Owing(Consumers)'
        PROVE  SlotsCovered'
    BY <1>2, <1>3, <1>4, <1>6 DEF SlotsCovered
  <1> QED
    BY <1>5, <1>6

-----------------------------------------------------------------------------
\* A push takes an awake producer and a free slot, and makes the producer owe a
\* signal for the new item.
LEMMA PushKeepsCover ==
  ASSUME WakeupInv, NEW p \in Producers, PutPush(p)
  PROVE  ItemsCovered' /\ SlotsCovered'
  <1>1. /\ pc[p] = "check" /\ pc' = [pc EXCEPT ![p] = "unlock"]
        /\ UNCHANGED <<notFull, notEmpty>>
    BY DEF PutPush, Push, Goto, condVars
  <1>2. /\ pc \in [Threads -> Places] /\ p \in Threads /\ p \notin Consumers
        /\ p \notin notFull
    BY <1>1, ThreadAssumption DEF WakeupInv, IInv, TypeOK, QueueTypeOK, Threads, SleepersWait, Asleep
  <1>3. /\ Len(queue) \in Nat /\ Len(queue') = Len(queue) + 1
        /\ Capacity \in Nat
    <2>1. NextItem(p) \in Items /\ queue \in Seq(Items) /\ Len(queue) <= Capacity
      BY NextItemType DEF WakeupInv, IInv, TypeOK, QueueTypeOK
    <2>2. queue' = Append(queue, NextItem(p))
      BY <2>1, PushBackAppends DEF PutPush, Push
    <2> QED
      BY <2>1, <2>2, CapacityAssumption
  <1>4. /\ Owing(Producers)' = Owing(Producers) \cup {p} /\ p \notin Owing(Producers)
        /\ Owing(Consumers)' = Owing(Consumers)
    BY <1>1, <1>2 DEF Owing, At, Threads
  <1>5. /\ AwakeProducers' = AwakeProducers \ {p} /\ p \in AwakeProducers
        /\ AwakeConsumers' = AwakeConsumers
    BY <1>1, <1>2 DEF AwakeProducers, AwakeConsumers, At, Threads
  <1>6. /\ Cardinality(Owing(Producers)') = Cardinality(Owing(Producers)) + 1
        /\ Cardinality(AwakeProducers') = Cardinality(AwakeProducers) - 1
        /\ Cardinality(AwakeConsumers) \in Nat /\ Cardinality(AwakeProducers) \in Nat
        /\ Cardinality(Owing(Producers)) \in Nat /\ Cardinality(Owing(Consumers)) \in Nat
    BY <1>2, <1>4, <1>5, AwakeAndOwingAreThreads, ThreadSets
  <1>7. ItemsCovered'
    BY <1>1, <1>3, <1>5, <1>6 DEF ItemsCovered, WakeupInv
  <1>8. SlotsCovered'
    BY <1>1, <1>3, <1>4, <1>6 DEF SlotsCovered, WakeupInv
  <1> QED
    BY <1>7, <1>8

\* A pop takes an awake consumer and an item, and makes the consumer owe a
\* signal for the new slot.
LEMMA PopKeepsCover ==
  ASSUME WakeupInv, NEW c \in Consumers, TakePop(c)
  PROVE  ItemsCovered' /\ SlotsCovered'
  <1>1. /\ pc[c] = "pop" /\ pc' = [pc EXCEPT ![c] = "unlock"]
        /\ UNCHANGED <<notFull, notEmpty>>
    BY DEF TakePop, Pop, Goto, condVars
  <1>2. /\ pc \in [Threads -> Places] /\ c \in Threads /\ c \notin Producers
        /\ c \notin notEmpty
    BY <1>1, ThreadAssumption DEF WakeupInv, IInv, TypeOK, QueueTypeOK, Threads, SleepersWait, Asleep
  <1>3. /\ Len(queue) \in Nat /\ Len(queue') = Len(queue) - 1
        /\ Capacity \in Nat
    <2>1. queue # <<>> /\ queue \in Seq(Items)
      BY <1>1, <1>2 DEF WakeupInv, IInv, QueueInv, FrontIsCopied, QueueTypeOK
    <2>2. queue' = Tail(queue)
      BY DEF TakePop, Pop, PopFront
    <2> QED
      BY <2>1, <2>2, CapacityAssumption
  <1>4. /\ Owing(Consumers)' = Owing(Consumers) \cup {c} /\ c \notin Owing(Consumers)
        /\ Owing(Producers)' = Owing(Producers)
    BY <1>1, <1>2 DEF Owing, At, Threads
  <1>5. /\ AwakeConsumers' = AwakeConsumers \ {c} /\ c \in AwakeConsumers
        /\ AwakeProducers' = AwakeProducers
    BY <1>1, <1>2 DEF AwakeProducers, AwakeConsumers, At, Threads
  <1>6. /\ Cardinality(Owing(Consumers)') = Cardinality(Owing(Consumers)) + 1
        /\ Cardinality(AwakeConsumers') = Cardinality(AwakeConsumers) - 1
        /\ Cardinality(AwakeConsumers) \in Nat /\ Cardinality(AwakeProducers) \in Nat
        /\ Cardinality(Owing(Producers)) \in Nat /\ Cardinality(Owing(Consumers)) \in Nat
    BY <1>2, <1>4, <1>5, AwakeAndOwingAreThreads, ThreadSets
  <1>7. ItemsCovered'
    BY <1>1, <1>3, <1>4, <1>6 DEF ItemsCovered, WakeupInv
  <1>8. SlotsCovered'
    BY <1>1, <1>3, <1>5, <1>6 DEF SlotsCovered, WakeupInv
  <1> QED
    BY <1>7, <1>8

\* put's signal pays the debt: it wakes a sleeping consumer, which is then on
\* its way to the item, or nobody sleeps.
LEMMA PutSignalKeepsCover ==
  ASSUME WakeupInv, NEW p \in Producers, PutSignal(p)
  PROVE  ItemsCovered' /\ SlotsCovered'
  <1>1. /\ pc[p] = "signal" /\ pc' = [pc EXCEPT ![p] = "idle"]
        /\ notEmpty' \in AfterSignal(notEmpty) /\ UNCHANGED <<queue, notFull>>
    BY DEF PutSignal, Leave, Goto
  <1>2. /\ TypeOK /\ pc \in [Threads -> Places] /\ p \in Threads /\ p \notin Consumers
        /\ notEmpty \subseteq Consumers /\ Len(queue) \in Nat
    BY ThreadAssumption DEF WakeupInv, IInv, TypeOK, QueueTypeOK, Threads
  <1>3. SlotsCovered'
    <2>1. AwakeProducers \subseteq AwakeProducers' /\ Owing(Consumers) \subseteq Owing(Consumers)'
      BY <1>1, <1>2 DEF AwakeProducers, Owing, At, Threads
    <2> QED
      BY <1>1, <1>2, <2>1, MoreAwake DEF WakeupInv
  <1>4. CASE notEmpty = {}
    BY <1>1, <1>3, <1>4 DEF AfterSignal, ItemsCovered
  <1>5. CASE notEmpty # {}
    <2>1. PICK c \in notEmpty : notEmpty' = notEmpty \ {c}
      BY <1>1, <1>5 DEF AfterSignal
    <2>2. pc[c] = "wait" /\ c \in Consumers /\ c # p
      BY <1>2, <2>1 DEF WakeupInv, SleepersWait, Asleep
    <2>3. AwakeConsumers' = AwakeConsumers \cup {c} /\ c \in Threads \ AwakeConsumers
      BY <1>1, <1>2, <2>1, <2>2 DEF AwakeConsumers, At, Threads
    <2>4. Owing(Producers)' = Owing(Producers) \ {p} /\ p \in Owing(Producers)
      BY <1>1, <1>2 DEF Owing, At
    <2>5. /\ Cardinality(AwakeConsumers') = Cardinality(AwakeConsumers) + 1
          /\ Cardinality(Owing(Producers)') = Cardinality(Owing(Producers)) - 1
          /\ Cardinality(AwakeConsumers) \in Nat /\ Cardinality(Owing(Producers)) \in Nat
      BY <2>3, <2>4, AwakeAndOwingAreThreads, ThreadSets
    <2>6. ItemsCovered'
      BY <1>1, <1>2, <1>5, <2>5 DEF ItemsCovered, WakeupInv
    <2> QED
      BY <1>3, <2>6
  <1> QED
    BY <1>4, <1>5

\* take's signal, for the slot it has freed.
LEMMA TakeSignalKeepsCover ==
  ASSUME WakeupInv, NEW c \in Consumers, TakeSignal(c)
  PROVE  ItemsCovered' /\ SlotsCovered'
  <1>1. /\ pc[c] = "signal" /\ pc' = [pc EXCEPT ![c] = "idle"]
        /\ notFull' \in AfterSignal(notFull) /\ UNCHANGED <<queue, notEmpty>>
    BY DEF TakeSignal, Leave, Goto
  <1>2. /\ TypeOK /\ pc \in [Threads -> Places] /\ c \in Threads /\ c \notin Producers
        /\ notFull \subseteq Producers /\ Len(queue) \in Nat /\ Capacity \in Nat
    BY ThreadAssumption, CapacityAssumption DEF WakeupInv, IInv, TypeOK, QueueTypeOK, Threads
  <1>3. ItemsCovered'
    <2>1. AwakeConsumers \subseteq AwakeConsumers' /\ Owing(Producers) \subseteq Owing(Producers)'
      BY <1>1, <1>2 DEF AwakeConsumers, Owing, At, Threads
    <2> QED
      BY <1>1, <1>2, <2>1, MoreAwake DEF WakeupInv
  <1>4. CASE notFull = {}
    BY <1>1, <1>3, <1>4 DEF AfterSignal, SlotsCovered
  <1>5. CASE notFull # {}
    <2>1. PICK p \in notFull : notFull' = notFull \ {p}
      BY <1>1, <1>5 DEF AfterSignal
    <2>2. pc[p] = "wait" /\ p \in Producers /\ p # c
      BY <1>2, <2>1 DEF WakeupInv, SleepersWait, Asleep
    <2>3. AwakeProducers' = AwakeProducers \cup {p} /\ p \in Threads \ AwakeProducers
      BY <1>1, <1>2, <2>1, <2>2 DEF AwakeProducers, At, Threads
    <2>4. Owing(Consumers)' = Owing(Consumers) \ {c} /\ c \in Owing(Consumers)
      BY <1>1, <1>2 DEF Owing, At
    <2>5. /\ Cardinality(AwakeProducers') = Cardinality(AwakeProducers) + 1
          /\ Cardinality(Owing(Consumers)') = Cardinality(Owing(Consumers)) - 1
          /\ Cardinality(AwakeProducers) \in Nat /\ Cardinality(Owing(Consumers)) \in Nat
      BY <2>3, <2>4, AwakeAndOwingAreThreads, ThreadSets
    <2>6. SlotsCovered'
      BY <1>1, <1>2, <1>5, <2>5 DEF SlotsCovered, WakeupInv
    <2> QED
      BY <1>3, <2>6
  <1> QED
    BY <1>4, <1>5

\* A thread goes to sleep only when the queue is full (empty), and then no slot
\* (no item) needs a thread on its way to it.
LEMMA WaitKeepsCover ==
  /\ \A p \in Producers : WakeupInv /\ PutWait(p) => ItemsCovered' /\ SlotsCovered'
  /\ \A c \in Consumers : WakeupInv /\ TakeWait(c) => ItemsCovered' /\ SlotsCovered'
  <1>1. ASSUME NEW S \in SUBSET Threads, NEW T \in SUBSET Threads
        PROVE  0 <= Cardinality(S) + Cardinality(T)
    <2>1. Cardinality(S) \in Nat /\ Cardinality(T) \in Nat
      BY ThreadSets
    <2> QED
      BY <2>1
  <1>2. /\ AwakeProducers' \in SUBSET Threads /\ AwakeConsumers' \in SUBSET Threads
        /\ Owing(Producers)' \in SUBSET Threads /\ Owing(Consumers)' \in SUBSET Threads
    BY DEF AwakeProducers, AwakeConsumers, Owing, At, Threads
  <1>3. WakeupInv => /\ TypeOK /\ ItemsCovered /\ SlotsCovered /\ pc \in [Threads -> Places]
                     /\ Producers \cap Consumers = {}
                     /\ Producers \subseteq Threads /\ Consumers \subseteq Threads
    BY ThreadAssumption DEF WakeupInv, IInv, TypeOK, QueueTypeOK, Threads
  <1>4. ASSUME WakeupInv, NEW p \in Producers, PutWait(p)
        PROVE  ItemsCovered' /\ SlotsCovered'
    <2>1. /\ pc[p] = "check" /\ pc' = [pc EXCEPT ![p] = "wait"]
          /\ UNCHANGED <<queue, notEmpty>> /\ Len(queue) = Capacity
      BY <1>4 DEF PutWait, Sleep, Goto, Full
    <2>2. AwakeConsumers \subseteq AwakeConsumers' /\ Owing(Producers) \subseteq Owing(Producers)'
      BY <1>3, <1>4, <2>1 DEF AwakeConsumers, Owing, At
    <2>3. ItemsCovered'
      BY <1>3, <1>4, <2>1, <2>2, MoreAwake
    <2>4. Capacity - Len(queue') = 0
      BY <2>1, CapacityAssumption
    <2>5. SlotsCovered'
      BY <1>1, <1>2, <2>4 DEF SlotsCovered
    <2> QED
      BY <2>3, <2>5
  <1>5. ASSUME WakeupInv, NEW c \in Consumers, TakeWait(c)
        PROVE  ItemsCovered' /\ SlotsCovered'
    <2>1. /\ pc[c] = "check" /\ pc' = [pc EXCEPT ![c] = "wait"]
          /\ UNCHANGED <<queue, notFull>> /\ queue = <<>>
      BY <1>5 DEF TakeWait, Sleep, Goto, Empty
    <2>2. AwakeProducers \subseteq AwakeProducers' /\ Owing(Consumers) \subseteq Owing(Consumers)'
      BY <1>3, <1>5, <2>1 DEF AwakeProducers, Owing, At
    <2>3. SlotsCovered'
      BY <1>3, <1>5, <2>1, <2>2, MoreAwake
    <2>4. Len(queue') = 0
      BY <2>1
    <2>5. ItemsCovered'
      BY <1>1, <1>2, <2>4 DEF ItemsCovered
    <2> QED
      BY <2>3, <2>5
  <1> QED
    BY <1>4, <1>5

\* The steps that neither wait, push, pop nor signal.
LEMMA QuietKeepsCover ==
  ASSUME WakeupInv, NEW t \in Threads,
         \/ Call(t) \/ Lock(t) \/ Unlock(t) \/ SpuriousWakeup(t)
         \/ t \in Consumers /\ TakeFront(t)
  PROVE  ItemsCovered' /\ SlotsCovered'
  <1>1. /\ TypeOK /\ ItemsCovered /\ SlotsCovered /\ pc \in [Threads -> Places]
        /\ Producers \cap Consumers = {}
        /\ Producers \subseteq Threads /\ Consumers \subseteq Threads
    BY ThreadAssumption DEF WakeupInv, IInv, TypeOK, QueueTypeOK, Threads
  <1>2. UNCHANGED queue /\ notFull' \subseteq notFull /\ notEmpty' \subseteq notEmpty
    BY DEF Call, Enter, Lock, Acquire, Unlock, Release, SpuriousWakeup, TakeFront,
           CopyFront, condVars, queueVars
  <1>3. /\ AwakeProducers \subseteq AwakeProducers' /\ AwakeConsumers \subseteq AwakeConsumers'
        /\ Owing(Producers) \subseteq Owing(Producers)'
        /\ Owing(Consumers) \subseteq Owing(Consumers)'
    <2>1. CASE Call(t)
      BY <1>1, <2>1 DEF Call, Enter, Goto, condVars, AwakeProducers, AwakeConsumers, Owing, At
    <2>2. CASE Lock(t)
      BY <1>1, <2>2 DEF Lock, Acquire, Goto, condVars, AwakeProducers, AwakeConsumers, Owing, At
    <2>3. CASE Unlock(t)
      BY <1>1, <2>3 DEF Unlock, Release, Goto, condVars, AwakeProducers, AwakeConsumers, Owing, At
    <2>4. CASE SpuriousWakeup(t)
      BY <1>1, <2>4 DEF SpuriousWakeup, queueVars, AwakeProducers, AwakeConsumers, Owing, At
    <2>5. CASE t \in Consumers /\ TakeFront(t)
      BY <1>1, <2>5 DEF TakeFront, CopyFront, Goto, condVars, AwakeProducers, AwakeConsumers, Owing, At
    <2> QED
      BY <2>1, <2>2, <2>3, <2>4, <2>5
  <1> QED
    BY <1>1, <1>2, <1>3, MoreAwake

\* Only a thread that is awake moves, and only a wait puts a thread to sleep.
LEMMA NextSleepers == WakeupInv /\ [Next]_vars => SleepersWait'
  <1> SUFFICES ASSUME WakeupInv, [Next]_vars PROVE SleepersWait'
    OBVIOUS
  <1>1. /\ pc \in [Threads -> Places] /\ \A u \in notFull \cup notEmpty : pc[u] = "wait"
        /\ notFull \subseteq Threads /\ notEmpty \subseteq Threads
    BY DEF WakeupInv, IInv, TypeOK, QueueTypeOK, SleepersWait, Asleep, Threads
  <1> USE <1>1 DEF SleepersWait, Asleep, Goto
  <1>2. CASE UNCHANGED vars
    BY <1>2 DEF vars, queueVars, condVars
  <1>3. ASSUME NEW t \in Threads, Call(t) \/ Lock(t) \/ Unlock(t) PROVE SleepersWait'
    BY <1>3 DEF Call, Enter, Lock, Acquire, Unlock, Release, condVars
  <1>4. ASSUME NEW t \in Threads, SpuriousWakeup(t) PROVE SleepersWait'
    BY <1>4 DEF SpuriousWakeup, queueVars
  <1>5. ASSUME NEW p \in Producers, PutWait(p) \/ PutPush(p) \/ PutSignal(p)
        PROVE  SleepersWait'
    BY <1>5, AfterSignalShrinks DEF PutWait, Sleep, PutPush, Push, PutSignal, Leave, condVars, Threads
  <1>6. ASSUME NEW c \in Consumers,
               TakeWait(c) \/ TakeFront(c) \/ TakePop(c) \/ TakeSignal(c)
        PROVE  SleepersWait'
    BY <1>6, AfterSignalShrinks
       DEF TakeWait, Sleep, TakeFront, CopyFront, TakePop, Pop, TakeSignal, Leave, condVars, Threads
  <1> QED
    BY <1>2, <1>3, <1>4, <1>5, <1>6 DEF Next

LEMMA NextWakeupInv == WakeupInv /\ [Next]_vars => WakeupInv'
  <1> SUFFICES ASSUME WakeupInv, [Next]_vars PROVE WakeupInv'
    OBVIOUS
  <1>1. IInv' /\ SleepersWait'
    BY NextIInv, NextSleepers DEF WakeupInv
  <1>2. CASE UNCHANGED vars
    BY <1>1, <1>2 DEF WakeupInv, vars, queueVars, condVars, ItemsCovered, SlotsCovered,
                      AwakeConsumers, AwakeProducers, Owing, At
  <1>3. ASSUME NEW t \in Threads, Call(t) \/ Lock(t) \/ Unlock(t) \/ SpuriousWakeup(t)
        PROVE  ItemsCovered' /\ SlotsCovered'
    BY <1>3, QuietKeepsCover
  <1>4. ASSUME NEW p \in Producers, PutWait(p) \/ PutPush(p) \/ PutSignal(p)
        PROVE  ItemsCovered' /\ SlotsCovered'
    BY <1>4, WaitKeepsCover, PushKeepsCover, PutSignalKeepsCover
  <1>5. ASSUME NEW c \in Consumers,
               TakeWait(c) \/ TakeFront(c) \/ TakePop(c) \/ TakeSignal(c)
        PROVE  ItemsCovered' /\ SlotsCovered'
    <2>1. CASE TakeFront(c)
      BY <2>1, QuietKeepsCover DEF Threads
    <2> QED
      BY <1>5, <2>1, WaitKeepsCover, PopKeepsCover, TakeSignalKeepsCover
  <1> QED
    BY <1>1, <1>2, <1>3, <1>4, <1>5 DEF Next, WakeupInv

\* No wakeup of condition_bounded_blocking_queue.h is lost, for any number of
\* threads: the invariant the run checks.
THEOREM WakeupsKept == Spec => []NoLostWakeup
  <1>1. Init => WakeupInv
    BY InitIInv DEF Init, WakeupInv, SleepersWait, Asleep, ItemsCovered, SlotsCovered
  <1>2. WakeupInv /\ [Next]_vars => WakeupInv'
    BY NextWakeupInv
  <1>3. WakeupInv => NoLostWakeup
    BY DEF WakeupInv, ItemsCovered, SlotsCovered, NoLostWakeup
  <1> QED
    BY <1>1, <1>2, <1>3, PTL DEF Spec
=============================================================================
