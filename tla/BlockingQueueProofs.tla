------------------------- MODULE BlockingQueueProofs -------------------------
(***************************************************************************)
(* What follows from the shared bodies of put and take alone, however a    *)
(* queue waits and notifies: mutual exclusion, a front element that stays  *)
(* put between its copy and its pop, and the refinement of BoundedFifo.    *)
(* ConditionQueueProofs and SemaphoreQueueProofs show that every step of   *)
(* their queue is a BodyStep and then cite the three lemmas at the end.    *)
(***************************************************************************)
EXTENDS BlockingQueue, FiniteSetTheorems, TLAPS

\* The holder of the mutex is the one thread inside the critical section.
MutualExclusion ==
    \A t \in Threads : mutex = t <=> pc[t] \in {"check", "pop", "unlock"}

\* A consumer about to pop still has the copy of the item it will pop.
FrontIsCopied ==
    \A t \in Threads : pc[t] = "pop" =>
        t \in Consumers /\ queue # <<>> /\ front[t] = Head(queue)

\* TypeOK is not inductive alone: Pop stays in type only if the queue is not
\* empty and the copy is an item, and both hold only under mutual exclusion.
QueueInv == QueueTypeOK /\ MutualExclusion /\ FrontIsCopied

\* put or take waits: it gives the mutex back, or is admitted to the lock.
YieldMutex(t) ==
    /\ pc[t] = "check"
    /\ mutex' = NoThread
    /\ Goto(t, "wait")
    /\ UNCHANGED <<queue, front, done, got>>

Admit(t) ==
    /\ pc[t] = "wait"
    /\ Goto(t, "lock")
    /\ UNCHANGED <<mutex, queue, front, done, got>>

BodyStep(t) ==
    \/ Enter(t, "lock") \/ Enter(t, "wait")
    \/ YieldMutex(t) \/ Admit(t)
    \/ pc[t] \in {"lock", "wait"} /\ Acquire(t)
    \/ t \in Producers /\ Push(t)
    \/ t \in Consumers /\ (CopyFront(t) \/ Pop(t))
    \/ Release(t) \/ Leave(t)

BodyNext == \E t \in Threads : BodyStep(t)

-----------------------------------------------------------------------------
\* The constructor's state satisfies the invariant.
LEMMA BodyInit == QueueInit => QueueInv
  <1> SUFFICES ASSUME QueueInit PROVE QueueInv
    OBVIOUS
  <1>1. QueueTypeOK
    BY CapacityAssumption DEF QueueInit, QueueTypeOK, Places, Threads
  <1>2. MutualExclusion
    BY ThreadAssumption DEF QueueInit, MutualExclusion
  <1>3. FrontIsCopied
    BY DEF QueueInit, FrontIsCopied
  <1> QED
    BY <1>1, <1>2, <1>3 DEF QueueInv

\* A step of put or take that changes only where the thread is, or who holds
\* the mutex, keeps the invariant when it enters the critical section with a
\* free mutex and leaves it by freeing the mutex.
LEMMA MoveKeepsInv ==
  ASSUME NEW t \in Threads, NEW place \in Places \ {"pop"}, QueueInv,
         Goto(t, place), UNCHANGED <<queue, got>>,
         front' \in [Consumers -> Items \cup {NoItem}],
         \A c \in Consumers : c # t => front'[c] = front[c],
         done' \in [Threads -> Nat],
         \/ /\ pc[t] \notin {"check", "pop", "unlock"}
            /\ place \notin {"check", "pop", "unlock"}
            /\ mutex' = mutex
         \/ /\ mutex = NoThread
            /\ place \in {"check", "pop", "unlock"}
            /\ mutex' = t
         \/ /\ pc[t] \in {"check", "pop", "unlock"}
            /\ place \notin {"check", "pop", "unlock"}
            /\ mutex' = NoThread
  PROVE  QueueInv'
  <1> USE DEF QueueInv
  <1>1. QueueTypeOK'
    BY DEF QueueTypeOK, Goto
  <1>2. pc' = [pc EXCEPT ![t] = place] /\ pc \in [Threads -> Places]
    BY DEF QueueTypeOK, Goto
  <1>3. MutualExclusion'
    BY <1>2, ThreadAssumption DEF MutualExclusion
  <1>4. FrontIsCopied'
    BY <1>2, ThreadAssumption DEF FrontIsCopied, Threads
  <1> QED
    BY <1>1, <1>3, <1>4

\* push_back on a buffer that is not full appends and keeps the bound.
LEMMA PushBackAppends ==
  ASSUME NEW S, NEW q \in Seq(S), NEW x \in S, Len(q) <= Capacity, ~Full(q)
  PROVE  /\ PushBack(q, x) = Append(q, x)
         /\ PushBack(q, x) \in Seq(S)
         /\ Len(PushBack(q, x)) <= Capacity
         /\ Len(q) < Capacity
  BY CapacityAssumption DEF PushBack, Full

\* The next item of a producer is an item.
LEMMA NextItemType ==
  ASSUME NEW p \in Producers, QueueTypeOK
  PROVE  NextItem(p) \in Items
  BY DEF QueueTypeOK, NextItem, Items, Threads

\* The push of put keeps the invariant.
LEMMA PushKeepsInv ==
  ASSUME NEW p \in Producers, QueueInv, Push(p)
  PROVE  QueueInv'
  <1> USE DEF QueueInv
  <1>1. p \in Threads /\ p \notin Consumers
    BY ThreadAssumption DEF Threads
  <1>2. pc' = [pc EXCEPT ![p] = "unlock"] /\ pc \in [Threads -> Places]
    BY DEF QueueTypeOK, Push, Goto
  <1>3. queue' \in Seq(Items) /\ Len(queue') <= Capacity
    BY NextItemType, PushBackAppends DEF Push, QueueTypeOK
  <1>4. QueueTypeOK'
    BY <1>1, <1>2, <1>3 DEF Push, QueueTypeOK, Places
  <1>5. MutualExclusion'
    BY <1>1, <1>2, ThreadAssumption DEF MutualExclusion, Push
  <1>6. \A t \in Threads : pc[t] # "pop"
    BY <1>1, ThreadAssumption DEF MutualExclusion, Push
  <1>7. FrontIsCopied'
    BY <1>1, <1>2, <1>6 DEF FrontIsCopied
  <1> QED
    BY <1>4, <1>5, <1>7

\* Copying the front element in take keeps the invariant.
LEMMA CopyFrontKeepsInv ==
  ASSUME NEW c \in Consumers, QueueInv, CopyFront(c)
  PROVE  QueueInv'
  <1> USE DEF QueueInv
  <1>1. c \in Threads
    BY DEF Threads
  <1>2. pc' = [pc EXCEPT ![c] = "pop"] /\ pc \in [Threads -> Places]
    BY DEF QueueTypeOK, CopyFront, Goto
  <1>3. queue # <<>> /\ queue \in Seq(Items) /\ Head(queue) \in Items
    BY DEF QueueTypeOK, CopyFront, Empty
  <1>4. front' = [front EXCEPT ![c] = Head(queue)]
    BY DEF CopyFront, Front
  <1>5. QueueTypeOK'
    BY <1>1, <1>2, <1>3, <1>4 DEF CopyFront, QueueTypeOK, Places
  <1>6. MutualExclusion'
    BY <1>1, <1>2, ThreadAssumption DEF MutualExclusion, CopyFront
  <1>7. \A t \in Threads : pc[t] # "pop"
    BY <1>1, ThreadAssumption DEF MutualExclusion, CopyFront
  <1>8. FrontIsCopied'
    BY <1>1, <1>2, <1>3, <1>4, <1>7 DEF FrontIsCopied, CopyFront, QueueTypeOK
  <1> QED
    BY <1>5, <1>6, <1>8

\* The pop of take keeps the invariant.
LEMMA PopKeepsInv ==
  ASSUME NEW c \in Consumers, QueueInv, Pop(c)
  PROVE  QueueInv'
  <1> USE DEF QueueInv
  <1>1. c \in Threads
    BY DEF Threads
  <1>2. pc' = [pc EXCEPT ![c] = "unlock"] /\ pc \in [Threads -> Places]
    BY DEF QueueTypeOK, Pop, Goto
  <1>3. queue # <<>> /\ front[c] = Head(queue) /\ queue \in Seq(Items)
    BY <1>1 DEF FrontIsCopied, Pop, QueueTypeOK
  <1>4. /\ queue' \in Seq(Items) /\ Len(queue') <= Capacity
        /\ front[c] \in Items
    BY <1>3, CapacityAssumption DEF Pop, PopFront, QueueTypeOK
  <1>5. got' \in [Consumers -> Seq(Items)]
    BY <1>4 DEF Pop, QueueTypeOK
  <1>6. QueueTypeOK'
    BY <1>1, <1>2, <1>4, <1>5 DEF Pop, QueueTypeOK, Places
  <1>7. MutualExclusion'
    BY <1>1, <1>2, ThreadAssumption DEF MutualExclusion, Pop
  <1>8. \A t \in Threads : pc[t] = "pop" => t = c
    BY <1>1, ThreadAssumption DEF MutualExclusion, Pop
  <1>9. FrontIsCopied'
    BY <1>1, <1>2, <1>8 DEF FrontIsCopied
  <1> QED
    BY <1>6, <1>7, <1>9

-----------------------------------------------------------------------------
\* How many threads of T are at some places, after thread t has moved: the
\* counting step of every argument about permits and wakeups.
LEMMA CountAt ==
  ASSUME NEW T \in SUBSET Threads, NEW S, NEW t \in Threads,
         NEW place \in Places, pc \in [Threads -> Places], Goto(t, place)
  PROVE  /\ Cardinality(At(T, S)) \in Nat
         /\ t \in T /\ place \in S /\ pc[t] \notin S
              => Cardinality(At(T, S)') = Cardinality(At(T, S)) + 1
         /\ t \in T /\ place \notin S /\ pc[t] \in S
              => Cardinality(At(T, S)') = Cardinality(At(T, S)) - 1
         /\ t \notin T \/ (place \in S <=> pc[t] \in S)
              => Cardinality(At(T, S)') = Cardinality(At(T, S))
  <1>1. IsFiniteSet(At(T, S))
    BY ThreadAssumption, FS_Subset DEF At
  <1>2. Cardinality(At(T, S)) \in Nat
    BY <1>1, FS_CardinalityType
  <1>3. CASE t \in T /\ place \in S /\ pc[t] \notin S
    <2>1. At(T, S)' = At(T, S) \cup {t} /\ t \notin At(T, S)
      BY <1>3 DEF At, Goto
    <2> QED
      BY <1>1, <1>2, <1>3, <2>1, FS_AddElement
  <1>4. CASE t \in T /\ place \notin S /\ pc[t] \in S
    <2>1. At(T, S)' = At(T, S) \ {t} /\ t \in At(T, S)
      BY <1>4 DEF At, Goto
    <2> QED
      BY <1>1, <1>2, <1>4, <2>1, FS_RemoveElement
  <1>5. CASE t \notin T \/ (place \in S <=> pc[t] \in S)
    <2>1. At(T, S)' = At(T, S)
      BY <1>5 DEF At, Goto
    <2> QED
      BY <1>2, <1>5, <2>1
  <1> QED
    BY <1>3, <1>4, <1>5

-----------------------------------------------------------------------------
\* Every step of put and take keeps the invariant.
LEMMA BodyStepKeepsInv == QueueInv /\ [BodyNext]_queueVars => QueueInv'
  <1> SUFFICES ASSUME QueueInv, [BodyNext]_queueVars PROVE QueueInv'
    OBVIOUS
  <1>1. CASE UNCHANGED queueVars
    BY <1>1 DEF queueVars, QueueInv, QueueTypeOK, MutualExclusion, FrontIsCopied
  <1>2. ASSUME NEW t \in Threads, BodyStep(t) PROVE QueueInv'
    <2> USE DEF Places
    <2>0. QueueTypeOK
      BY DEF QueueInv
    <2>1. CASE Enter(t, "lock") \/ Enter(t, "wait")
      BY <2>0, <2>1, MoveKeepsInv DEF Enter, QueueTypeOK
    <2>2. CASE YieldMutex(t)
      BY <2>0, <2>2, MoveKeepsInv DEF YieldMutex, QueueTypeOK
    <2>3. CASE Admit(t)
      BY <2>0, <2>3, MoveKeepsInv DEF Admit, QueueTypeOK
    <2>4. CASE pc[t] \in {"lock", "wait"} /\ Acquire(t)
      BY <2>0, <2>4, MoveKeepsInv DEF Acquire, QueueTypeOK
    <2>5. CASE t \in Producers /\ Push(t)
      BY <2>5, PushKeepsInv
    <2>6. CASE t \in Consumers /\ (CopyFront(t) \/ Pop(t))
      BY <2>6, CopyFrontKeepsInv, PopKeepsInv
    <2>7. CASE Release(t)
      BY <2>0, <2>7, MoveKeepsInv DEF Release, QueueTypeOK
    <2>8. CASE Leave(t)
      <3>1. front' \in [Consumers -> Items \cup {NoItem}]
        BY <2>0, <2>8 DEF Leave, QueueTypeOK
      <3>2. done' \in [Threads -> Nat]
        BY <2>0, <2>8 DEF Leave, QueueTypeOK
      <3>3. \A c \in Consumers : c # t => front'[c] = front[c]
        BY <2>8 DEF Leave
      <3>4. /\ pc[t] \in {"check", "pop", "unlock"} <=> FALSE
            /\ Goto(t, "idle") /\ UNCHANGED <<mutex, queue, got>>
        BY <2>8 DEF Leave
      <3> QED
        BY <3>1, <3>2, <3>3, <3>4, MoveKeepsInv
    <2> QED
      BY <1>2, <2>1, <2>2, <2>3, <2>4, <2>5, <2>6, <2>7, <2>8 DEF BodyStep
  <1> QED
    BY <1>1, <1>2 DEF BodyNext

\* The shared bodies start where BoundedFifo starts.
LEMMA BodyInitRefines == QueueInit => Fifo!Init
  BY DEF QueueInit, Fifo!Init, Phase, Fifo!Threads, Threads

\* In a step of BodyNext a thread other than t keeps its phase.
LEMMA PhaseAfterGoto ==
  ASSUME NEW t \in Threads, NEW place \in Places, QueueTypeOK, Goto(t, place)
  PROVE  /\ [u \in Threads |-> Phase(u)]' =
              [[u \in Threads |-> Phase(u)] EXCEPT ![t] =
                 CASE place = "idle"                 -> "idle"
                   [] place \in {"unlock", "signal"} -> "committed"
                   [] OTHER                          -> "called"]
         /\ [u \in Threads |-> Phase(u)][t] = Phase(t)
  BY DEF QueueTypeOK, Goto, Phase, Places

\* Every step of put and take is a step of BoundedFifo or changes nothing its
\* callers see: push_back commits the put, pop_front commits the take.
LEMMA BodyStepRefines ==
  QueueInv /\ [BodyNext]_queueVars => [Fifo!Next]_(Fifo!vars)
  <1> SUFFICES ASSUME QueueInv, [BodyNext]_queueVars PROVE [Fifo!Next]_(Fifo!vars)
    OBVIOUS
  <1> DEFINE phase == [u \in Threads |-> Phase(u)]
  <1>0. QueueTypeOK
    BY DEF QueueInv
  <1>1. CASE UNCHANGED queueVars
    BY <1>1 DEF queueVars, Fifo!vars, Phase
  <1>2. ASSUME NEW t \in Threads, BodyStep(t) PROVE [Fifo!Next]_(Fifo!vars)
    <2> USE DEF Places
    <2>0. ASSUME NEW place \in Places, Goto(t, place), UNCHANGED <<queue, done, got>>,
                 \/ pc[t] \in {"wait", "lock", "check"} /\ place \in {"wait", "lock", "check", "pop"}
                 \/ pc[t] = "unlock" /\ place = "signal"
          PROVE  UNCHANGED Fifo!vars
      <3>1. phase' = phase
        BY <1>0, <2>0 DEF QueueTypeOK, Goto, Phase
      <3> QED
        BY <2>0, <3>1 DEF Fifo!vars
    <2>1. CASE Enter(t, "lock") \/ Enter(t, "wait")
      <3>1. phase' = [phase EXCEPT ![t] = "called"] /\ phase[t] = "idle"
        BY <1>0, <2>1, PhaseAfterGoto DEF Enter, Phase
      <3>2. Fifo!Call(t)
        BY <2>1, <3>1 DEF Enter, Fifo!Call, Quota, Fifo!Quota
      <3> QED
        BY <3>2 DEF Fifo!Next, Fifo!Threads, Threads
    <2>2. CASE YieldMutex(t)
      BY <2>0, <2>2 DEF YieldMutex
    <2>3. CASE Admit(t)
      BY <2>0, <2>3 DEF Admit
    <2>4. CASE pc[t] \in {"lock", "wait"} /\ Acquire(t)
      BY <2>0, <2>4 DEF Acquire
    <2>5. CASE t \in Producers /\ Push(t)
      <3>1. phase' = [phase EXCEPT ![t] = "committed"] /\ phase[t] = "called"
        BY <1>0, <2>5, PhaseAfterGoto DEF Push, Phase
      <3>2. queue' = Append(queue, NextItem(t)) /\ Len(queue) < Capacity
        BY <1>0, <2>5, NextItemType, PushBackAppends DEF Push, QueueTypeOK
      <3>3. Fifo!CommitPut(t)
        BY <2>5, <3>1, <3>2 DEF Push, Fifo!CommitPut, NextItem
      <3> QED
        BY <2>5, <3>3 DEF Fifo!Next
    <2>6. CASE t \in Consumers /\ CopyFront(t)
      BY <2>0, <2>6 DEF CopyFront
    <2>7. CASE t \in Consumers /\ Pop(t)
      <3>1. phase' = [phase EXCEPT ![t] = "committed"] /\ phase[t] = "called"
        BY <1>0, <2>7, PhaseAfterGoto DEF Pop, Phase
      <3>2. queue # <<>> /\ front[t] = Head(queue)
        BY <2>7 DEF QueueInv, FrontIsCopied, Pop
      <3>3. Fifo!CommitTake(t)
        BY <2>7, <3>1, <3>2 DEF Pop, PopFront, Fifo!CommitTake
      <3> QED
        BY <2>7, <3>3 DEF Fifo!Next
    <2>8. CASE Release(t)
      BY <2>0, <2>8 DEF Release
    <2>9. CASE Leave(t)
      <3>1. phase' = [phase EXCEPT ![t] = "idle"] /\ phase[t] = "committed"
        BY <1>0, <2>9, PhaseAfterGoto DEF Leave, Phase
      <3>2. Fifo!Return(t)
        BY <2>9, <3>1 DEF Leave, Fifo!Return
      <3> QED
        BY <3>2 DEF Fifo!Next, Fifo!Threads, Threads
    <2> QED
      BY <1>2, <2>1, <2>2, <2>3, <2>4, <2>5, <2>6, <2>7, <2>8, <2>9 DEF BodyStep
  <1> QED
    BY <1>1, <1>2 DEF BodyNext
=============================================================================
