--------------------------- MODULE UtilitiesProofs ---------------------------
(***************************************************************************)
(* What the small components do for any number of threads, any width of    *)
(* the words, any capacity, any number of nodes, lists and processes, and  *)
(* words and files of any length: nobody leaves a barrier early, a loop    *)
(* over a range stays in it, an update of ProcStat that succeeds is about  *)
(* one process, the cache holds what was used last, the free nodes of the  *)
(* slab pool are those given back, a list holds what was pushed, the trie  *)
(* finds the words that were inserted, and load reads what a file says.    *)
(* Each component has its own inductive invariant; a step of Utilities is  *)
(* one of the active component, and leaves the variables of the others     *)
(* alone.                                                                  *)
(***************************************************************************)
EXTENDS Utilities, Chains, FiniteSetTheorems, SequenceTheorems, WellFoundedInduction, TLAPS

-----------------------------------------------------------------------------
\* Barrier.

\* Until all parties have called await, the counter says how many are missing.
CounterOK == Cardinality(Arrived) < needed => parties = needed - Cardinality(Arrived)

\* The counter alone does not forbid a thread to have passed already.
BarrierInv == TypeOK /\ CounterOK /\ NobodyEarly

LEMMA ArrivedIsFinite ==
  /\ IsFiniteSet(Arrived)
  /\ Cardinality(Arrived) \in Nat
  <1>1. Arrived \in SUBSET Threads
    BY DEF Arrived, At
  <1> QED
    BY <1>1, BarrierAssumption, FS_Subset, FS_CardinalityType

LEMMA BarrierInit == Init => BarrierInv
  <1> SUFFICES ASSUME Init PROVE BarrierInv
    OBVIOUS
  <1>1. At("waiting") = {} /\ At("passed") = {} /\ Arrived = {}
    BY DEF Init, At, Arrived
  <1>2. Cardinality(Arrived) = 0
    BY <1>1, FS_EmptySet
  <1>3. TypeOK
    BY <1>1, BarrierAssumption DEF Init, TypeOK
  <1>4. CounterOK
    BY <1>2, BarrierAssumption DEF Init, CounterOK
  <1> QED
    BY <1>1, <1>3, <1>4 DEF BarrierInv, NobodyEarly

\* One more thread has called await.
LEMMA OneMoreArrived ==
  ASSUME TypeOK, NEW t \in Threads, Arrive(t)
  PROVE  Cardinality(Arrived') = Cardinality(Arrived) + 1
  <1>1. t \notin Arrived
    BY DEF Arrive, Arrived, At
  <1>2. Arrived' = Arrived \cup {t}
    <2>1. pc' = [pc EXCEPT ![t] = "waiting"] \/ pc' = [pc EXCEPT ![t] = "passed"]
      BY DEF Arrive, Goto
    <2> QED
      BY <2>1 DEF TypeOK, Arrived, At
  <1> QED
    BY <1>1, <1>2, ArrivedIsFinite, FS_AddElement

LEMMA BarrierTypeOK == TypeOK /\ [Next]_vars => TypeOK'
  <1> SUFFICES ASSUME TypeOK, [Next]_vars PROVE TypeOK'
    OBVIOUS
  <1> USE BarrierAssumption DEF TypeOK, At
  <1>1. ASSUME NEW t \in Threads, Arrive(t) PROVE TypeOK'
    BY <1>1 DEF Arrive, Goto, Decremented
  <1>2. ASSUME NEW t \in Threads, SpuriousWakeup(t) PROVE TypeOK'
    BY <1>2 DEF SpuriousWakeup
  <1>3. ASSUME NEW t \in Threads, Resume(t) PROVE TypeOK'
    BY <1>3 DEF Resume, Goto
  <1>4. CASE UNCHANGED vars
    BY <1>4 DEF vars
  <1> QED
    BY <1>1, <1>2, <1>3, <1>4 DEF Next

LEMMA BarrierStep == BarrierInv /\ [Next]_vars => BarrierInv'
  <1> SUFFICES ASSUME BarrierInv, [Next]_vars PROVE BarrierInv'
    OBVIOUS
  <1>1. TypeOK /\ TypeOK'
    BY BarrierTypeOK DEF BarrierInv
  <1>2. Cardinality(Arrived) \in Nat /\ parties \in 0..Word - 1 /\ needed \in 1..Word - 1
        /\ Word \in Nat
    BY <1>1, ArrivedIsFinite, BarrierAssumption DEF TypeOK
  <1>3. ASSUME NEW t \in Threads, Arrive(t) PROVE (CounterOK /\ NobodyEarly)'
    <2>0. needed' = needed
      BY <1>3 DEF Arrive
    <2>1. Cardinality(Arrived') = Cardinality(Arrived) + 1
      BY <1>1, <1>3, OneMoreArrived
    <2>2. parties' = IF parties = 0 THEN Word - 1 ELSE parties - 1
      BY <1>3 DEF Arrive, Decremented
    <2>3. CounterOK'
      BY <1>2, <2>0, <2>1, <2>2 DEF BarrierInv, CounterOK
    <2>4. parties' = 0 => Cardinality(Arrived') >= needed
      BY <1>2, <2>1, <2>2 DEF BarrierInv, CounterOK
    <2>5. parties' # 0 => At("passed")' = At("passed")
      BY <1>1, <1>3 DEF Arrive, Goto, At, TypeOK
    <2>6. At("passed") # {} => Cardinality(Arrived') >= needed
      BY <1>2, <2>1 DEF BarrierInv, NobodyEarly
    <2> QED
      BY <2>0, <2>3, <2>4, <2>5, <2>6 DEF NobodyEarly
  <1>4. ASSUME NEW t \in Threads, SpuriousWakeup(t) PROVE (CounterOK /\ NobodyEarly)'
    BY <1>4 DEF SpuriousWakeup, BarrierInv, CounterOK, NobodyEarly, Arrived, At
  <1>5. ASSUME NEW t \in Threads, Resume(t) PROVE (CounterOK /\ NobodyEarly)'
    <2>1. parties' = parties /\ needed' = needed
      BY <1>5 DEF Resume
    <2>2. Arrived' = Arrived
      BY <1>1, <1>5 DEF Resume, Goto, Arrived, At, TypeOK
    <2>3. parties = 0 => Cardinality(Arrived) >= needed
      BY <1>2 DEF BarrierInv, CounterOK
    <2>4. parties # 0 => At("passed")' = At("passed")
      BY <1>5 DEF Resume, At
    <2> QED
      BY <2>1, <2>2, <2>3, <2>4 DEF BarrierInv, CounterOK, NobodyEarly
  <1>6. ASSUME UNCHANGED vars PROVE (CounterOK /\ NobodyEarly)'
    BY <1>6 DEF vars, BarrierInv, CounterOK, NobodyEarly, Arrived, At
  <1> QED
    BY <1>1, <1>3, <1>4, <1>5, <1>6 DEF Next, BarrierInv

\* Nobody passes before every party has called await, even when more threads
\* call it than there are parties and the counter wraps (await of barrier.h).
THEOREM NobodyPassesEarly == Spec => [](TypeOK /\ NobodyEarly)
  <1>1. BarrierInv => TypeOK /\ NobodyEarly
    BY DEF BarrierInv
  <1> QED
    BY <1>1, BarrierInit, BarrierStep, PTL DEF Spec

-----------------------------------------------------------------------------
\* Range.

LoopInv == Loop!TypeOK /\ Loop!StaysInRange

\* The type is an interval.
LEMMA WordsAreAnInterval ==
  ASSUME Loop!WordAssumption
  PROVE  \E low, high \in Int : Loop!T = low..high
  <1>1. Word \in Nat /\ Word \div 2 \in Nat
    BY DEF Loop!WordAssumption
  <1>2. CASE sign = "signed"
    <2>1. Loop!T = -(Word \div 2)..(Word - Word \div 2 - 1)
      BY <1>2 DEF Loop!T
    <2>2. -(Word \div 2) \in Int /\ Word - Word \div 2 - 1 \in Int
      BY <1>1
    <2> QED
      BY <2>1, <2>2
  <1>3. CASE sign # "signed"
    <2>1. Loop!T = 0..(Word - 1)
      BY <1>3 DEF Loop!T
    <2>2. 0 \in Int /\ Word - 1 \in Int
      BY <1>1
    <2> QED
      BY <2>1, <2>2
  <1> QED
    BY <1>2, <1>3

\* Fewer steps lead less far, and one more of them not beyond.
LEMMA OneStepMore ==
  ASSUME NEW k \in Nat, NEW n \in Nat, NEW s \in Nat \ {0}, k * s < n * s
  PROVE  /\ k < n
         /\ (k + 1) * s = k * s + s
         /\ (k + 1) * s <= n * s
  <1>1. (k + 1) * s = k * s + s
    OBVIOUS
  <1>2. k < n
    <2> SUFFICES ASSUME n <= k PROVE FALSE
      OBVIOUS
    <2>1. PICK d \in Nat : k = n + d
      <3>1. k - n \in Nat /\ k = n + (k - n)
        OBVIOUS
      <3> QED
        BY <3>1
    <2>2. k * s = n * s + d * s
      BY <2>1
    <2>3. d * s \in Nat /\ n * s \in Nat
      OBVIOUS
    <2> QED
      BY <2>2, <2>3
  <1>3. PICK d \in Nat : n = (k + 1) + d
    <2>1. n - (k + 1) \in Nat /\ n = (k + 1) + (n - (k + 1))
      BY <1>2
    <2> QED
      BY <2>1
  <1>4. n * s = (k + 1) * s + d * s /\ d * s \in Nat /\ (k + 1) * s \in Nat
    BY <1>3
  <1> QED
    BY <1>1, <1>2, <1>4

LEMMA LoopInit == Loop!WordAssumption /\ Loop!Init => LoopInv
  <1> SUFFICES ASSUME Loop!WordAssumption, Loop!Init PROVE LoopInv
    OBVIOUS
  <1>1. Loop!TypeOK
    BY DEF Loop!Init, Loop!TypeOK
  <1>2. first \in Int /\ bound \in Int /\ step \in Int
    BY WordsAreAnInterval DEF Loop!Init
  <1>3. ASSUME Loop!Even PROVE \E k \in 0..Word - 1 : value = first + k * step /\ value <= bound
    <2>1. PICK n \in 0..Word - 1 : bound = first + n * step
      BY <1>3 DEF Loop!Even
    <2>2. step \in Nat /\ n \in Nat
      BY <1>2, <1>3 DEF Loop!Even, Loop!WordAssumption
    <2>3. n * step \in Nat
      BY <2>2
    <2>4. first <= bound
      BY <1>2, <2>1, <2>3
    <2>5. first = first + 0 * step
      BY <1>2
    <2>6. 0 \in 0..Word - 1
      BY DEF Loop!WordAssumption
    <2> QED
      BY <2>4, <2>5, <2>6 DEF Loop!Init
  <1> QED
    BY <1>1, <1>3 DEF LoopInv, Loop!StaysInRange

\* Before the bound the next sum fits, and does not lead beyond it.
LEMMA NextSumFits ==
  ASSUME Loop!WordAssumption, Loop!TypeOK, Loop!StaysInRange, Loop!Even, value # bound
  PROVE  /\ value + step \in Loop!T
         /\ \E k \in 0..Word - 1 : value + step = first + k * step
         /\ value + step <= bound
  <1>1. PICK low \in Int, high \in Int : Loop!T = low..high
    BY WordsAreAnInterval
  <1>2. first \in Int /\ bound \in Int /\ value \in Int /\ step \in Nat \ {0}
    BY <1>1 DEF Loop!TypeOK, Loop!Even
  <1>3. PICK n \in 0..Word - 1 : bound = first + n * step
    BY DEF Loop!Even
  <1>4. PICK k \in 0..Word - 1 : value = first + k * step /\ value <= bound
    BY DEF Loop!StaysInRange
  <1>5. k \in Nat /\ n \in Nat /\ Word \in Nat
    BY DEF Loop!WordAssumption
  <1>6. k * step \in Int /\ n * step \in Int
    BY <1>2, <1>5
  <1>7. k * step < n * step
    BY <1>2, <1>3, <1>4, <1>6
  <1>8. k < n /\ (k + 1) * step = k * step + step /\ (k + 1) * step <= n * step
    BY <1>2, <1>5, <1>7, OneStepMore
  <1>9. value + step = first + (k + 1) * step /\ value + step <= bound
    BY <1>2, <1>3, <1>4, <1>6, <1>8
  <1>10. value + step \in Loop!T
    BY <1>1, <1>2, <1>9 DEF Loop!TypeOK
  <1>11. k + 1 \in 0..Word - 1
    BY <1>5, <1>8
  <1> QED
    BY <1>9, <1>10, <1>11

LEMMA LoopStep == Loop!WordAssumption /\ LoopInv /\ [Loop!Next]_Loop!vars => LoopInv'
  <1> SUFFICES ASSUME Loop!WordAssumption, LoopInv, [Loop!Next]_Loop!vars PROVE LoopInv'
    OBVIOUS
  <1>1. CASE UNCHANGED Loop!vars
    BY <1>1 DEF Loop!vars, LoopInv, Loop!TypeOK, Loop!StaysInRange, Loop!Even, Loop!T
  <1>2. CASE Loop!Increment
    <2>1. UNCHANGED <<sign, first, bound, step>> /\ value' \in Loop!Sums /\ value # bound
      BY <1>2 DEF Loop!Increment
    <2>2. Loop!T' = Loop!T /\ (Loop!Even' <=> Loop!Even)
      BY <2>1 DEF Loop!T, Loop!Even
    <2>3. Loop!Sums \subseteq Loop!T
      <3>1. CASE value + step \in Loop!T
        BY <3>1 DEF Loop!Sums
      <3>2. CASE value + step \notin Loop!T /\ sign = "signed"
        BY <3>2 DEF Loop!Sums
      <3>3. CASE value + step \notin Loop!T /\ sign # "signed"
        <4>1. Loop!T = 0..Word - 1
          BY <3>3 DEF Loop!T
        <4>2. Word \in Nat \ {0} /\ value \in Int /\ step \in Int
          BY <4>1 DEF LoopInv, Loop!TypeOK, Loop!WordAssumption
        <4>3. (value + step) % Word \in 0..Word - 1
          BY <4>2
        <4> QED
          BY <3>3, <4>1, <4>3 DEF Loop!Sums
      <3> QED
        BY <3>1, <3>2, <3>3
    <2>4. Loop!TypeOK'
      BY <2>1, <2>2, <2>3 DEF LoopInv, Loop!TypeOK
    <2>5. ASSUME Loop!Even
          PROVE  \E k \in 0..Word - 1 : value' = first + k * step /\ value' <= bound
      <3>1. value' = value + step
        BY <2>1, <2>5, NextSumFits DEF LoopInv, Loop!Sums
      <3> QED
        BY <2>1, <2>5, <3>1, NextSumFits DEF LoopInv
    <2> QED
      BY <2>1, <2>2, <2>4, <2>5 DEF LoopInv, Loop!StaysInRange
  <1> QED
    BY <1>1, <1>2 DEF Loop!Next

\* The iterator keeps to the type, and when the step leads to the end it takes
\* start, start + step and so on, and nothing beyond end; no sum then overflows
\* or wraps (operator++ and operator!= of range.h).
THEOREM LoopStaysInRange == SpecAll => []StaysInRange
  <1>1. InitAll => LoopInv
    BY LoopInit, UtilitiesAssumption DEF InitAll
  <1>2. LoopInv /\ [NextAll]_varsAll => LoopInv'
    <2>1. [NextAll]_varsAll => [Loop!Next]_Loop!vars
      BY DEF NextAll, varsAll, rangeVars, Loop!vars
    <2> QED
      BY <2>1, LoopStep, UtilitiesAssumption
  <1>3. LoopInv => StaysInRange
    BY DEF LoopInv, StaysInRange
  <1> QED
    BY <1>1, <1>2, <1>3, PTL DEF SpecAll

-----------------------------------------------------------------------------
\* ProcStat.

\* If no process was started since access, the one that stat and open see is
\* the only one there was.
ProcInv ==
    /\ Proc!TypeOK
    /\ result = "true" => head # Proc!Nobody
    /\ head # Proc!Nobody /\ head \notin spaced => rest = head
    /\ call = "open" /\ ~restarted => running \in {ids, Proc!Nobody}
    /\ call = "read" /\ ~restarted => opened = ids
    /\ call = "idle" /\ result = "true" /\ ~restarted => ids = head

LEMMA ProcInit == Proc!Init => ProcInv
  <1> SUFFICES ASSUME Proc!Init PROVE ProcInv
    OBVIOUS
  <1>1. 0 \in 0..MaxProcesses
    BY UtilitiesAssumption DEF Proc!ProcessAssumption
  <1>2. Proc!TypeOK
    BY <1>1 DEF Proc!Init, Proc!TypeOK, Proc!Nobody
  <1> QED
    BY <1>2 DEF Proc!Init, ProcInv

LEMMA ProcStep == ProcInv /\ [Proc!Next]_Proc!vars => ProcInv'
  <1> SUFFICES ASSUME ProcInv, [Proc!Next]_Proc!vars PROVE ProcInv'
    OBVIOUS
  <1> USE DEF ProcInv, Proc!TypeOK, Proc!Goto, Proc!Returns, Proc!members, Proc!Nobody
  <1>1. MaxProcesses \in Nat
    BY UtilitiesAssumption DEF Proc!ProcessAssumption
  <1>2. CASE Proc!Exit
    BY <1>2 DEF Proc!Exit
  <1>3. CASE Proc!Start
    <2>1. started' \in 0..MaxProcesses /\ started' \in Proc!Processes
      BY <1>1, <1>3 DEF Proc!Start, Proc!Processes
    <2> QED
      BY <1>3, <2>1 DEF Proc!Start
  <1>4. CASE Proc!Access
    BY <1>4 DEF Proc!Access
  <1>5. CASE Proc!Stat
    BY <1>5 DEF Proc!Stat
  <1>6. CASE Proc!Open
    BY <1>6 DEF Proc!Open
  <1>7. CASE Proc!Read
    BY <1>7 DEF Proc!Read
  <1>8. CASE UNCHANGED Proc!vars
    BY <1>8 DEF Proc!vars
  <1> QED
    BY <1>2, <1>3, <1>4, <1>5, <1>6, <1>7, <1>8 DEF Proc!Next

\* However often the pid changes hands, an update that returned true is about
\* one process unless one was started meanwhile (update of proc_stat.h).
THEOREM UpdatesAreAboutOneProcess == SpecAll => []OneProcess
  <1>1. InitAll => ProcInv
    BY ProcInit DEF InitAll
  <1>2. ProcInv /\ [NextAll]_varsAll => ProcInv'
    <2>1. [NextAll]_varsAll => [Proc!Next]_Proc!vars
      BY DEF NextAll, varsAll, procVars, Proc!vars
    <2> QED
      BY <2>1, ProcStep
  <1>3. ProcInv => OneProcess
    BY DEF ProcInv, OneProcess, Proc!OneProcess
  <1> QED
    BY <1>1, <1>2, <1>3, PTL DEF SpecAll

\* Sequences.  x in front of s, from which the element at i is gone.
MovedUp(s, i, x) == <<x>> \o (SubSeq(s, 1, i - 1) \o SubSeq(s, i + 1, Len(s)))

\* Those before i move by one place.
IsMovedUp(t, s, i, x) ==
    /\ Len(t) = Len(s)
    /\ \A j \in 1..Len(s) : t[j] = IF j = 1 THEN x ELSE IF j <= i THEN s[j - 1] ELSE s[j]

LEMMA MovingUp ==
  ASSUME NEW S, NEW s \in Seq(S), NEW i \in 1..Len(s), NEW x \in S
  PROVE  MovedUp(s, i, x) \in Seq(S) /\ IsMovedUp(MovedUp(s, i, x), s, i, x)
  <1> DEFINE front == SubSeq(s, 1, i - 1)
             back == SubSeq(s, i + 1, Len(s))
             hind == front \o back
  <1>1. Len(s) \in Nat /\ i \in Nat /\ i >= 1 /\ i <= Len(s)
    OBVIOUS
  <1>2. front \in Seq(S) /\ Len(front) = i - 1 /\ \A j \in 1..i - 1 : front[j] = s[j]
    BY <1>1, SubSeqProperties
  <1>3. back \in Seq(S) /\ Len(back) = Len(s) - i /\ \A j \in 1..Len(s) - i : back[j] = s[i + j]
    <2>1. \A j \in i + 1..Len(s) : s[j] \in S
      BY <1>1
    <2>2. i + 1 \in Int /\ Len(s) \in Int
      BY <1>1
    <2>3. /\ back \in Seq(S)
          /\ Len(back) = IF i + 1 <= Len(s) THEN Len(s) - (i + 1) + 1 ELSE 0
          /\ \A j \in 1..Len(s) - (i + 1) + 1 : back[j] = s[i + 1 + j - 1]
      BY <2>1, <2>2, SubSeqProperties
    <2>4. \A j \in 1..Len(s) - i : back[j] = s[i + j]
      <3> TAKE j \in 1..Len(s) - i
      <3>1. j \in 1..Len(s) - (i + 1) + 1 /\ i + 1 + j - 1 = i + j
        BY <1>1
      <3> QED
        BY <2>3, <3>1
    <2>5. Len(back) = Len(s) - i
      BY <1>1, <2>3
    <2> QED
      BY <2>3, <2>4, <2>5
  <1> HIDE DEF front, back
  <1>4. /\ hind \in Seq(S) /\ Len(hind) = Len(s) - 1
        /\ \A j \in 1..Len(s) - 1 : hind[j] = IF j < i THEN s[j] ELSE s[j + 1]
    <2>0. hind \in Seq(S) /\ Len(hind) = Len(front) + Len(back)
      BY <1>2, <1>3, ConcatProperties
    <2>1. hind \in Seq(S) /\ Len(hind) = Len(s) - 1
      BY <1>1, <1>2, <1>3, <2>0
    <2>2. ASSUME NEW j \in 1..Len(s) - 1 PROVE hind[j] = IF j < i THEN s[j] ELSE s[j + 1]
      <3>1. hind[j] = IF j <= Len(front) THEN front[j] ELSE back[j - Len(front)]
        BY <1>1, <1>2, <1>3, ConcatProperties
      <3>2. CASE j < i
        BY <1>1, <1>2, <3>1, <3>2
      <3>3. CASE ~(j < i)
        <4>1. j - (i - 1) \in 1..Len(s) - i /\ i + (j - (i - 1)) = j + 1 /\ ~(j <= i - 1)
          BY <1>1, <3>3
        <4>2. hind[j] = back[j - (i - 1)]
          BY <1>2, <3>1, <4>1
        <4> QED
          BY <1>3, <3>3, <4>1, <4>2
      <3> QED
        BY <3>2, <3>3
    <2> QED
      BY <2>1, <2>2
  <1> HIDE DEF hind
  <1>5. MovedUp(s, i, x) = <<x>> \o hind
    BY DEF MovedUp, hind, front, back
  <1>6. <<x>> \in Seq(S) /\ Len(<<x>>) = 1 /\ <<x>>[1] = x
    OBVIOUS
  <1>7. <<x>> \o hind \in Seq(S) /\ Len(<<x>> \o hind) = Len(s)
    BY <1>1, <1>4, <1>6, ConcatProperties
  <1>8. ASSUME NEW j \in 1..Len(s)
        PROVE  (<<x>> \o hind)[j] = IF j = 1 THEN x ELSE IF j <= i THEN s[j - 1] ELSE s[j]
    <2>1. (<<x>> \o hind)[j] = IF j <= Len(<<x>>) THEN <<x>>[j] ELSE hind[j - Len(<<x>>)]
      BY <1>1, <1>4, <1>6, ConcatProperties
    <2>2. CASE j = 1
      BY <1>6, <2>1, <2>2
    <2>3. CASE j # 1
      <3>1. j - 1 \in 1..Len(s) - 1 /\ (j - 1 < i <=> j <= i) /\ j - 1 + 1 = j /\ ~(j <= 1)
        BY <1>1, <2>3
      <3>2. (<<x>> \o hind)[j] = hind[j - 1]
        BY <1>6, <2>1, <3>1
      <3> QED
        BY <1>4, <2>3, <3>1, <3>2
    <2> QED
      BY <2>2, <2>3
  <1> QED
    BY <1>5, <1>7, <1>8 DEF IsMovedUp

\* x in front of s.
IsPutInFront(t, s, x) ==
    /\ Len(t) = Len(s) + 1
    /\ \A j \in 1..Len(s) + 1 : t[j] = IF j = 1 THEN x ELSE s[j - 1]

LEMMA PuttingInFront ==
  ASSUME NEW S, NEW s \in Seq(S), NEW x \in S
  PROVE  <<x>> \o s \in Seq(S) /\ IsPutInFront(<<x>> \o s, s, x)
  <1>1. Len(s) \in Nat
    OBVIOUS
  <1>2. <<x>> \in Seq(S) /\ Len(<<x>>) = 1 /\ <<x>>[1] = x
    OBVIOUS
  <1>3. <<x>> \o s \in Seq(S) /\ Len(<<x>> \o s) = Len(s) + 1
    BY <1>1, <1>2, ConcatProperties
  <1>4. ASSUME NEW j \in 1..Len(s) + 1 PROVE (<<x>> \o s)[j] = IF j = 1 THEN x ELSE s[j - 1]
    <2>1. (<<x>> \o s)[j] = IF j <= Len(<<x>>) THEN <<x>>[j] ELSE s[j - Len(<<x>>)]
      BY <1>1, <1>2, ConcatProperties
    <2>2. CASE j = 1
      BY <1>2, <2>1, <2>2
    <2>3. CASE j # 1
      BY <1>1, <1>2, <2>1, <2>3
    <2> QED
      BY <2>2, <2>3
  <1> QED
    BY <1>3, <1>4 DEF IsPutInFront

\* The last element is gone.
LEMMA DroppingLast ==
  ASSUME NEW S, NEW s \in Seq(S), Len(s) > 0
  PROVE  /\ SubSeq(s, 1, Len(s) - 1) \in Seq(S)
         /\ Len(SubSeq(s, 1, Len(s) - 1)) = Len(s) - 1
         /\ \A j \in 1..Len(s) - 1 : SubSeq(s, 1, Len(s) - 1)[j] = s[j]
  <1>1. Len(s) \in Nat /\ Len(s) - 1 \in Int /\ \A j \in 1..Len(s) - 1 : s[j] \in S
    OBVIOUS
  <1> DEFINE r == SubSeq(s, 1, Len(s) - 1)
  <1>2. /\ r \in Seq(S) /\ Len(r) = IF 1 <= Len(s) - 1 THEN Len(s) - 1 - 1 + 1 ELSE 0
        /\ \A j \in 1..Len(s) - 1 - 1 + 1 : r[j] = s[1 + j - 1]
    BY <1>1, SubSeqProperties
  <1> HIDE DEF r
  <1>3. ASSUME NEW j \in 1..Len(s) - 1 PROVE r[j] = s[j]
    <2>1. j \in 1..Len(s) - 1 - 1 + 1 /\ 1 + j - 1 = j
      BY <1>1
    <2> QED
      BY <1>2, <2>1
  <1>4. Len(r) = Len(s) - 1
    <2>1. PICK n \in Nat : n = Len(s)
      BY <1>1
    <2>2. n > 0
      BY <2>1
    <2>3. Len(r) = IF 1 <= n - 1 THEN n - 1 - 1 + 1 ELSE 0
      BY <1>2, <2>1
    <2>4. Len(r) = n - 1
      BY <2>2, <2>3
    <2> QED
      BY <2>1, <2>4
  <1> QED
    BY <1>2, <1>3, <1>4 DEF r

\* The uses in s of other keys than k.
Forget(s, k) == Lru!RemoveFirstMatch(s, LAMBDA e : e[1] = k)

LEMMA Forgetting ==
  ASSUME NEW S, NEW s \in Seq(S), NEW k,
         \A h, j \in 1..Len(s) : s[h][1] = s[j][1] => h = j
  PROVE  /\ \A i \in 1..Len(s) : s[i][1] = k =>
               Forget(s, k) = SubSeq(s, 1, i - 1) \o SubSeq(s, i + 1, Len(s))
         /\ (\A i \in 1..Len(s) : s[i][1] # k) => Forget(s, k) = s
  <1>1. ASSUME NEW i \in 1..Len(s), s[i][1] = k
        PROVE  Forget(s, k) = SubSeq(s, 1, i - 1) \o SubSeq(s, i + 1, Len(s))
    <2>1. {j \in 1..Len(s) : s[j][1] = k} = {i}
      BY <1>1
    <2>2. Lru!SelectInSeq(s, LAMBDA e : e[1] = k) = i
      BY <2>1 DEF Lru!SelectInSeq, Lru!Min
    <2> QED
      BY <1>1, <2>2 DEF Forget, Lru!RemoveFirstMatch, Lru!RemoveAt
  <1>2. (\A i \in 1..Len(s) : s[i][1] # k) => Forget(s, k) = s
    BY DEF Forget, Lru!RemoveFirstMatch
  <1> QED
    BY <1>1, <1>2

\* What is known of a sequence without repetitions.
LEMMA RemovingOne ==
  ASSUME NEW S, NEW s \in Seq(S), Lru!IsInjective(s)
  PROVE  /\ \A i \in 1..Len(s) :
               Lru!RemoveFirst(s, s[i]) = SubSeq(s, 1, i - 1) \o SubSeq(s, i + 1, Len(s))
         /\ \A n : n \notin Lru!ToSet(s) => Lru!RemoveFirst(s, n) = s
  <1>0. DOMAIN s = 1..Len(s)
    OBVIOUS
  <1>1. ASSUME NEW i \in 1..Len(s)
        PROVE  Lru!RemoveFirst(s, s[i]) = SubSeq(s, 1, i - 1) \o SubSeq(s, i + 1, Len(s))
    <2>1. {j \in 1..Len(s) : s[j] = s[i]} = {i}
      BY <1>0, <1>1 DEF Lru!IsInjective
    <2>2. Lru!SelectInSeq(s, LAMBDA v : v = s[i]) = i
      BY <2>1 DEF Lru!SelectInSeq, Lru!Min
    <2> QED
      BY <1>1, <2>2 DEF Lru!RemoveFirst, Lru!RemoveAt
  <1>2. \A n : n \notin Lru!ToSet(s) => Lru!RemoveFirst(s, n) = s
    BY <1>0 DEF Lru!RemoveFirst, Lru!ToSet
  <1> QED
    BY <1>1, <1>2

-----------------------------------------------------------------------------
\* LruCache.

\* The nodes of the list hold what was used last, and the index leads to them.
CacheInv ==
    /\ Lru!TypeOK
    /\ Len(cache) = IF Len(used) < CacheCapacity THEN Len(used) ELSE CacheCapacity
    /\ \A i \in 1..Len(cache) : entry[cache[i]] = used[i] /\ index[used[i][1]] = cache[i]
    /\ DOMAIN index = {used[i][1] : i \in 1..Len(cache)}
    /\ \A i, j \in 1..Len(used) : used[i][1] = used[j][1] => i = j

LEMMA CacheInit == Lru!Init => CacheInv
  <1> SUFFICES ASSUME Lru!Init PROVE CacheInv
    OBVIOUS
  <1>1. CacheCapacity \in Nat \ {0}
    BY UtilitiesAssumption DEF Lru!CapacityAssumption
  <1>2. cache = <<>> /\ used = <<>> /\ entry = <<>> /\ index = <<>>
    BY DEF Lru!Init
  <1>3. Len(cache) = 0 /\ Len(used) = 0 /\ DOMAIN index = {} /\ DOMAIN entry = {} /\ DOMAIN cache = {}
    BY <1>2
  <1>4. Lru!ToSet(cache) = {} /\ Lru!IsInjective(cache)
    BY <1>3 DEF Lru!ToSet, Lru!IsInjective
  <1>5. entry \in [{} -> CacheKeys \X CacheValues]
    BY <1>2
  <1>6. Lru!TypeOK
    BY <1>2, <1>3, <1>4, <1>5 DEF Lru!TypeOK
  <1> QED
    BY <1>1, <1>3, <1>6 DEF CacheInv

\* What CacheInv says of positions.
CacheSeen ==
    /\ CacheCapacity \in Nat \ {0}
    /\ cache \in Seq(Lru!Nodes) /\ used \in Seq(CacheKeys \X CacheValues)
    /\ Len(cache) \in Nat /\ Len(used) \in Nat
    /\ Len(cache) <= Len(used) /\ Len(cache) <= CacheCapacity
    /\ DOMAIN cache = 1..Len(cache) /\ DOMAIN used = 1..Len(used)
    /\ \A i, j \in 1..Len(cache) : cache[i] = cache[j] => i = j
    /\ Lru!ToSet(cache) = {cache[i] : i \in 1..Len(cache)}
    /\ \A i \in 1..Len(used) :
          used[i] = <<used[i][1], used[i][2]>> /\ used[i][1] \in CacheKeys /\ used[i][2] \in CacheValues

LEMMA CacheFacts == CacheInv => CacheSeen
  <1> SUFFICES ASSUME CacheInv PROVE CacheSeen
    OBVIOUS
  <1>1. CacheCapacity \in Nat \ {0}
    BY UtilitiesAssumption DEF Lru!CapacityAssumption
  <1>2. cache \in Seq(Lru!Nodes) /\ used \in Seq(CacheKeys \X CacheValues) /\ Lru!IsInjective(cache)
    BY DEF CacheInv, Lru!TypeOK
  <1>3. /\ DOMAIN cache = 1..Len(cache) /\ DOMAIN used = 1..Len(used)
        /\ Len(cache) \in Nat /\ Len(used) \in Nat
    BY <1>2
  <1>4. Len(cache) <= Len(used) /\ Len(cache) <= CacheCapacity
    BY <1>1, <1>3 DEF CacheInv
  <1>5. \A i \in 1..Len(used) :
           used[i] = <<used[i][1], used[i][2]>> /\ used[i][1] \in CacheKeys /\ used[i][2] \in CacheValues
    <2> TAKE i \in 1..Len(used)
    <2>1. used[i] \in CacheKeys \X CacheValues
      BY <1>2
    <2> QED
      BY <2>1
  <1> QED
    BY <1>1, <1>2, <1>3, <1>4, <1>5 DEF CacheSeen, Lru!IsInjective, Lru!ToSet

\* The entry of a cached key moves to the front, with the value v.
LEMMA CacheMoves ==
  ASSUME CacheInv, NEW k \in DOMAIN index, NEW v \in CacheValues,
         Lru!ToFront(index[k]), Lru!Uses(k, v),
         entry' = [entry EXCEPT ![index[k]] = <<k, v>>], index' = index
  PROVE  CacheInv'
  <1>0. CacheInv
    OBVIOUS
  <1> USE DEF CacheSeen
  <1>a. CacheSeen
    BY CacheFacts
  <1> USE <1>a
  <1>1. PICK i \in 1..Len(cache) : used[i][1] = k
    BY DEF CacheInv
  <1>2. i \in 1..Len(used) /\ index[k] = cache[i] /\ entry[cache[i]] = used[i] /\ k \in CacheKeys
    BY <1>1 DEF CacheInv
  <1>3. cache' = MovedUp(cache, i, cache[i])
    <2>1. Lru!RemoveFirst(cache, cache[i]) = SubSeq(cache, 1, i - 1) \o SubSeq(cache, i + 1, Len(cache))
      BY <1>1, RemovingOne DEF CacheInv, Lru!TypeOK
    <2> QED
      BY <1>2, <2>1 DEF Lru!ToFront, MovedUp
  <1>4. used' = MovedUp(used, i, <<k, v>>)
    <2>1. \A h, j \in 1..Len(used) : used[h][1] = used[j][1] => h = j
      BY DEF CacheInv
    <2>2. Forget(used, k) = SubSeq(used, 1, i - 1) \o SubSeq(used, i + 1, Len(used))
      BY <1>0, <1>1, <1>2, <2>1, Forgetting
    <2>3. used' = <<<<k, v>>>> \o Forget(used, k)
      BY DEF Lru!Uses, Forget
    <2> QED
      BY <2>2, <2>3 DEF MovedUp
  <1>5. /\ cache' \in Seq(Lru!Nodes) /\ Len(cache') = Len(cache)
        /\ \A j \in 1..Len(cache) :
              cache'[j] = IF j = 1 THEN cache[i] ELSE IF j <= i THEN cache[j - 1] ELSE cache[j]
    <2>1. cache[i] \in Lru!Nodes
      BY <1>1
    <2>2. cache' \in Seq(Lru!Nodes) /\ IsMovedUp(cache', cache, i, cache[i])
      BY <1>1, <1>3, <2>1, MovingUp
    <2> QED
      BY <2>2 DEF IsMovedUp
  <1>6. /\ used' \in Seq(CacheKeys \X CacheValues) /\ Len(used') = Len(used)
        /\ \A j \in 1..Len(used) :
              used'[j] = IF j = 1 THEN <<k, v>> ELSE IF j <= i THEN used[j - 1] ELSE used[j]
    <2>1. <<k, v>> \in CacheKeys \X CacheValues
      BY <1>2
    <2>2. used' \in Seq(CacheKeys \X CacheValues) /\ IsMovedUp(used', used, i, <<k, v>>)
      BY <1>2, <1>4, <2>1, MovingUp
    <2> QED
      BY <2>2 DEF IsMovedUp
  <1>7. DOMAIN cache' = 1..Len(cache) /\ DOMAIN used' = 1..Len(used)
    BY <1>5, <1>6
  \* Where an element comes from.
  <1> DEFINE from(j) == IF j = 1 THEN i ELSE IF j <= i THEN j - 1 ELSE j
             to(j)   == IF j = i THEN 1 ELSE IF j < i THEN j + 1 ELSE j
  <1>8. /\ \A j \in 1..Len(cache) : from(j) \in 1..Len(cache) /\ to(j) \in 1..Len(cache)
                                       /\ from(to(j)) = j /\ to(from(j)) = j
        /\ \A j \in 1..Len(used) : from(j) \in 1..Len(used) /\ to(from(j)) = j
        /\ \A j \in 1..Len(used) : from(j) = i <=> j = 1
    BY <1>1, <1>2
  <1>9. \A j \in 1..Len(cache) : cache'[j] = cache[from(j)]
    BY <1>1, <1>5
  <1>10. \A j \in 1..Len(used) : used'[j][1] = used[from(j)][1] /\ (j # 1 => used'[j] = used[from(j)])
    BY <1>1, <1>2, <1>6
  <1>11. used'[1] = <<k, v>>
    BY <1>2, <1>6
  <1> HIDE DEF from, to
  <1>12. Lru!IsInjective(cache')
    <2> SUFFICES ASSUME NEW g \in 1..Len(cache), NEW h \in 1..Len(cache), cache'[g] = cache'[h]
                 PROVE  g = h
      BY <1>7 DEF Lru!IsInjective
    <2>1. from(g) = from(h)
      BY <1>8, <1>9
    <2> QED
      BY <1>8, <2>1
  <1>13. \A g, h \in 1..Len(used) : used'[g][1] = used'[h][1] => g = h
    <2> SUFFICES ASSUME NEW g \in 1..Len(used), NEW h \in 1..Len(used), used'[g][1] = used'[h][1]
                 PROVE  g = h
      OBVIOUS
    <2>0. \A a, b \in 1..Len(used) : used[a][1] = used[b][1] => a = b
      BY DEF CacheInv
    <2>1. from(g) = from(h)
      <3>1. from(g) \in 1..Len(used) /\ from(h) \in 1..Len(used)
        BY <1>8
      <3>2. used[from(g)][1] = used[from(h)][1]
        BY <1>10
      <3> QED
        BY <2>0, <3>1, <3>2
    <2> QED
      BY <1>8, <2>1
  <1>14. Lru!ToSet(cache') = Lru!ToSet(cache)
    <2>1. Lru!ToSet(cache') = {cache'[j] : j \in 1..Len(cache)}
      BY <1>7 DEF Lru!ToSet
    <2>2. \A j \in 1..Len(cache) : cache[j] = cache'[to(j)] /\ to(j) \in 1..Len(cache)
      BY <1>8, <1>9
    <2>3. \A j \in 1..Len(cache) : cache'[j] = cache[from(j)] /\ from(j) \in 1..Len(cache)
      BY <1>8, <1>9
    <2>4. \A x \in Lru!ToSet(cache) : x \in Lru!ToSet(cache')
      <3> TAKE x \in Lru!ToSet(cache)
      <3>1. PICK j \in 1..Len(cache) : x = cache[j]
        OBVIOUS
      <3> QED
        BY <2>1, <2>2, <3>1
    <2>5. \A x \in Lru!ToSet(cache') : x \in Lru!ToSet(cache)
      BY <2>1, <2>3
    <2> QED
      BY <2>4, <2>5
  <1>15. entry \in [Lru!ToSet(cache) -> CacheKeys \X CacheValues]
    BY DEF CacheInv, Lru!TypeOK
  <1>16. entry' \in [Lru!ToSet(cache') -> CacheKeys \X CacheValues]
    BY <1>2, <1>14, <1>15
  <1>17. Lru!TypeOK'
    BY <1>5, <1>6, <1>12, <1>16 DEF CacheInv, Lru!TypeOK
  <1>18. ASSUME NEW j \in 1..Len(cache)
         PROVE  entry'[cache'[j]] = used'[j] /\ index[used'[j][1]] = cache'[j]
    <2>1. from(j) \in 1..Len(cache) /\ cache'[j] = cache[from(j)] /\ j \in 1..Len(used)
      BY <1>8, <1>9
    <2>2. index[used'[j][1]] = cache'[j]
      BY <1>10, <2>1 DEF CacheInv
    <2>3. cache'[j] \in Lru!ToSet(cache)
      BY <2>1
    <2>4. CASE j = 1
      BY <1>2, <1>8, <1>11, <1>15, <2>1, <2>2, <2>3, <2>4
    <2>5. CASE j # 1
      <3>1. cache[from(j)] # cache[i]
        BY <1>1, <1>8, <2>1, <2>5
      <3>2. entry'[cache[from(j)]] = entry[cache[from(j)]]
        BY <1>2, <1>15, <2>1, <2>3, <3>1
      <3> QED
        BY <1>10, <2>1, <2>2, <2>5, <3>2 DEF CacheInv
    <2> QED
      BY <2>4, <2>5
  <1>19. DOMAIN index = {used'[j][1] : j \in 1..Len(cache)}
    <2>1. DOMAIN index = {used[j][1] : j \in 1..Len(cache)}
      BY DEF CacheInv
    <2>2. \A j \in 1..Len(cache) : j \in 1..Len(used)
      OBVIOUS
    <2>3. \A j \in 1..Len(cache) : used'[j][1] = used[from(j)][1] /\ from(j) \in 1..Len(cache)
      BY <1>8, <1>10, <2>2
    <2>4. \A j \in 1..Len(cache) : used[j][1] = used'[to(j)][1] /\ to(j) \in 1..Len(cache)
      <3> TAKE j \in 1..Len(cache)
      <3>1. to(j) \in 1..Len(cache) /\ from(to(j)) = j
        BY <1>8
      <3> QED
        BY <2>3, <3>1
    <2>5. \A x \in DOMAIN index : x \in {used'[j][1] : j \in 1..Len(cache)}
      <3> TAKE x \in DOMAIN index
      <3>1. PICK j \in 1..Len(cache) : x = used[j][1]
        BY <2>1
      <3> QED
        BY <2>4, <3>1
    <2>6. \A x \in {used'[j][1] : j \in 1..Len(cache)} : x \in DOMAIN index
      <3> TAKE x \in {used'[j][1] : j \in 1..Len(cache)}
      <3>1. PICK j \in 1..Len(cache) : x = used'[j][1]
        OBVIOUS
      <3>2. used[from(j)][1] \in DOMAIN index
        BY ONLY <2>1, <2>3
      <3> QED
        BY <2>3, <3>1, <3>2
    <2> QED
      BY <2>5, <2>6
  <1> QED
    BY <1>5, <1>6, <1>13, <1>17, <1>18, <1>19, ZenonT(40) DEF CacheInv

\* The index has as many keys as the list has nodes.
LEMMA SameCardinality == \A S : Lru!Cardinality(S) = Cardinality(S)
  BY DEF Lru!Cardinality, Cardinality

LEMMA CacheIsCounted == CacheInv => Cardinality(DOMAIN index) = Len(cache)
  <1> SUFFICES ASSUME CacheInv PROVE Cardinality(DOMAIN index) = Len(cache)
    OBVIOUS
  <1>1. Len(cache) \in Nat /\ Len(cache) <= Len(used) /\ Len(used) \in Nat
    BY CacheFacts DEF CacheSeen
  <1> DEFINE f == [i \in 1..Len(cache) |-> used[i][1]]
  <1>2. DOMAIN index = {used[i][1] : i \in 1..Len(cache)}
    BY DEF CacheInv
  <1>3. f \in [1..Len(cache) -> DOMAIN index]
    BY <1>2
  <1>4. \A i, j \in 1..Len(cache) : f[i] = f[j] => i = j
    BY <1>1 DEF CacheInv
  <1>5. \A k \in DOMAIN index : \E i \in 1..Len(cache) : f[i] = k
    BY <1>2
  <1>6. f \in Bijection(1..Len(cache), DOMAIN index)
    <2> HIDE DEF f
    <2> QED
      BY <1>3, <1>4, <1>5 DEF Bijection, Injection, Surjection, IsInjective
  <1>7. ExistsBijection(1..Len(cache), DOMAIN index)
    BY <1>6 DEF ExistsBijection
  <1>8. IsFiniteSet(1..Len(cache)) /\ Cardinality(1..Len(cache)) = Len(cache)
    <2>1. PICK n \in Nat : n = Len(cache)
      BY <1>1
    <2>2. /\ IsFiniteSet(1..n)
          /\ Cardinality(1..n) = IF 1 > n THEN 0 ELSE n - 1 + 1
      BY FS_Interval
    <2>3. Cardinality(1..n) = n
      BY <2>2
    <2> QED
      BY <2>1, <2>2, <2>3
  <1> QED
    BY <1>7, <1>8, FS_Bijection

LEMMA CacheGets == ASSUME CacheInv, NEW k \in CacheKeys, Lru!Get(k) PROVE CacheInv'
  <1>1. k \in DOMAIN index /\ Lru!ToFront(index[k]) /\ index' = index /\ entry' = entry
    BY DEF Lru!Get
  <1>2. PICK v : v = entry[index[k]][2]
    OBVIOUS
  <1>3. Lru!Uses(k, v)
    BY <1>2 DEF Lru!Get
  <1>4. PICK i \in 1..Len(cache) : used[i][1] = k
    BY <1>1 DEF CacheInv
  <1>5. index[k] = cache[i] /\ entry[index[k]] = used[i] /\ i \in 1..Len(used)
    BY <1>4, CacheFacts DEF CacheInv, CacheSeen
  <1>6. entry[index[k]] = <<k, v>> /\ v \in CacheValues
    BY <1>2, <1>4, <1>5, CacheFacts DEF CacheSeen
  <1>7. entry \in [Lru!ToSet(cache) -> CacheKeys \X CacheValues]
    BY DEF CacheInv, Lru!TypeOK
  <1>8. entry' = [entry EXCEPT ![index[k]] = <<k, v>>]
    BY <1>1, <1>6, <1>7
  <1> QED
    BY <1>1, <1>3, <1>6, <1>8, CacheMoves

LEMMA CacheReplaces ==
  ASSUME CacheInv, NEW k \in CacheKeys, NEW v \in CacheValues, Lru!Replace(k, v)
  PROVE  CacheInv'
  BY CacheMoves DEF Lru!Replace

LEMMA CacheAdds ==
  ASSUME CacheInv, NEW k \in CacheKeys, NEW v \in CacheValues, Lru!Add(k, v)
  PROVE  CacheInv'
  <1>a. /\ CacheCapacity \in Nat \ {0} /\ Len(cache) \in Nat /\ Len(used) \in Nat
        /\ Len(cache) <= Len(used) /\ Len(cache) <= CacheCapacity
    BY CacheFacts DEF CacheSeen
  <1>b. cache \in Seq(Lru!Nodes) /\ used \in Seq(CacheKeys \X CacheValues)
    BY CacheFacts DEF CacheSeen
  <1>c. \A i, j \in 1..Len(cache) : cache[i] = cache[j] => i = j
    BY CacheFacts DEF CacheSeen
  <1>d. Lru!ToSet(cache) = {cache[i] : i \in 1..Len(cache)}
    BY CacheFacts DEF CacheSeen
  <1>e. \A i \in 1..Len(used) : used[i][1] \in CacheKeys
    BY CacheFacts DEF CacheSeen
  <1>f. Len(cache) = IF Len(used) < CacheCapacity THEN Len(used) ELSE CacheCapacity
    BY DEF CacheInv
  <1>1. DOMAIN index = {used[i][1] : i \in 1..Len(cache)} /\ k \notin DOMAIN index
    BY DEF CacheInv, Lru!Add
  <1>2. Lru!Full <=> Len(cache) = CacheCapacity
    BY CacheIsCounted, SameCardinality DEF Lru!Full
  <1>3. PICK n \in Lru!Nodes \ Lru!ToSet(Lru!Room) :
           /\ cache' = <<n>> \o Lru!Room
           /\ entry' = Lru!With(entry, Lru!ToSet(Lru!Room), n, <<k, v>>)
           /\ index' = Lru!With(index, DOMAIN index \ Lru!Lost, k, n)
    BY DEF Lru!Add
  <1>4. <<k, v>> \in CacheKeys \X CacheValues
    OBVIOUS
  \* How many entries stay: the first r.
  <1>5. PICK r \in Nat : r = IF Lru!Full THEN Len(cache) - 1 ELSE Len(cache)
    <2>1. CASE Lru!Full
      BY <1>a, <1>2, <2>1
    <2>2. CASE ~Lru!Full
      BY <1>a, <2>2
    <2> QED
      BY <2>1, <2>2
  <1>6. r <= Len(cache) /\ r < CacheCapacity
    BY <1>a, <1>2, <1>5
  <1>7. /\ Lru!Room \in Seq(Lru!Nodes) /\ Len(Lru!Room) = r
        /\ \A j \in 1..r : Lru!Room[j] = cache[j]
    <2>1. CASE Lru!Full
      <3>1. Lru!Room = SubSeq(cache, 1, Len(cache) - 1) /\ Len(cache) > 0
        BY <1>a, <1>2, <2>1 DEF Lru!Room, Lru!Front
      <3>2. r = Len(cache) - 1
        BY <1>5, <2>1
      <3> QED
        BY <1>b, <3>1, <3>2, DroppingLast
    <2>2. CASE ~Lru!Full
      BY <1>b, <1>5, <2>2 DEF Lru!Room
    <2> QED
      BY <2>1, <2>2
  <1>8. DOMAIN index \ Lru!Lost = {used[j][1] : j \in 1..r}
    <2>1. CASE Lru!Full
      <3>1. r = Len(cache) - 1 /\ Len(cache) \in 1..Len(cache)
        BY <1>a, <1>2, <1>5, <2>1
      <3>2. Lru!Lost = {used[Len(cache)][1]}
        BY <2>1, <3>1 DEF Lru!Lost, Lru!Last, CacheInv
      <3>3. \A j \in 1..Len(cache) : used[j][1] = used[Len(cache)][1] => j = Len(cache)
        <4>1. \A j \in 1..Len(cache) : j \in 1..Len(used)
          BY <1>a
        <4> QED
          BY <3>1, <4>1 DEF CacheInv
      <3>4. \A j \in 1..Len(cache) : j \in 1..r <=> j # Len(cache)
        BY <1>a, <3>1
      <3>5. \A j \in 1..r : j \in 1..Len(cache)
        BY <1>a, <1>6
      <3>6. \A x \in DOMAIN index \ Lru!Lost : x \in {used[j][1] : j \in 1..r}
        <4> TAKE x \in DOMAIN index \ Lru!Lost
        <4>1. PICK j \in 1..Len(cache) : x = used[j][1]
          BY <1>1
        <4> QED
          BY <3>2, <3>4, <4>1
      <3>7. \A x \in {used[j][1] : j \in 1..r} : x \in DOMAIN index \ Lru!Lost
        <4> TAKE x \in {used[j][1] : j \in 1..r}
        <4>1. PICK j \in 1..r : x = used[j][1]
          OBVIOUS
        <4> QED
          BY <1>1, <3>2, <3>3, <3>4, <3>5, <4>1
      <3> QED
        BY <3>6, <3>7
    <2>2. CASE ~Lru!Full
      BY <1>1, <1>5, <2>2 DEF Lru!Lost
    <2> QED
      BY <2>1, <2>2
  <1>9. /\ used' \in Seq(CacheKeys \X CacheValues)
        /\ r + 1 = IF Len(used') < CacheCapacity THEN Len(used') ELSE CacheCapacity
        /\ used'[1] = <<k, v>>
        /\ \A j \in 2..r + 1 : used'[j] = used[j - 1]
        /\ \A i, j \in 1..Len(used') : used'[i][1] = used'[j][1] => i = j
    <2>0. \A h, j \in 1..Len(used) : used[h][1] = used[j][1] => h = j
      BY DEF CacheInv
    <2>1. used' = <<<<k, v>>>> \o Forget(used, k)
      BY DEF Lru!Add, Lru!Uses, Forget
    <2>2. CASE \A i \in 1..Len(used) : used[i][1] # k
      <3>1. used' = <<<<k, v>>>> \o used
        BY <1>b, <2>0, <2>1, <2>2, Forgetting
      <3>2. used' \in Seq(CacheKeys \X CacheValues) /\ IsPutInFront(used', used, <<k, v>>)
        BY <1>b, <1>4, <3>1, PuttingInFront
      <3>3. Len(used') = Len(used) + 1
        BY <3>2 DEF IsPutInFront
      <3>4. used'[1] = <<k, v>>
        BY <3>2 DEF IsPutInFront
      <3>5. \A j \in 2..r + 1 : used'[j] = used[j - 1]
        BY <1>a, <1>6, <3>2 DEF IsPutInFront
      <3>6. \A j \in 2..Len(used) + 1 : used'[j] = used[j - 1] /\ j - 1 \in 1..Len(used)
        BY <1>a, <3>2 DEF IsPutInFront
      <3>7. r + 1 = IF Len(used') < CacheCapacity THEN Len(used') ELSE CacheCapacity
        BY <1>a, <1>f, <1>2, <1>5, <3>3
      <3>8. ASSUME NEW i \in 1..Len(used'), NEW j \in 1..Len(used'), used'[i][1] = used'[j][1], i # j
            PROVE  FALSE
        <4>1. CASE i = 1
          BY <1>a, <2>2, <3>3, <3>4, <3>6, <3>8, <4>1
        <4>2. CASE j = 1
          BY <1>a, <2>2, <3>3, <3>4, <3>6, <3>8, <4>2
        <4>3. CASE i # 1 /\ j # 1
          BY <1>a, <2>0, <3>3, <3>6, <3>8, <4>3
        <4> QED
          BY <4>1, <4>2, <4>3
      <3> QED
        BY <3>2, <3>4, <3>5, <3>7, <3>8
    <2>3. CASE \E i \in 1..Len(used) : used[i][1] = k
      <3>1. PICK i \in 1..Len(used) : used[i][1] = k
        BY <2>3
      <3>2. i > Len(cache)
        BY <1>a, <1>1, <3>1
      <3>3. used' = MovedUp(used, i, <<k, v>>)
        BY <1>b, <2>0, <2>1, <3>1, Forgetting DEF MovedUp
      <3>4. used' \in Seq(CacheKeys \X CacheValues) /\ IsMovedUp(used', used, i, <<k, v>>)
        BY <1>b, <1>4, <3>1, <3>3, MovingUp
      <3>5. Len(used') = Len(used)
        BY <3>4 DEF IsMovedUp
      <3>6. used'[1] = <<k, v>>
        BY <1>a, <3>1, <3>4 DEF IsMovedUp
      <3>7. \A j \in 1..Len(used) :
               used'[j] = IF j = 1 THEN <<k, v>> ELSE IF j <= i THEN used[j - 1] ELSE used[j]
        BY <3>4 DEF IsMovedUp
      <3>8. \A j \in 2..r + 1 : used'[j] = used[j - 1]
        BY <1>a, <1>6, <3>2, <3>7
      <3>9. r + 1 = IF Len(used') < CacheCapacity THEN Len(used') ELSE CacheCapacity
        BY <1>a, <1>f, <1>2, <1>5, <3>2, <3>5
      <3>10. ASSUME NEW g \in 1..Len(used'), NEW h \in 1..Len(used'), used'[g][1] = used'[h][1], g # h
             PROVE  FALSE
        <4> DEFINE from(j) == IF j = 1 THEN i ELSE IF j <= i THEN j - 1 ELSE j
        <4>1. \A j \in 1..Len(used) : from(j) \in 1..Len(used) /\ used'[j][1] = used[from(j)][1]
          BY <1>a, <3>1, <3>7, SMTT(30)
        <4>2. from(g) # from(h)
          BY <1>a, <3>1, <3>5, <3>10
        <4> HIDE DEF from
        <4>3. from(g) = from(h)
          <5>1. from(g) \in 1..Len(used) /\ from(h) \in 1..Len(used)
            BY <3>5, <4>1
          <5>2. used[from(g)][1] = used[from(h)][1]
            BY <3>5, <3>10, <4>1
          <5> QED
            BY <2>0, <5>1, <5>2
        <4> QED
          BY <4>2, <4>3
      <3> QED
        BY <3>4, <3>6, <3>8, <3>9, <3>10
    <2> QED
      BY <2>2, <2>3
  <1>10. cache' \in Seq(Lru!Nodes) /\ Len(cache') = r + 1
    BY <1>3, <1>7, PuttingInFront DEF IsPutInFront
  <1>11. cache'[1] = n /\ \A j \in 2..r + 1 : cache'[j] = cache[j - 1]
    <2>1. IsPutInFront(cache', Lru!Room, n)
      BY <1>3, <1>7, PuttingInFront
    <2> QED
      BY <1>7, <2>1 DEF IsPutInFront
  <1>12. DOMAIN cache' = 1..r + 1
    BY <1>10
  <1>13. Lru!ToSet(Lru!Room) = {cache[j] : j \in 1..r}
    <2>1. DOMAIN Lru!Room = 1..r
      BY <1>7
    <2>2. Lru!ToSet(Lru!Room) = {Lru!Room[j] : j \in 1..r}
      BY <2>1 DEF Lru!ToSet
    <2> QED
      BY <1>7, <2>2
  <1>14. \A j \in 1..r : cache[j] # n /\ j \in 1..Len(cache)
    BY <1>a, <1>3, <1>6, <1>13
  <1>15. \A j \in 2..r + 1 : j - 1 \in 1..r
    OBVIOUS
  <1>16. Lru!IsInjective(cache')
    <2> SUFFICES ASSUME NEW g \in 1..r + 1, NEW h \in 1..r + 1, cache'[g] = cache'[h], g # h
                 PROVE  FALSE
      BY <1>12 DEF Lru!IsInjective
    <2>1. CASE g = 1
      BY <1>11, <1>14, <1>15, <2>1
    <2>2. CASE h = 1
      BY <1>11, <1>14, <1>15, <2>2
    <2>3. CASE g # 1 /\ h # 1
      <3>1. g - 1 \in 1..Len(cache) /\ h - 1 \in 1..Len(cache) /\ cache[g - 1] = cache[h - 1]
        BY <1>11, <1>14, <1>15, <2>3
      <3>2. g - 1 = h - 1
        BY <1>c, <3>1
      <3> QED
        BY <3>2
    <2> QED
      BY <2>1, <2>2, <2>3
  <1>17. Lru!ToSet(cache') = Lru!ToSet(Lru!Room) \cup {n}
    <2>1. Lru!ToSet(cache') = {cache'[j] : j \in 1..r + 1}
      BY <1>12 DEF Lru!ToSet
    <2>2. \A j \in 1..r : j + 1 \in 2..r + 1 /\ cache'[j + 1] = cache[j] /\ j + 1 \in 1..r + 1
      BY <1>11
    <2>3. 1 \in 1..r + 1
      OBVIOUS
    <2>4. \A x \in Lru!ToSet(cache') : x \in Lru!ToSet(Lru!Room) \cup {n}
      <3> TAKE x \in Lru!ToSet(cache')
      <3>1. PICK j \in 1..r + 1 : x = cache'[j]
        BY <2>1
      <3> QED
        BY <1>11, <1>13, <1>15, <3>1
    <2>5. \A x \in Lru!ToSet(Lru!Room) \cup {n} : x \in Lru!ToSet(cache')
      <3>1. n \in Lru!ToSet(cache')
        BY <1>11, <2>1, <2>3
      <3>2. ASSUME NEW x \in Lru!ToSet(Lru!Room) PROVE x \in Lru!ToSet(cache')
        <4>1. PICK j \in 1..r : x = cache[j]
          BY <1>13
        <4> QED
          BY <2>1, <2>2, <4>1
      <3> QED
        BY <3>1, <3>2
    <2> QED
      BY <2>4, <2>5
  <1>18. \A x \in Lru!ToSet(Lru!Room) : x \in Lru!ToSet(cache) /\ x # n
    BY <1>d, <1>13, <1>14
  <1>19. entry \in [Lru!ToSet(cache) -> CacheKeys \X CacheValues]
    BY DEF CacheInv, Lru!TypeOK
  <1>20. /\ entry' \in [Lru!ToSet(cache') -> CacheKeys \X CacheValues]
         /\ entry'[n] = <<k, v>>
         /\ \A x \in Lru!ToSet(Lru!Room) : entry'[x] = entry[x]
    BY <1>3, <1>4, <1>17, <1>18, <1>19 DEF Lru!With
  <1>21. /\ DOMAIN index' = {used[j][1] : j \in 1..r} \cup {k}
         /\ index'[k] = n
         /\ \A j \in 1..r : index'[used[j][1]] = index[used[j][1]]
    <2>1. \A j \in 1..r : used[j][1] # k
      BY <1>1, <1>14
    <2> QED
      BY <1>3, <1>8, <2>1 DEF Lru!With
  <1>22. DOMAIN index' \subseteq CacheKeys /\ \A x \in DOMAIN index' : index'[x] \in Lru!Nodes
    <2>1. \A j \in 1..r : j \in 1..Len(used)
      BY <1>a, <1>6
    <2>2. \A x \in DOMAIN index : index[x] \in Lru!Nodes
      BY DEF CacheInv, Lru!TypeOK
    <2>3. \A j \in 1..r : used[j][1] \in DOMAIN index
      BY <1>1, <1>14
    <2>4. \A j \in 1..r : used[j][1] \in CacheKeys /\ index'[used[j][1]] \in Lru!Nodes
      BY <1>e, <1>21, <2>1, <2>2, <2>3
    <2>5. k \in CacheKeys /\ index'[k] \in Lru!Nodes
      BY <1>3, <1>21
    <2>6. ASSUME NEW x \in DOMAIN index' PROVE x \in CacheKeys /\ index'[x] \in Lru!Nodes
      <3>1. CASE x = k
        BY <2>5, <3>1
      <3>2. CASE x # k
        <4>1. PICK j \in 1..r : x = used[j][1]
          BY <1>21, <3>2
        <4> QED
          BY <2>4, <4>1
      <3> QED
        BY <3>1, <3>2
    <2> QED
      BY <2>6
  <1>23. Lru!TypeOK'
    BY <1>9, <1>10, <1>16, <1>20, <1>22 DEF Lru!TypeOK
  <1>24. ASSUME NEW j \in 1..r + 1
         PROVE  entry'[cache'[j]] = used'[j] /\ index'[used'[j][1]] = cache'[j]
    <2>1. CASE j = 1
      <3>1. cache'[j] = n /\ used'[j] = <<k, v>>
        BY <1>9, <1>11, <2>1
      <3>2. entry'[n] = <<k, v>> /\ index'[k] = n
        BY <1>20, <1>21
      <3> QED
        BY <3>1, <3>2
    <2>2. CASE j # 1
      <3>1. j \in 2..r + 1 /\ j - 1 \in 1..r /\ j - 1 \in 1..Len(cache)
        BY <1>a, <1>6, <2>2
      <3>2. cache'[j] = cache[j - 1] /\ used'[j] = used[j - 1]
        BY <1>9, <1>11, <3>1
      <3>3. entry[cache[j - 1]] = used[j - 1] /\ index[used[j - 1][1]] = cache[j - 1]
        BY <3>1 DEF CacheInv
      <3>4. cache[j - 1] \in Lru!ToSet(Lru!Room)
        BY <1>13, <3>1
      <3> QED
        BY <1>20, <1>21, <3>1, <3>2, <3>3, <3>4
    <2> QED
      BY <2>1, <2>2
  <1>25. DOMAIN index' = {used'[j][1] : j \in 1..r + 1}
    <2>1. \A j \in 1..r : j + 1 \in 1..r + 1 /\ used'[j + 1] = used[j]
      BY <1>9
    <2>2. 1 \in 1..r + 1 /\ used'[1][1] = k
      BY <1>9
    <2>3. \A x \in DOMAIN index' : x \in {used'[j][1] : j \in 1..r + 1}
      <3> TAKE x \in DOMAIN index'
      <3>1. CASE x = k
        BY <2>2, <3>1
      <3>2. CASE x # k
        <4>1. PICK j \in 1..r : x = used[j][1]
          BY <1>21, <3>2
        <4> QED
          BY <2>1, <4>1
      <3> QED
        BY <3>1, <3>2
    <2>4. \A x \in {used'[j][1] : j \in 1..r + 1} : x \in DOMAIN index'
      <3> TAKE x \in {used'[j][1] : j \in 1..r + 1}
      <3>1. PICK j \in 1..r + 1 : x = used'[j][1]
        OBVIOUS
      <3>2. CASE j = 1
        BY <1>21, <2>2, <3>1, <3>2
      <3>3. CASE j # 1
        <4>1. j - 1 \in 1..r /\ used'[j] = used[j - 1]
          BY <1>9, <3>3
        <4> QED
          BY <1>21, <3>1, <4>1
      <3> QED
        BY <3>2, <3>3
    <2> QED
      BY <2>3, <2>4
  <1> QED
    BY <1>9, <1>10, <1>23, <1>24, <1>25 DEF CacheInv

LEMMA CacheStep == CacheInv /\ [Lru!Next]_Lru!vars => CacheInv'
  <1> SUFFICES ASSUME CacheInv, [Lru!Next]_Lru!vars PROVE CacheInv'
    OBVIOUS
  <1>1. CASE UNCHANGED Lru!vars
    <2>1. entry' = entry /\ cache' = cache /\ index' = index /\ used' = used
      BY <1>1 DEF Lru!vars
    <2>2. Lru!TypeOK'
      BY <2>1 DEF CacheInv, Lru!TypeOK
    <2> QED
      <3>1. DOMAIN index' = {used'[i][1] : i \in 1..Len(cache')}
        <4>1. DOMAIN index = {used[i][1] : i \in 1..Len(cache)}
          BY DEF CacheInv
        <4>2. \A k \in DOMAIN index' : k \in {used'[i][1] : i \in 1..Len(cache')}
          BY <2>1, <4>1
        <4>3. \A k \in {used'[i][1] : i \in 1..Len(cache')} : k \in DOMAIN index'
          BY <2>1, <4>1
        <4> QED
          BY <4>2, <4>3
      <3>2. Len(cache') = IF Len(used') < CacheCapacity THEN Len(used') ELSE CacheCapacity
        BY <2>1 DEF CacheInv
      <3>3. \A i \in 1..Len(cache') : entry'[cache'[i]] = used'[i] /\ index'[used'[i][1]] = cache'[i]
        BY <2>1 DEF CacheInv
      <3>4. \A i, j \in 1..Len(used') : used'[i][1] = used'[j][1] => i = j
        BY <2>1 DEF CacheInv
      <3> QED
        BY <2>2, <3>1, <3>2, <3>3, <3>4 DEF CacheInv
  <1>2. ASSUME NEW k \in CacheKeys, Lru!Get(k) PROVE CacheInv'
    BY <1>2, CacheGets
  <1>3. ASSUME NEW k \in CacheKeys, NEW v \in CacheValues, Lru!Replace(k, v) \/ Lru!Add(k, v)
        PROVE  CacheInv'
    BY <1>3, CacheReplaces, CacheAdds
  <1> QED
    BY <1>1, <1>2, <1>3 DEF Lru!Next

LEMMA CacheIsIntact == CacheInv => Lru!IndexAgrees /\ Lru!HoldsMostRecent
  <1> SUFFICES ASSUME CacheInv PROVE Lru!IndexAgrees /\ Lru!HoldsMostRecent
    OBVIOUS
  <1>1. /\ CacheCapacity \in Nat \ {0} /\ Len(cache) \in Nat /\ Len(used) \in Nat
        /\ Len(cache) <= Len(used) /\ Len(cache) <= CacheCapacity /\ DOMAIN cache = 1..Len(cache)
    BY CacheFacts DEF CacheSeen
  <1>2. used \in Seq(CacheKeys \X CacheValues)
    BY CacheFacts DEF CacheSeen
  <1>3. Lru!ToSet(cache) = {cache[i] : i \in 1..Len(cache)}
    BY CacheFacts DEF CacheSeen
  <1>4. DOMAIN index = {used[i][1] : i \in 1..Len(cache)}
    BY DEF CacheInv
  <1>5. \A i \in 1..Len(cache) : entry[cache[i]] = used[i] /\ index[used[i][1]] = cache[i]
    BY DEF CacheInv
  <1>6. DOMAIN index = {entry[n][1] : n \in Lru!ToSet(cache)}
    <2>1. \A k \in DOMAIN index : k \in {entry[n][1] : n \in Lru!ToSet(cache)}
      <3> TAKE k \in DOMAIN index
      <3>1. PICK i \in 1..Len(cache) : k = used[i][1]
        BY <1>4
      <3>2. k = entry[cache[i]][1] /\ cache[i] \in Lru!ToSet(cache)
        BY <1>3, <1>5, <3>1
      <3> QED
        BY <3>2
    <2>2. \A k \in {entry[n][1] : n \in Lru!ToSet(cache)} : k \in DOMAIN index
      <3> TAKE k \in {entry[n][1] : n \in Lru!ToSet(cache)}
      <3>1. PICK i \in 1..Len(cache) : k = entry[cache[i]][1]
        BY <1>3
      <3> QED
        BY <1>4, <1>5, <3>1
    <2> QED
      BY <2>1, <2>2
  <1>7. ASSUME NEW k \in DOMAIN index
        PROVE  index[k] \in Lru!ToSet(cache) /\ entry[index[k]][1] = k
    <2>1. PICK i \in 1..Len(cache) : k = used[i][1]
      BY <1>4
    <2> QED
      BY <1>3, <1>5, <2>1
  <1>8. Lru!IndexAgrees
    BY <1>1, <1>6, <1>7 DEF Lru!IndexAgrees
  <1>9. PICK n \in Nat : n = Len(cache)
    BY <1>1
  <1>10. n = IF Len(used) < CacheCapacity THEN Len(used) ELSE CacheCapacity
    BY <1>9 DEF CacheInv
  <1>11. /\ SubSeq(used, 1, n) \in Seq(CacheKeys \X CacheValues)
         /\ Len(SubSeq(used, 1, n)) = n
         /\ \A i \in 1..n : SubSeq(used, 1, n)[i] = used[i]
    <2>1. \A i \in 1..n : used[i] \in CacheKeys \X CacheValues
      BY <1>1, <1>2, <1>9
    <2>2. /\ SubSeq(used, 1, n) \in Seq(CacheKeys \X CacheValues)
          /\ Len(SubSeq(used, 1, n)) = IF 1 <= n THEN n - 1 + 1 ELSE 0
          /\ \A i \in 1..n - 1 + 1 : SubSeq(used, 1, n)[i] = used[1 + i - 1]
      BY <2>1, SubSeqProperties
    <2>3. n - 1 + 1 = n /\ \A i \in 1..n : 1 + i - 1 = i
      OBVIOUS
    <2>4. Len(SubSeq(used, 1, n)) = n
      BY <2>2
    <2> QED
      BY <2>2, <2>3, <2>4
  <1>12. [i \in DOMAIN cache |-> entry[cache[i]]] = SubSeq(used, 1, n)
    <2> DEFINE t == SubSeq(used, 1, n)
    <2> HIDE DEF t
    <2>1. t \in [1..n -> CacheKeys \X CacheValues] /\ \A i \in 1..n : t[i] = used[i]
      <3>1. t \in Seq(CacheKeys \X CacheValues) /\ Len(t) = n /\ \A i \in 1..n : t[i] = used[i]
        BY <1>11 DEF t
      <3> QED
        BY <3>1
    <2>2. t = [i \in 1..n |-> t[i]]
      BY <2>1
    <2>3. \A i \in 1..n : t[i] = entry[cache[i]]
      BY <1>5, <1>9, <2>1
    <2> QED
      BY <1>1, <1>9, <2>2, <2>3 DEF t
  <1> QED
    BY <1>8, <1>10, <1>12 DEF Lru!HoldsMostRecent

\* Whatever the capacity, the index leads to just the entries that the list has,
\* and those are the ones used last, in that order (Get and Set of lru.h).
THEOREM CacheStaysIntact == SpecAll => []CacheIntact
  <1>1. InitAll => CacheInv
    BY CacheInit DEF InitAll
  <1>2. CacheInv /\ [NextAll]_varsAll => CacheInv'
    <2>1. [NextAll]_varsAll => [Lru!Next]_Lru!vars
      BY DEF NextAll, varsAll, cacheVars, Lru!vars
    <2> QED
      BY <2>1, CacheStep
  <1>3. CacheInv => CacheIntact
    BY CacheIsIntact DEF CacheIntact
  <1> QED
    BY <1>1, <1>2, <1>3, PTL DEF SpecAll

-----------------------------------------------------------------------------
\* Numbers.  < as a set of pairs.
Less == {ij \in Nat \X Nat : ij[1] < ij[2]}

\* A set of naturals has a least element.
LEMMA LeastNatural ==
  ASSUME NEW S \in SUBSET Nat, S # {}
  PROVE  \E k \in S : \A j \in S : ~(j < k)
  <1>1. OpToRel(<, Nat) = Less
    BY Zenon DEF OpToRel, Less
  <1>2. IsWellFoundedOn(Less, Nat)
    BY <1>1, NatLessThanWellFounded, Zenon
  <1>3. PICK k \in S : \A j \in S : <<j, k>> \notin Less
    BY <1>2, WFMin
  <1>4. ASSUME NEW j \in S, j < k PROVE FALSE
    <2>1. <<j, k>> \in Nat \X Nat
      OBVIOUS
    <2>2. <<j, k>> \in Less
      BY <1>4, <2>1 DEF Less
    <2> QED
      BY <1>3, <2>2
  <1> QED
    BY <1>3, <1>4

\* Induction, for a set of naturals instead of a predicate.
LEMMA AllNaturals ==
  ASSUME NEW S, 0 \in S, \A i \in Nat : i \in S => i + 1 \in S
  PROVE  \A i \in Nat : i \in S
  <1> DEFINE Others == {i \in Nat : i \notin S}
  <1>1. SUFFICES Others = {}
    OBVIOUS
  <1>2. SUFFICES ASSUME Others # {} PROVE FALSE
    OBVIOUS
  <1> HIDE DEF Others
  <1>3. Others \in SUBSET Nat
    BY DEF Others
  <1>4. PICK k \in Others : \A j \in Others : ~(j < k)
    BY <1>2, <1>3, LeastNatural
  <1>5. k \in Nat /\ k \notin S /\ k # 0
    BY DEF Others
  <1>6. k - 1 \in Nat /\ k - 1 < k /\ (k - 1) + 1 = k
    BY <1>5
  <1>7. k - 1 \notin S
    BY <1>5, <1>6
  <1>8. k - 1 \in Others
    BY <1>6, <1>7 DEF Others
  <1> QED
    BY <1>4, <1>6, <1>8

-----------------------------------------------------------------------------
\* Chains.

\* As many different elements of a finite set are no more than it has.
LEMMA AtMostAll ==
  ASSUME NEW S, IsFiniteSet(S), NEW k \in Nat, NEW p, \A i \in 1..k : p[i] \in S,
         \A i, j \in 1..k : p[i] = p[j] => i = j
  PROVE  k <= Cardinality(S)
  <1> DEFINE f == [i \in 1..k |-> p[i]]
  <1>1. f \in Injection(1..k, S)
    BY DEF Injection, IsInjective
  <1>2. Cardinality(1..k) <= Cardinality(S)
    BY <1>1, FS_Injection
  <1>3. Cardinality(1..k) = k
    BY FS_Interval
  <1> QED
    BY <1>2, <1>3

\* Two chains agree as far as both go.
LEMMA ChainsAgree ==
  ASSUME NEW nodes, NEW n, NEW succ, NEW null,
         NEW p \in Seq(nodes), NEW q \in Seq(nodes),
         IsChain(p, n, succ, null), IsChain(q, n, succ, null)
  PROVE  \A i \in 1..Len(p) : i <= Len(q) => p[i] = q[i]
  <1> DEFINE B == {i \in 1..Len(p) : i <= Len(q) /\ p[i] # q[i]}
  <1>0. Len(p) \in Nat /\ Len(q) \in Nat
    OBVIOUS
  <1>1. SUFFICES ASSUME B # {} PROVE FALSE
    OBVIOUS
  <1>2. B \in SUBSET Nat
    OBVIOUS
  <1> HIDE DEF B
  <1>3. PICK k \in B : \A j \in B : ~(j < k)
    BY <1>1, <1>2, LeastNatural
  <1>4. k \in 1..Len(p) /\ k <= Len(q) /\ p[k] # q[k]
    BY <1>3 DEF B
  <1>5. CASE k = 1
    <2>1. p # <<>> /\ q # <<>>
      BY <1>4
    <2> QED
      BY <1>4, <1>5, <2>1 DEF IsChain
  <1>6. CASE k # 1
    <2>1. k - 1 \in 1..Len(p) /\ k - 1 <= Len(q) /\ k - 1 < k /\ k - 1 \in Nat
      BY <1>0, <1>4, <1>6
    <2>2. k - 1 \notin B
      BY <1>3, <2>1
    <2>3. p[k - 1] = q[k - 1]
      BY <2>1, <2>2 DEF B
    <2>4. k - 1 \in 1..Len(p) - 1 /\ k - 1 \in 1..Len(q) - 1 /\ k - 1 + 1 = k
      BY <1>0, <1>4, <1>6
    <2>5. p[k] = succ[p[k - 1]]
      BY <2>4 DEF IsChain
    <2>6. q[k] = succ[q[k - 1]]
      BY <2>4 DEF IsChain
    <2> QED
      BY <1>4, <2>3, <2>5, <2>6
  <1> QED
    BY <1>5, <1>6

\* A chain that has ended does not go on.
LEMMA ChainEnds ==
  ASSUME NEW nodes, NEW n, NEW succ, NEW null, null \notin nodes,
         NEW p \in Seq(nodes), NEW q \in Seq(nodes),
         IsChain(p, n, succ, null), IsChain(q, n, succ, null)
  PROVE  ~(Len(p) < Len(q))
  <1> SUFFICES ASSUME Len(p) < Len(q) PROVE FALSE
    OBVIOUS
  <1>1. Len(p) \in Nat /\ Len(q) \in Nat
    OBVIOUS
  <1>2. \A i \in 1..Len(p) : p[i] = q[i]
    BY <1>1, ChainsAgree
  <1>3. CASE p = <<>>
    <2>1. n = null /\ q # <<>> /\ 1 \in 1..Len(q)
      BY <1>1, <1>3 DEF IsChain
    <2>2. q[1] = null
      BY <2>1 DEF IsChain
    <2> QED
      BY <2>1, <2>2
  <1>4. CASE p # <<>>
    <2>1. Len(p) \in 1..Len(p) /\ Len(p) \in 1..Len(q) - 1 /\ Len(p) + 1 \in 1..Len(q)
      BY <1>1, <1>4
    <2>2. succ[q[Len(p)]] = q[Len(p) + 1]
      BY <2>1 DEF IsChain
    <2>3. p[Len(p)] = q[Len(p)]
      BY <1>2, <2>1
    <2>4. CASE succ[p[Len(p)]] = null
      <3>1. q[Len(p) + 1] \in nodes
        BY <2>1
      <3> QED
        BY <2>1, <2>2, <2>3, <2>4, <3>1
    <2>5. CASE \E i \in 1..Len(p) - 1 : p[i] = p[Len(p)]
      <3>1. PICK i \in 1..Len(p) - 1 : p[i] = p[Len(p)]
        BY <2>5
      <3>2. i \in 1..Len(p) /\ i \in 1..Len(q) - 1 /\ i # Len(p)
        BY <1>1
      <3>3. q[i] = q[Len(p)]
        BY <1>2, <2>3, <3>1, <3>2
      <3> QED
        BY <2>1, <3>2, <3>3 DEF IsChain
    <2> QED
      BY <1>4, <2>4, <2>5 DEF IsChain
  <1> QED
    BY <1>3, <1>4

LEMMA OneChain ==
  ASSUME NEW nodes, NEW n, NEW succ, NEW null, null \notin nodes,
         NEW p \in Seq(nodes), NEW q \in Seq(nodes),
         IsChain(p, n, succ, null), IsChain(q, n, succ, null)
  PROVE  p = q
  <1>1. Len(p) \in Nat /\ Len(q) \in Nat
    OBVIOUS
  <1>2. ~(Len(p) < Len(q)) /\ ~(Len(q) < Len(p))
    BY ChainEnds
  <1>3. Len(p) = Len(q)
    BY <1>1, <1>2
  <1>4. \A i \in 1..Len(p) : p[i] = q[i]
    BY <1>1, <1>3, ChainsAgree
  <1> QED
    BY <1>3, <1>4, SeqEqual

\* p goes from n along succ, and meets nothing twice.
IsWay(p, n, succ) ==
    /\ p # <<>> /\ p[1] = n
    /\ \A i \in 1..Len(p) - 1 : succ[p[i]] = p[i + 1]
    /\ \A i, j \in 1..Len(p) : p[i] = p[j] => i = j

Chainless(nodes, n, succ, null) == \A q \in Seq(nodes) : ~IsChain(q, n, succ, null)

\* Without a chain, every way goes on.
LEMMA WayGoesOn ==
  ASSUME NEW nodes, NEW n, NEW null, NEW succ \in [nodes -> nodes \cup {null}],
         NEW p \in Seq(nodes), IsWay(p, n, succ), Chainless(nodes, n, succ, null)
  PROVE  \E q \in Seq(nodes) : IsWay(q, n, succ) /\ Len(q) = Len(p) + 1
  <1>1. Len(p) \in Nat \ {0} /\ p[Len(p)] \in nodes
    BY DEF IsWay
  <1>2. succ[p[Len(p)]] # null
    <2>1. \A i, j \in 1..Len(p) - 1 : p[i] = p[j] => i = j
      BY <1>1 DEF IsWay
    <2>2. succ[p[Len(p)]] = null => IsChain(p, n, succ, null)
      BY <2>1 DEF IsWay, IsChain
    <2> QED
      BY <2>2 DEF Chainless
  <1>3. PICK m \in nodes : m = succ[p[Len(p)]]
    BY <1>1, <1>2
  <1>4. PICK q : q = Append(p, m)
    OBVIOUS
  <1>5. /\ q \in Seq(nodes) /\ q # <<>> /\ Len(q) = Len(p) + 1
        /\ q[Len(p) + 1] = m /\ \A i \in 1..Len(p) : q[i] = p[i]
    BY <1>1, <1>4, AppendProperties
  <1>6. q[1] = n
    BY <1>1, <1>5 DEF IsWay
  <1>7. \A i \in 1..Len(q) - 1 : succ[q[i]] = q[i + 1]
    <2> TAKE i \in 1..Len(q) - 1
    <2>1. i \in 1..Len(p)
      BY <1>1, <1>5
    <2>2. CASE i = Len(p)
      BY <1>3, <1>5, <2>1, <2>2
    <2>3. CASE i # Len(p)
      <3>1. i \in 1..Len(p) - 1 /\ i + 1 \in 1..Len(p)
        BY <1>1, <2>1, <2>3
      <3> QED
        BY <1>5, <2>1, <3>1 DEF IsWay
    <2> QED
      BY <2>2, <2>3
  <1>8. \A i, j \in 1..Len(q) - 1 : q[i] = q[j] => i = j
    BY <1>1, <1>5 DEF IsWay
  <1>9. ~ \E i \in 1..Len(q) - 1 : q[i] = q[Len(q)]
    <2>1. (\E i \in 1..Len(q) - 1 : q[i] = q[Len(q)]) => IsChain(q, n, succ, null)
      BY <1>5, <1>6, <1>7, <1>8 DEF IsChain
    <2> QED
      BY <1>5, <2>1 DEF Chainless
  <1>10. \A i, j \in 1..Len(q) : q[i] = q[j] => i = j
    <2> SUFFICES ASSUME NEW i \in 1..Len(q), NEW j \in 1..Len(q), q[i] = q[j], i # j PROVE FALSE
      OBVIOUS
    <2>1. CASE i = Len(q)
      <3>1. j \in 1..Len(q) - 1
        BY <1>1, <1>5, <2>1
      <3> QED
        BY <1>9, <2>1, <3>1
    <2>2. CASE j = Len(q)
      <3>1. i \in 1..Len(q) - 1
        BY <1>1, <1>5, <2>2
      <3> QED
        BY <1>9, <2>2, <3>1
    <2>3. CASE i # Len(q) /\ j # Len(q)
      <3>1. i \in 1..Len(q) - 1 /\ j \in 1..Len(q) - 1
        BY <1>1, <1>5, <2>3
      <3> QED
        BY <1>8, <3>1
    <2> QED
      BY <2>1, <2>2, <2>3
  <1> QED
    BY <1>5, <1>6, <1>7, <1>10 DEF IsWay

LEMMA SomeChain ==
  ASSUME NEW nodes, IsFiniteSet(nodes), NEW null,
         NEW succ \in [nodes -> nodes \cup {null}], NEW n \in nodes \cup {null}
  PROVE  \E p \in Seq(nodes) : IsChain(p, n, succ, null)
  <1> SUFFICES ASSUME Chainless(nodes, n, succ, null) PROVE FALSE
    BY DEF Chainless
  <1>1. n \in nodes
    <2>1. <<>> \in Seq(nodes) /\ Len(<<>>) = 0
      OBVIOUS
    <2>2. n = null => IsChain(<<>>, n, succ, null)
      BY <2>1 DEF IsChain
    <2> QED
      BY <2>1, <2>2 DEF Chainless
  <1> DEFINE K == {k \in Nat : \E p \in Seq(nodes) : IsWay(p, n, succ) /\ Len(p) = k + 1}
  <1>2. 0 \in K
    <2>1. <<n>> \in Seq(nodes) /\ Len(<<n>>) = 1 /\ <<n>>[1] = n /\ <<n>> # <<>>
      BY <1>1
    <2>2. IsWay(<<n>>, n, succ)
      BY <2>1 DEF IsWay
    <2>3. Len(<<n>>) = 0 + 1 /\ 0 \in Nat
      BY <2>1
    <2> QED
      BY ONLY <2>1, <2>2, <2>3
  <1>3. ASSUME NEW k \in Nat, k \in K PROVE k + 1 \in K
    <2>1. PICK p \in Seq(nodes) : IsWay(p, n, succ) /\ Len(p) = k + 1
      BY <1>3
    <2>2. PICK q \in Seq(nodes) : IsWay(q, n, succ) /\ Len(q) = Len(p) + 1
      BY <2>1, WayGoesOn
    <2>3. Len(q) = (k + 1) + 1
      BY <2>1, <2>2
    <2>4. k + 1 \in Nat
      OBVIOUS
    <2> QED
      BY ONLY <2>2, <2>3, <2>4
  <1> HIDE DEF K
  <1>4. \A k \in Nat : k \in K
    BY <1>2, <1>3, AllNaturals
  <1>5. Cardinality(nodes) \in Nat
    BY FS_CardinalityType
  <1>6. PICK p \in Seq(nodes) : IsWay(p, n, succ) /\ Len(p) = Cardinality(nodes) + 1
    BY <1>4, <1>5 DEF K
  <1>7. \A i \in 1..Cardinality(nodes) + 1 : p[i] \in nodes
    BY <1>6
  <1>8. \A i, j \in 1..Cardinality(nodes) + 1 : p[i] = p[j] => i = j
    BY <1>6 DEF IsWay
  <1>9. Cardinality(nodes) + 1 <= Cardinality(nodes)
    BY <1>5, <1>7, <1>8, AtMostAll
  <1> QED
    BY <1>5, <1>9

\* What one meets is a chain, and the only one.
LEMMA ChainIsMet ==
  ASSUME NEW nodes, IsFiniteSet(nodes), NEW null, null \notin nodes,
         NEW succ \in [nodes -> nodes \cup {null}], NEW n \in nodes \cup {null}
  PROVE  /\ ChainFrom(n, succ, null) \in Seq(nodes)
         /\ IsChain(ChainFrom(n, succ, null), n, succ, null)
         /\ \A p \in Seq(nodes) : IsChain(p, n, succ, null) => ChainFrom(n, succ, null) = p
  <1>1. PICK p \in Seq(nodes) : IsChain(p, n, succ, null)
    BY SomeChain
  <1>2. PICK h \in Nat : h = Len(p)
    OBVIOUS
  <1>3. Cardinality(nodes) \in Nat
    BY FS_CardinalityType
  <1>4. h <= Cardinality(nodes) + 1
    <2>1. CASE h = 0
      BY <1>3, <2>1
    <2>2. CASE h # 0
      <3>1. h - 1 \in Nat
        BY <2>2
      <3>2. \A i \in 1..h - 1 : p[i] \in nodes
        BY <1>2
      <3>3. \A i, j \in 1..h - 1 : p[i] = p[j] => i = j
        BY <1>1, <1>2 DEF IsChain
      <3>4. h - 1 <= Cardinality(nodes)
        BY <3>1, <3>2, <3>3, AtMostAll
      <3> QED
        BY <1>3, <3>4
    <2> QED
      BY <2>1, <2>2
  <1> DEFINE all == UNION {[1..k -> nodes] : k \in 0..Cardinality(nodes) + 1}
  <1>5. p \in all
    <2>1. p \in [1..h -> nodes]
      BY <1>2
    <2>2. h \in 0..Cardinality(nodes) + 1
      BY <1>3, <1>4
    <2> QED
      BY <2>1, <2>2
  <1>6. \A q \in all : q \in Seq(nodes)
    BY <1>3
  <1>7. DOMAIN succ = nodes
    OBVIOUS
  <1>8. ChainFrom(n, succ, null) = CHOOSE q \in all : IsChain(q, n, succ, null)
    BY <1>7, Zenon DEF ChainFrom
  <1> HIDE DEF all
  <1>9. ChainFrom(n, succ, null) \in all /\ IsChain(ChainFrom(n, succ, null), n, succ, null)
    BY <1>1, <1>5, <1>8
  <1> QED
    BY <1>6, <1>9, OneChain

-----------------------------------------------------------------------------
\* Lists.  p is what one meets from n on, nothing twice, and ends.
IsLinked(p, n, succ, null) ==
    /\ IF p = <<>> THEN n = null ELSE p[1] = n
    /\ \A i \in 1..Len(p) - 1 : succ[p[i]] = p[i + 1]
    /\ \A i, j \in 1..Len(p) : p[i] = p[j] => i = j
    /\ p # <<>> => succ[p[Len(p)]] = null

LEMMA LinkedIsChain ==
  ASSUME NEW S, NEW p \in Seq(S), NEW n, NEW succ, NEW null, IsLinked(p, n, succ, null)
  PROVE  IsChain(p, n, succ, null)
  <1>1. Len(p) \in Nat
    OBVIOUS
  <1>2. \A i \in 1..Len(p) - 1 : i \in 1..Len(p)
    BY <1>1
  <1> QED
    BY <1>2 DEF IsLinked, IsChain

\* It is what ChainFrom finds.
LEMMA LinkedIsMet ==
  ASSUME NEW nodes, IsFiniteSet(nodes), NEW null, null \notin nodes,
         NEW succ \in [nodes -> nodes \cup {null}], NEW n \in nodes \cup {null},
         NEW p \in Seq(nodes), IsLinked(p, n, succ, null)
  PROVE  ChainFrom(n, succ, null) = p
  BY LinkedIsChain, ChainIsMet

\* A chain that meets nothing twice ends.
LEMMA ChainIsLinked ==
  ASSUME NEW S, NEW p \in Seq(S), NEW n, NEW succ, NEW null, IsChain(p, n, succ, null),
         \A i, j \in 1..Len(p) : p[i] = p[j] => i = j
  PROVE  IsLinked(p, n, succ, null)
  <1>1. Len(p) \in Nat /\ (p # <<>> => Len(p) \in 1..Len(p))
    OBVIOUS
  <1>2. \A i \in 1..Len(p) - 1 : i \in 1..Len(p) /\ i # Len(p)
    BY <1>1
  <1>3. p # <<>> => succ[p[Len(p)]] = null
    BY <1>1, <1>2 DEF IsChain
  <1> QED
    BY <1>3 DEF IsLinked, IsChain

\* Only the successors of what it meets matter.
LEMMA LinkedBy ==
  ASSUME NEW S, NEW p \in Seq(S), NEW n, NEW f, NEW g, NEW null, IsLinked(p, n, f, null),
         \A i \in 1..Len(p) : g[p[i]] = f[p[i]]
  PROVE  IsLinked(p, n, g, null)
  <1>1. Len(p) \in Nat /\ (p # <<>> => Len(p) \in 1..Len(p))
    OBVIOUS
  <1>2. \A i \in 1..Len(p) - 1 : i \in 1..Len(p)
    BY <1>1
  <1> QED
    BY <1>1, <1>2 DEF IsLinked

LEMMA LinkedTail ==
  ASSUME NEW S, NEW p \in Seq(S), p # <<>>, NEW n, NEW succ, NEW null,
         IsLinked(p, n, succ, null)
  PROVE  /\ Tail(p) \in Seq(S) /\ Len(Tail(p)) = Len(p) - 1
         /\ \A i \in 1..Len(p) - 1 : Tail(p)[i] = p[i + 1] /\ Tail(p)[i] # n
         /\ IsLinked(Tail(p), succ[n], succ, null)
  <1> DEFINE t == Tail(p)
  <1>1. t \in Seq(S) /\ Len(t) = Len(p) - 1 /\ \A i \in 1..Len(t) : t[i] = p[i + 1]
    BY HeadTailProperties
  <1>2. Len(p) \in Nat /\ Len(p) > 0
    OBVIOUS
  <1> HIDE DEF t
  <1>3. n = p[1]
    BY DEF IsLinked
  <1>4. \A i \in 1..Len(p) - 1 : i + 1 \in 1..Len(p) /\ 1 \in 1..Len(p) /\ i + 1 # 1
    BY <1>2
  <1>5. \A i \in 1..Len(p) - 1 : t[i] # n
    BY <1>1, <1>3, <1>4 DEF IsLinked
  <1>6. IF t = <<>> THEN succ[n] = null ELSE t[1] = succ[n]
    <2>1. CASE t = <<>>
      <3>1. Len(p) = 1
        BY <1>1, <1>2, <2>1
      <3> QED
        BY <1>3, <2>1, <3>1 DEF IsLinked
    <2>2. CASE t # <<>>
      <3>1. 1 \in 1..Len(t) /\ 1 \in 1..Len(p) - 1
        BY <1>1, <1>2, <2>2
      <3>2. t[1] = p[1 + 1] /\ succ[p[1]] = p[1 + 1]
        BY <1>1, <3>1 DEF IsLinked
      <3> QED
        BY <1>3, <2>2, <3>2
    <2> QED
      BY <2>1, <2>2
  <1>7. \A i \in 1..Len(t) - 1 : succ[t[i]] = t[i + 1]
    <2> TAKE i \in 1..Len(t) - 1
    <2>1. i \in 1..Len(t) /\ i + 1 \in 1..Len(t) /\ i + 1 \in 1..Len(p) - 1
      BY <1>1, <1>2
    <2>2. t[i] = p[i + 1] /\ t[i + 1] = p[i + 1 + 1] /\ succ[p[i + 1]] = p[i + 1 + 1]
      BY <1>1, <2>1 DEF IsLinked
    <2> QED
      BY <2>2
  <1>8. \A i, j \in 1..Len(t) : t[i] = t[j] => i = j
    <2> SUFFICES ASSUME NEW i \in 1..Len(t), NEW j \in 1..Len(t), t[i] = t[j] PROVE i = j
      OBVIOUS
    <2>1. i + 1 \in 1..Len(p) /\ j + 1 \in 1..Len(p)
      BY <1>1, <1>2
    <2>2. p[i + 1] = p[j + 1]
      BY <1>1
    <2>3. i + 1 = j + 1
      BY <2>1, <2>2 DEF IsLinked
    <2> QED
      BY <1>1, <1>2, <2>3
  <1>9. t # <<>> => succ[t[Len(t)]] = null
    <2> SUFFICES ASSUME t # <<>> PROVE succ[t[Len(t)]] = null
      OBVIOUS
    <2>1. Len(t) \in 1..Len(t) /\ Len(t) + 1 = Len(p)
      BY <1>1, <1>2
    <2> QED
      BY <1>1, <2>1 DEF IsLinked
  <1>10. IsLinked(t, succ[n], succ, null)
    BY <1>6, <1>7, <1>8, <1>9 DEF IsLinked
  <1> QED
    BY <1>1, <1>5, <1>10 DEF t

\* A list goes on with another one.
LEMMA LinkedOn ==
  ASSUME NEW S, NEW p \in Seq(S), NEW q \in Seq(S), NEW n, NEW m, NEW succ, NEW null,
         p # <<>>, p[1] = n,
         \A i \in 1..Len(p) - 1 : succ[p[i]] = p[i + 1],
         \A i, j \in 1..Len(p) : p[i] = p[j] => i = j,
         succ[p[Len(p)]] = m, IsLinked(q, m, succ, null),
         \A i \in 1..Len(p) : \A j \in 1..Len(q) : p[i] # q[j]
  PROVE  p \o q \in Seq(S) /\ IsLinked(p \o q, n, succ, null)
  <1> DEFINE r == p \o q
  <1>1. /\ r \in Seq(S) /\ Len(r) = Len(p) + Len(q)
        /\ \A i \in 1..Len(p) + Len(q) : r[i] = IF i <= Len(p) THEN p[i] ELSE q[i - Len(p)]
    BY ConcatProperties
  <1> HIDE DEF r
  <1>2. PICK a \in Nat : a = Len(p) /\ a > 0
    OBVIOUS
  <1>3. PICK b \in Nat : b = Len(q)
    OBVIOUS
  <1>4. \A i \in 1..a : i \in 1..a + b /\ i <= a
    BY <1>2, <1>3
  <1>5. \A i \in 1..a : r[i] = p[i]
    BY <1>1, <1>2, <1>3, <1>4
  <1>6. \A i \in 1..b : a + i \in 1..a + b /\ ~(a + i <= a) /\ a + i - a = i
    BY <1>2, <1>3
  <1>7. \A i \in 1..b : r[a + i] = q[i]
    <2> TAKE i \in 1..b
    <2>1. a + i \in 1..Len(p) + Len(q) /\ ~(a + i <= Len(p)) /\ a + i - Len(p) = i
      BY <1>2, <1>3, <1>6
    <2> QED
      BY <1>1, <2>1
  <1>8. \A i \in 1..a + b : ~(i <= a) => \E k \in 1..b : i = a + k
    <2> SUFFICES ASSUME NEW i \in 1..a + b, ~(i <= a) PROVE \E k \in 1..b : i = a + k
      OBVIOUS
    <2>1. i - a \in 1..b /\ i = a + (i - a)
      BY <1>2, <1>3
    <2> QED
      BY <2>1
  <1>9. r # <<>> /\ r[1] = n
    <2>1. Len(r) > 0 /\ 1 \in 1..a
      BY <1>1, <1>2, <1>3
    <2> QED
      BY <1>5, <2>1
  <1>10. \A i \in 1..Len(r) - 1 : succ[r[i]] = r[i + 1]
    <2> TAKE i \in 1..Len(r) - 1
    <2>0. i \in 1..a + b /\ i # a + b
      BY <1>1, <1>2, <1>3
    <2>1. CASE i < a
      <3>1. i \in 1..a /\ i + 1 \in 1..a /\ i \in 1..a - 1
        BY <1>2, <2>0, <2>1
      <3> QED
        BY <1>2, <1>5, <3>1
    <2>2. CASE i = a
      <3>1. i \in 1..a /\ 1 \in 1..b /\ q # <<>>
        BY <1>2, <1>3, <2>0, <2>2
      <3>2. r[a] = p[a] /\ r[a + 1] = q[1]
        BY <1>5, <1>7, <2>2, <3>1
      <3>3. q[1] = m
        BY <3>1 DEF IsLinked
      <3> QED
        BY <1>2, <2>2, <3>2, <3>3
    <2>3. CASE i > a
      <3>1. ~(i <= a)
        BY <1>2, <2>0, <2>3
      <3>2. PICK k \in 1..b : i = a + k
        BY <1>8, <2>0, <3>1
      <3>a. k \in Nat /\ k >= 1 /\ k <= b /\ a \in Nat /\ b \in Nat /\ a + k # a + b
        BY <1>2, <1>3, <2>0, <3>2
      <3>b. k < b
        BY <3>a
      <3>c. k \in 1..b - 1 /\ k + 1 \in 1..b
        BY <3>a, <3>b
      <3>d. i + 1 = a + (k + 1)
        BY <3>a, <3>2
      <3>3. k \in 1..b - 1 /\ k + 1 \in 1..b /\ i + 1 = a + (k + 1)
        BY <3>c, <3>d
      <3>4. succ[q[k]] = q[k + 1]
        BY <1>3, <3>3 DEF IsLinked
      <3>5. r[a + k] = q[k] /\ r[a + (k + 1)] = q[k + 1]
        BY <1>7, <3>2, <3>3
      <3> QED
        BY <3>2, <3>3, <3>4, <3>5
    <2> QED
      BY <1>2, <2>0, <2>1, <2>2, <2>3
  <1>11. \A i, j \in 1..Len(r) : r[i] = r[j] => i = j
    <2> SUFFICES ASSUME NEW i \in 1..a + b, NEW j \in 1..a + b, r[i] = r[j] PROVE i = j
      BY <1>1, <1>2, <1>3
    <2>1. \A k, l \in 1..b : q[k] = q[l] => k = l
      BY <1>3 DEF IsLinked
    <2>2. CASE i <= a /\ j <= a
      <3>1. i \in 1..a /\ j \in 1..a
        BY <1>2, <1>3, <2>2
      <3>2. p[i] = p[j]
        BY <1>5, <3>1
      <3> QED
        BY <1>2, <3>1, <3>2
    <2>3. CASE i <= a /\ ~(j <= a)
      <3>1. i \in 1..a
        BY <1>2, <1>3, <2>3
      <3>2. PICK l \in 1..b : j = a + l
        BY <1>8, <2>3
      <3> QED
        BY <1>2, <1>3, <1>5, <1>7, <3>1, <3>2
    <2>4. CASE ~(i <= a) /\ j <= a
      <3>1. j \in 1..a
        BY <1>2, <1>3, <2>4
      <3>2. PICK l \in 1..b : i = a + l
        BY <1>8, <2>4
      <3> QED
        BY <1>2, <1>3, <1>5, <1>7, <3>1, <3>2
    <2>5. CASE ~(i <= a) /\ ~(j <= a)
      <3>1. PICK k \in 1..b : i = a + k
        BY <1>8, <2>5
      <3>2. PICK l \in 1..b : j = a + l
        BY <1>8, <2>5
      <3>3. q[k] = q[l]
        BY <1>7, <3>1, <3>2
      <3> QED
        BY <2>1, <3>1, <3>2, <3>3
    <2> QED
      BY <2>2, <2>3, <2>4, <2>5
  <1>12. succ[r[Len(r)]] = null
    <2>1. CASE b = 0
      <3>e. Len(q) = 0
        BY <1>3, <2>1
      <3>f. a \in 1..a
        BY <1>2
      <3>a. a \in 1..a /\ q = <<>>
        BY <3>e, <3>f, EmptySeq
      <3>b. Len(r) = a + b
        BY <1>1, <1>2, <1>3
      <3>c. a + b = a
        BY <1>2, <2>1
      <3>1. a \in 1..a /\ Len(r) = a /\ q = <<>>
        BY <3>a, <3>b, <3>c
      <3>2. m = null
        BY <3>1 DEF IsLinked
      <3> QED
        BY <1>2, <1>5, <3>1, <3>2
    <2>2. CASE b # 0
      <3>1. b \in 1..b /\ Len(r) = a + b /\ q # <<>>
        BY <1>1, <1>2, <1>3, <2>2
      <3>2. succ[q[b]] = null
        BY <1>3, <3>1 DEF IsLinked
      <3> QED
        BY <1>7, <3>1, <3>2
    <2> QED
      BY <2>1, <2>2
  <1>13. IsLinked(r, n, succ, null)
    BY <1>9, <1>10, <1>11, <1>12 DEF IsLinked
  <1> QED
    BY <1>1, <1>13 DEF r

\* Is x in the sequence s?
Has(s, x) == \E i \in 1..Len(s) : s[i] = x

LEMMA SeqGrows ==
  ASSUME NEW S, NEW T, S \subseteq T, NEW s \in Seq(S)
  PROVE  s \in Seq(T)
  <1>1. Len(s) \in Nat /\ s \in [1..Len(s) -> S]
    OBVIOUS
  <1>2. s \in [1..Len(s) -> T]
    BY <1>1
  <1> QED
    BY <1>1, <1>2

\* What <<x>> \o s has.
LEMMA HasOneMore ==
  ASSUME NEW S, NEW s \in Seq(S), NEW x \in S
  PROVE  /\ <<x>> \in Seq(S) /\ Len(<<x>>) = 1 /\ <<x>>[1] = x /\ <<x>> # <<>>
         /\ <<x>> \o s \in Seq(S)
         /\ \A y : Has(<<x>> \o s, y) <=> y = x \/ Has(s, y)
  <1> DEFINE o == <<x>>
             r == <<x>> \o s
  <1>1. o \in Seq(S) /\ Len(o) = 1 /\ o[1] = x /\ o # <<>>
    OBVIOUS
  <1>2. /\ r \in Seq(S) /\ Len(r) = 1 + Len(s)
        /\ \A i \in 1..1 + Len(s) : r[i] = IF i <= 1 THEN o[i] ELSE s[i - 1]
    BY <1>1, ConcatProperties
  <1> HIDE DEF r, o
  <1>3. PICK a \in Nat : a = Len(s)
    OBVIOUS
  <1>4. 1 \in 1..Len(r) /\ r[1] = x
    BY <1>1, <1>2, <1>3
  <1>5. \A i \in 1..a : i + 1 \in 1..Len(r) /\ r[i + 1] = s[i]
    <2> TAKE i \in 1..a
    <2>1. i + 1 \in 1..1 + a /\ ~(i + 1 <= 1) /\ i + 1 - 1 = i
      BY <1>3
    <2>2. r[i + 1] = s[i + 1 - 1]
      BY <1>2, <1>3, <2>1
    <2> QED
      BY <1>2, <1>3, <2>1, <2>2
  <1>6. \A i \in 1..Len(r) : i = 1 \/ \E k \in 1..a : i = k + 1
    <2> SUFFICES ASSUME NEW i \in 1..1 + a, i # 1 PROVE \E k \in 1..a : i = k + 1
      BY <1>2, <1>3
    <2>1. i - 1 \in 1..a /\ i = (i - 1) + 1
      BY <1>3
    <2> QED
      BY <2>1
  <1>7. ASSUME NEW y, Has(r, y) PROVE y = x \/ Has(s, y)
    <2>1. PICK i \in 1..Len(r) : r[i] = y
      BY <1>7 DEF Has
    <2>2. CASE i = 1
      BY <1>4, <2>1, <2>2
    <2>3. CASE \E k \in 1..a : i = k + 1
      BY <1>3, <1>5, <2>1, <2>3 DEF Has
    <2> QED
      BY <1>6, <2>2, <2>3
  <1>8. ASSUME NEW y, Has(s, y) PROVE Has(r, y)
    <2>1. PICK i \in 1..a : s[i] = y
      BY <1>3, <1>8 DEF Has
    <2>2. i + 1 \in 1..Len(r) /\ r[i + 1] = y
      BY <1>5, <2>1
    <2> QED
      BY <2>2 DEF Has
  <1>9. Has(r, x)
    BY <1>4 DEF Has
  <1>10. \A y : Has(r, y) <=> y = x \/ Has(s, y)
    BY <1>7, <1>8, <1>9
  <1> QED
    BY <1>1, <1>2, <1>10 DEF r, o

\* A list with a node in front, which was not on it.
LEMMA LinkedInFront ==
  ASSUME NEW S, NEW q \in Seq(S), NEW n \in S, NEW succ, NEW null,
         IsLinked(q, succ[n], succ, null), ~Has(q, n)
  PROVE  <<n>> \o q \in Seq(S) /\ IsLinked(<<n>> \o q, n, succ, null)
  <1> DEFINE p == <<n>>
  <1>1. p \in Seq(S) /\ Len(p) = 1 /\ p[1] = n /\ p # <<>>
    BY HasOneMore
  <1> HIDE DEF p
  <1>2. \A i \in 1..Len(p) - 1 : succ[p[i]] = p[i + 1]
    BY <1>1
  <1>3. \A i, j \in 1..Len(p) : p[i] = p[j] => i = j
    BY <1>1
  <1>4. succ[p[Len(p)]] = succ[n]
    BY <1>1
  <1>5. \A i \in 1..Len(p) : \A j \in 1..Len(q) : p[i] # q[j]
    BY <1>1 DEF Has
  <1> QED
    BY <1>1, <1>2, <1>3, <1>4, <1>5, LinkedOn DEF p

\* What Tail(s) has, and how it comes about.
LEMMA TakingFirst ==
  ASSUME NEW S, NEW s \in Seq(S), s # <<>>, \A i, j \in 1..Len(s) : s[i] = s[j] => i = j
  PROVE  /\ Tail(s) \in Seq(S)
         /\ Pool!RemoveFirst(s, s[1]) = Tail(s)
         /\ \A y : Has(Tail(s), y) <=> y # s[1] /\ Has(s, y)
  <1> DEFINE t == Tail(s)
  <1>1. t \in Seq(S) /\ Len(t) = Len(s) - 1 /\ \A i \in 1..Len(t) : t[i] = s[i + 1]
    BY HeadTailProperties
  <1>2. PICK a \in Nat : a = Len(s) /\ a > 0
    OBVIOUS
  <1>3. t = SubSeq(s, 2, Len(s))
    BY TailIsSubSeq
  <1>4. Pool!RemoveFirst(s, s[1]) = t
    <2>1. 1 \in 1..Len(s)
      BY <1>2
    <2>2. {j \in 1..Len(s) : s[j] = s[1]} = {1}
      BY <2>1
    <2>3. Pool!SelectInSeq(s, LAMBDA v : v = s[1]) = 1
      BY <2>2 DEF Pool!SelectInSeq, Pool!Min
    <2>4. Pool!RemoveFirst(s, s[1]) = SubSeq(s, 1, 1 - 1) \o SubSeq(s, 1 + 1, Len(s))
      BY <2>1, <2>3 DEF Pool!RemoveFirst, Pool!RemoveAt
    <2>5. SubSeq(s, 1, 1 - 1) = <<>> /\ 1 + 1 = 2
      OBVIOUS
    <2> QED
      BY <1>1, <1>3, <2>4, <2>5, ConcatEmptySeq
  <1> HIDE DEF t
  <1>5. \A i \in 1..Len(t) : i + 1 \in 1..a /\ i + 1 # 1
    BY <1>1, <1>2
  <1>6. \A i \in 1..a : i # 1 => i - 1 \in 1..Len(t) /\ i - 1 + 1 = i
    BY <1>1, <1>2
  <1>7. ASSUME NEW y, Has(t, y) PROVE y # s[1] /\ Has(s, y)
    <2>1. PICK i \in 1..Len(t) : t[i] = y
      BY <1>7 DEF Has
    <2>2. i + 1 \in 1..Len(s) /\ 1 \in 1..Len(s) /\ s[i + 1] = y /\ i + 1 # 1
      BY <1>1, <1>2, <1>5, <2>1
    <2> QED
      BY <2>2 DEF Has
  <1>8. ASSUME NEW y, y # s[1], Has(s, y) PROVE Has(t, y)
    <2>1. PICK i \in 1..a : s[i] = y
      BY <1>2, <1>8 DEF Has
    <2>2. i - 1 \in 1..Len(t) /\ i - 1 + 1 = i
      BY <1>6, <1>8, <2>1
    <2>3. t[i - 1] = s[i]
      BY <1>1, <2>2
    <2> QED
      BY <2>1, <2>2, <2>3 DEF Has
  <1>9. \A y : Has(t, y) <=> y # s[1] /\ Has(s, y)
    BY <1>7, <1>8
  <1> QED
    BY <1>1, <1>4, <1>9 DEF t

LEMMA HasElements ==
  ASSUME NEW S, NEW s \in Seq(S)
  PROVE  /\ \A y : y \in Pool!ToSet(s) <=> Has(s, y)
         /\ \A y : Has(s, y) => y \in S
         /\ \A i \in 1..Len(s) : Has(s, s[i])
  BY DEF Pool!ToSet, Has

-----------------------------------------------------------------------------
\* SlabPool.
LEMMA PoolNodes == IsFiniteSet(ListNodes) /\ NoNode \notin ListNodes
  BY UtilitiesAssumption DEF Pool!NodeAssumption, Pool!IsFiniteSet, IsFiniteSet

LEMMA PoolChains == \A n, f, z : Pool!ChainFrom(n, f, z) = ChainFrom(n, f, z)
  BY DEF Pool!ChainFrom, ChainFrom, Pool!IsChain, IsChain, Pool!Cardinality, Cardinality

\* What is live is every node there is, each once.
OnlyLive ==
    \E p \in Seq(Pool!Made) :
        IsLinked(p, live, link, NoNode) /\ \A n \in Pool!Made : Has(p, n)

\* Unless it goes round in circles, the list of live nodes meets a returned one.
LiveMeets ==
    \A p \in Seq(Pool!Made) :
        IsLinked(p, live, link, NoNode) => \E i \in 1..Len(p) : Has(returned, p[i])

PoolInv ==
    /\ Pool!TypeOK
    /\ link \in [Pool!Made -> Pool!Made \cup {NoNode}]
    /\ IsLinked(returned, free, link, NoNode)
    /\ ~ever => returned = <<>> /\ OnlyLive
    /\ ever => LiveMeets
    /\ Pool!DeletedOnce

LEMMA PoolInit == Pool!Init => PoolInv
  <1> SUFFICES ASSUME Pool!Init PROVE PoolInv
    OBVIOUS
  <1>1. link = <<>> /\ live = NoNode /\ free = NoNode /\ got = {} /\ returned = <<>>
        /\ ever = FALSE /\ deleted = <<>>
    BY DEF Pool!Init
  <1>2. Pool!Made = {}
    BY <1>1 DEF Pool!Made
  <1>3. <<>> \in Seq({}) /\ Len(<<>>) = 0 /\ Pool!ToSet(<<>>) = {}
    BY DEF Pool!ToSet
  <1>4. link \in [Pool!Made -> Pool!Made \cup {NoNode}]
    BY <1>1, <1>2
  <1>5. Pool!TypeOK
    BY <1>1, <1>2, <1>3 DEF Pool!TypeOK
  <1>6. IsLinked(<<>>, NoNode, link, NoNode)
    BY <1>3 DEF IsLinked
  <1>7. OnlyLive
    BY <1>1, <1>2, <1>3, <1>6 DEF OnlyLive
  <1> QED
    BY <1>1, <1>4, <1>5, <1>6, <1>7 DEF PoolInv, Pool!DeletedOnce

\* What Linked does.
LEMMA PoolLinks ==
  ASSUME link \in [Pool!Made -> Pool!Made \cup {NoNode}],
         NEW n \in ListNodes, NEW m \in Pool!Made \cup {NoNode}, Pool!Linked(n, m)
  PROVE  /\ Pool!Made' = Pool!Made \cup {n}
         /\ link' \in [Pool!Made' -> Pool!Made' \cup {NoNode}]
         /\ link'[n] = m
         /\ \A x \in Pool!Made : x # n => link'[x] = link[x]
  <1>1. link' = [x \in Pool!Made \cup {n} |-> IF x = n THEN m ELSE link[x]]
    BY DEF Pool!Linked
  <1>2. Pool!Made' = Pool!Made \cup {n}
    BY <1>1 DEF Pool!Made
  <1>3. \A x \in Pool!Made \cup {n} :
            (IF x = n THEN m ELSE link[x]) \in Pool!Made \cup {n} \cup {NoNode}
    OBVIOUS
  <1>4. link' \in [Pool!Made \cup {n} -> Pool!Made \cup {n} \cup {NoNode}]
    BY <1>1, <1>3
  <1> QED
    BY <1>1, <1>2, <1>4

\* What get does to the free list.
PoolGot(n) ==
    /\ returned' \in Seq(Pool!Made)
    /\ \A y : Has(returned', y) <=> y # n /\ Has(returned, y)
    /\ IsLinked(returned', free', link', NoNode)
    /\ free' \in Pool!Made \cup {NoNode}
    /\ ~ever => returned' = <<>> /\ n \notin Pool!Made

LEMMA PoolTakes ==
  ASSUME PoolInv, NEW n \in ListNodes, Pool!Get(n)
  PROVE  PoolGot(n)
  <1>1. /\ link \in [Pool!Made -> Pool!Made \cup {NoNode}]
        /\ IsLinked(returned, free, link, NoNode)
        /\ ~ever => returned = <<>>
        /\ returned \in Seq(Pool!Made) /\ live \in Pool!Made \cup {NoNode}
        /\ free \in Pool!Made \cup {NoNode} /\ Pool!Made \subseteq ListNodes
    BY DEF PoolInv, Pool!TypeOK
  <1>2. /\ IF free # NoNode THEN n = free /\ free' = link[n]
           ELSE n \in ListNodes \ Pool!Made /\ free' = free
        /\ Pool!Linked(n, live) /\ returned' = Pool!RemoveFirst(returned, n)
    BY DEF Pool!Get
  <1>3. /\ Pool!Made' = Pool!Made \cup {n}
        /\ \A x \in Pool!Made : x # n => link'[x] = link[x]
    BY <1>1, <1>2, PoolLinks
  <1>4. CASE free = NoNode
    <2>1. returned = <<>>
      <3>1. SUFFICES ASSUME returned # <<>> PROVE FALSE
        OBVIOUS
      <3>2. returned[1] = NoNode /\ returned[1] \in Pool!Made
        BY <1>1, <1>4, <3>1 DEF IsLinked
      <3> QED
        BY <1>1, <3>2, PoolNodes
    <2>2. returned' = <<>>
      BY <1>2, <2>1 DEF Pool!RemoveFirst
    <2>3. free' = NoNode /\ n \notin Pool!Made
      BY <1>2, <1>4
    <2>4. <<>> \in Seq(Pool!Made) /\ Len(<<>>) = 0
      OBVIOUS
    <2>5. IsLinked(<<>>, NoNode, link', NoNode)
      BY <2>4 DEF IsLinked
    <2>6. \A y : ~Has(<<>>, y)
      BY <2>4 DEF Has
    <2> QED
      BY <2>1, <2>2, <2>3, <2>4, <2>5, <2>6 DEF PoolGot
  <1>5. CASE free # NoNode
    <2>1. n = free /\ free' = link[n] /\ n \in Pool!Made
      BY <1>1, <1>2, <1>5
    <2>2. returned # <<>> /\ returned[1] = n
      BY <1>1, <1>5, <2>1 DEF IsLinked
    <2>3. \A i, j \in 1..Len(returned) : returned[i] = returned[j] => i = j
      BY <1>1 DEF IsLinked
    <2>4. /\ returned' = Tail(returned) /\ Tail(returned) \in Seq(Pool!Made)
          /\ \A y : Has(Tail(returned), y) <=> y # n /\ Has(returned, y)
      BY <1>1, <1>2, <2>2, <2>3, TakingFirst
    <2>5. /\ Len(Tail(returned)) = Len(returned) - 1
          /\ \A i \in 1..Len(returned) - 1 : Tail(returned)[i] # n
          /\ IsLinked(Tail(returned), link[n], link, NoNode)
      BY <1>1, <2>1, <2>2, LinkedTail
    <2>6. \A i \in 1..Len(Tail(returned)) : link'[Tail(returned)[i]] = link[Tail(returned)[i]]
      BY <1>3, <2>4, <2>5
    <2>7. IsLinked(Tail(returned), link[n], link', NoNode)
      BY <2>4, <2>5, <2>6, LinkedBy
    <2>8. free' \in Pool!Made \cup {NoNode}
      BY <1>1, <2>1
    <2> QED
      BY <1>1, <2>1, <2>2, <2>4, <2>7, <2>8 DEF PoolGot
  <1> QED
    BY <1>4, <1>5

\* The new first of the live nodes.
LEMMA PoolGetsLive ==
  ASSUME PoolInv, NEW n \in ListNodes, Pool!Get(n)
  PROVE  /\ ~ever => OnlyLive'
         /\ ever => LiveMeets'
  <1>1. /\ link \in [Pool!Made -> Pool!Made \cup {NoNode}]
        /\ ~ever => OnlyLive /\ n \notin Pool!Made
        /\ ever => LiveMeets
        /\ live \in Pool!Made \cup {NoNode}
        /\ Pool!Made \subseteq ListNodes
        /\ \A y : Has(returned', y) <=> y # n /\ Has(returned, y)
    BY PoolTakes DEF PoolInv, Pool!TypeOK, PoolGot
  <1>2. Pool!Linked(n, live) /\ live' = n
    BY DEF Pool!Get
  <1>3. /\ Pool!Made' = Pool!Made \cup {n}
        /\ link'[n] = live
        /\ \A x \in Pool!Made : x # n => link'[x] = link[x]
    BY <1>1, <1>2, PoolLinks
  <1>4. ASSUME ~ever PROVE OnlyLive'
    <2>1. n \notin Pool!Made
      BY <1>1, <1>4
    <2>2. PICK p \in Seq(Pool!Made) :
              IsLinked(p, live, link, NoNode) /\ \A x \in Pool!Made : Has(p, x)
      BY <1>1, <1>4 DEF OnlyLive
    <2>3. p \in Seq(Pool!Made')
      BY <1>3, SeqGrows
    <2>4. \A i \in 1..Len(p) : p[i] \in Pool!Made
      OBVIOUS
    <2>5. IsLinked(p, link'[n], link', NoNode)
      BY <1>3, <2>1, <2>2, <2>4, LinkedBy
    <2>6. ~Has(p, n)
      BY <2>1, <2>4 DEF Has
    <2>7. n \in Pool!Made'
      BY <1>3
    <2>8. <<n>> \o p \in Seq(Pool!Made') /\ IsLinked(<<n>> \o p, n, link', NoNode)
      BY <2>3, <2>5, <2>6, <2>7, LinkedInFront
    <2>9. \A x \in Pool!Made' : Has(<<n>> \o p, x)
      BY <1>3, <2>2, <2>3, <2>7, HasOneMore
    <2> QED
      BY <1>2, <2>8, <2>9 DEF OnlyLive
  <1>5. ASSUME ever PROVE LiveMeets'
    <2>1. LiveMeets
      BY <1>1, <1>5
    <2>2. SUFFICES ASSUME NEW p \in Seq(Pool!Made'), IsLinked(p, n, link', NoNode)
                   PROVE  \E i \in 1..Len(p) : Has(returned', p[i])
      BY <1>2 DEF LiveMeets
    <2>3. n # NoNode
      BY PoolNodes
    <2>4. p # <<>>
      BY <2>2, <2>3 DEF IsLinked
    <2>5. /\ Tail(p) \in Seq(Pool!Made') /\ Len(Tail(p)) = Len(p) - 1
          /\ \A i \in 1..Len(p) - 1 : Tail(p)[i] = p[i + 1] /\ Tail(p)[i] # n
          /\ IsLinked(Tail(p), live, link', NoNode)
      BY <1>3, <2>2, <2>4, LinkedTail
    <2> DEFINE t == Tail(p)
    <2> HIDE DEF t
    <2>6. t \in Seq(Pool!Made') /\ (\A i \in 1..Len(t) : t[i] # n)
          /\ IsLinked(t, live, link', NoNode)
      BY <2>5 DEF t
    <2>7. \A i \in 1..Len(t) : t[i] \in Pool!Made
      BY <1>3, <2>6
    <2>8. t \in Seq(Pool!Made)
      BY <2>6, <2>7
    <2>9. IsLinked(t, live, link, NoNode)
      BY <1>3, <2>6, <2>7, <2>8, LinkedBy
    <2>10. PICK i \in 1..Len(t) : Has(returned, t[i])
      BY <2>1, <2>8, <2>9 DEF LiveMeets
    <2>11. Has(returned', t[i])
      BY <1>1, <2>6, <2>10
    <2>12. i + 1 \in 1..Len(p) /\ t[i] = p[i + 1]
      <3>1. Len(t) = Len(p) - 1 /\ t[i] = p[i + 1]
        BY <2>5 DEF t
      <3>2. Len(p) \in Nat
        OBVIOUS
      <3> QED
        BY <3>1, <3>2
    <2> QED
      BY <2>11, <2>12
  <1> QED
    BY <1>4, <1>5

LEMMA PoolGets ==
  ASSUME PoolInv, NEW n \in ListNodes, Pool!Get(n)
  PROVE  PoolInv'
  <1>1. /\ link \in [Pool!Made -> Pool!Made \cup {NoNode}]
        /\ live \in Pool!Made \cup {NoNode} /\ Pool!Made \subseteq ListNodes
        /\ returned \in Seq(Pool!Made) /\ deleted \in Seq(Pool!Made)
        /\ got \cap Pool!ToSet(returned) = {} /\ got \cup Pool!ToSet(returned) = Pool!Made
        /\ ever \in BOOLEAN
    BY DEF PoolInv, Pool!TypeOK
  <1>2. /\ Pool!Linked(n, live) /\ live' = n /\ got' = got \cup {n}
        /\ deleted' = deleted /\ deleted = <<>> /\ UNCHANGED ever
    BY DEF Pool!Get, Pool!Alive
  <1>3. /\ Pool!Made' = Pool!Made \cup {n}
        /\ link' \in [Pool!Made' -> Pool!Made' \cup {NoNode}]
    BY <1>1, <1>2, PoolLinks
  <1>4. PoolGot(n)
    BY PoolTakes
  <1>5. returned' \in Seq(Pool!Made') /\ deleted' \in Seq(Pool!Made')
    BY <1>1, <1>2, <1>3, <1>4, SeqGrows DEF PoolGot
  <1>6. /\ \A y : y \in Pool!ToSet(returned)' <=> y # n /\ y \in Pool!ToSet(returned)
    <2>1. \A y : y \in Pool!ToSet(returned) <=> Has(returned, y)
      BY <1>1, HasElements
    <2>2. \A y : y \in Pool!ToSet(returned') <=> Has(returned', y)
      BY <1>5, HasElements
    <2> QED
      BY <1>4, <2>1, <2>2 DEF PoolGot
  <1>7. got' \cap Pool!ToSet(returned)' = {} /\ got' \cup Pool!ToSet(returned)' = Pool!Made'
    BY <1>1, <1>2, <1>3, <1>6
  <1>8. live' \in Pool!Made' \cup {NoNode} /\ free' \in Pool!Made' \cup {NoNode}
    BY <1>2, <1>3, <1>4 DEF PoolGot
  <1>9. ever' \in BOOLEAN
    BY <1>1, <1>2, Zenon
  <1>10. Pool!Made' \subseteq ListNodes /\ \A x \in Pool!Made' : link'[x] \in Pool!Made' \cup {NoNode}
    BY <1>1, <1>3
  <1>11. Pool!TypeOK'
    BY <1>5, <1>7, <1>8, <1>9, <1>10 DEF Pool!TypeOK
  <1>12. IsLinked(returned', free', link', NoNode) /\ (~ever => returned' = <<>>)
    BY <1>4 DEF PoolGot
  <1>13. (~ever => OnlyLive') /\ (ever => LiveMeets')
    BY PoolGetsLive
  <1>14. (~ever' => returned' = <<>> /\ OnlyLive') /\ (ever' => LiveMeets')
    BY <1>2, <1>12, <1>13, Zenon
  <1>15. Pool!DeletedOnce'
    BY <1>2 DEF Pool!DeletedOnce
  <1> QED
    BY <1>3, <1>11, <1>12, <1>14, <1>15 DEF PoolInv

LEMMA PoolBacks ==
  ASSUME PoolInv, NEW n \in ListNodes, Pool!Back(n)
  PROVE  PoolInv'
  <1>1. /\ link \in [Pool!Made -> Pool!Made \cup {NoNode}]
        /\ live \in Pool!Made \cup {NoNode} /\ free \in Pool!Made \cup {NoNode}
        /\ Pool!Made \subseteq ListNodes
        /\ returned \in Seq(Pool!Made) /\ deleted \in Seq(Pool!Made)
        /\ got \cap Pool!ToSet(returned) = {} /\ got \cup Pool!ToSet(returned) = Pool!Made
        /\ IsLinked(returned, free, link, NoNode)
        /\ (~ever => OnlyLive) /\ (ever => LiveMeets)
    BY DEF PoolInv, Pool!TypeOK
  <1>2. /\ Pool!Linked(n, free) /\ free' = n /\ got' = got \ {n} /\ n \in got
        /\ returned' = <<n>> \o returned /\ ever' = TRUE /\ live' = live
        /\ deleted' = deleted /\ deleted = <<>>
    BY DEF Pool!Back, Pool!Alive
  <1>3. n \in Pool!Made /\ n \notin Pool!ToSet(returned)
    BY <1>1, <1>2
  <1>4. /\ Pool!Made' = Pool!Made
        /\ link' \in [Pool!Made' -> Pool!Made' \cup {NoNode}]
        /\ link'[n] = free
        /\ \A x \in Pool!Made : x # n => link'[x] = link[x]
    BY <1>1, <1>2, <1>3, PoolLinks, SMTT(30)
  <1>5. /\ returned' \in Seq(Pool!Made)
        /\ \A y : Has(returned', y) <=> y = n \/ Has(returned, y)
    BY <1>1, <1>2, <1>3, HasOneMore
  <1>6. \A y : y \in Pool!ToSet(returned)' <=> y = n \/ y \in Pool!ToSet(returned)
    <2>1. \A y : y \in Pool!ToSet(returned) <=> Has(returned, y)
      BY <1>1, HasElements
    <2>2. \A y : y \in Pool!ToSet(returned') <=> Has(returned', y)
      BY <1>5, HasElements
    <2> QED
      BY <1>5, <2>1, <2>2
  <1>7. got' \cap Pool!ToSet(returned)' = {} /\ got' \cup Pool!ToSet(returned)' = Pool!Made'
    BY <1>1, <1>2, <1>3, <1>4, <1>6
  <1>8. live' \in Pool!Made' \cup {NoNode} /\ free' \in Pool!Made' \cup {NoNode}
        /\ returned' \in Seq(Pool!Made') /\ deleted' \in Seq(Pool!Made')
    BY <1>1, <1>2, <1>3, <1>4, <1>5
  <1>9. Pool!Made' \subseteq ListNodes /\ \A x \in Pool!Made' : link'[x] \in Pool!Made' \cup {NoNode}
    BY <1>1, <1>4
  <1>10. Pool!TypeOK'
    BY <1>2, <1>7, <1>8, <1>9 DEF Pool!TypeOK
  <1>11. ~Has(returned, n)
    BY <1>1, <1>3, HasElements
  <1>12. IsLinked(returned', free', link', NoNode)
    <2>1. \A i \in 1..Len(returned) : returned[i] \in Pool!Made /\ returned[i] # n
      BY <1>1, <1>11 DEF Has
    <2>2. IsLinked(returned, link'[n], link', NoNode)
      BY <1>1, <1>4, <2>1, LinkedBy
    <2> QED
      BY <1>1, <1>2, <1>3, <1>11, <2>2, LinkedInFront
  <1>13. LiveMeets'
    <2>1. SUFFICES ASSUME NEW p \in Seq(Pool!Made), IsLinked(p, live, link', NoNode)
                   PROVE  \E i \in 1..Len(p) : Has(returned', p[i])
      BY <1>2, <1>4 DEF LiveMeets
    <2>2. CASE Has(p, n)
      BY <1>5, <2>2 DEF Has
    <2>3. CASE ~Has(p, n)
      <3>1. \A i \in 1..Len(p) : p[i] \in Pool!Made /\ p[i] # n
        BY <2>3 DEF Has
      <3>2. IsLinked(p, live, link, NoNode)
        BY <1>4, <2>1, <3>1, LinkedBy
      <3>3. CASE ever
        <4>1. PICK i \in 1..Len(p) : Has(returned, p[i])
          BY <1>1, <3>2, <3>3 DEF LiveMeets
        <4> QED
          BY <1>5, <4>1
      <3>4. CASE ~ever
        <4>1. PICK q \in Seq(Pool!Made) :
                  IsLinked(q, live, link, NoNode) /\ \A x \in Pool!Made : Has(q, x)
          BY <1>1, <3>4 DEF OnlyLive
        <4>2. IsChain(p, live, link, NoNode) /\ IsChain(q, live, link, NoNode)
          BY <3>2, <4>1, LinkedIsChain
        <4>3. NoNode \notin Pool!Made
          BY <1>1, PoolNodes
        <4>4. p = q
          BY <4>2, <4>3, OneChain
        <4> QED
          BY <1>3, <2>3, <4>1, <4>4
      <3> QED
        BY <3>3, <3>4
    <2> QED
      BY <2>2, <2>3
  <1>14. Pool!DeletedOnce'
    BY <1>2 DEF Pool!DeletedOnce
  <1> QED
    BY <1>2, <1>4, <1>10, <1>12, <1>13, <1>14 DEF PoolInv

\* Following next from free meets what was returned.
LEMMA FreeIsReturned == PoolInv => Pool!FreeIntact
  <1> SUFFICES ASSUME PoolInv PROVE Pool!FreeIntact
    OBVIOUS
  <1>1. /\ link \in [Pool!Made -> Pool!Made \cup {NoNode}]
        /\ free \in Pool!Made \cup {NoNode} /\ returned \in Seq(Pool!Made)
        /\ IsLinked(returned, free, link, NoNode) /\ Pool!Made \subseteq ListNodes
    BY DEF PoolInv, Pool!TypeOK
  <1>2. IsFiniteSet(Pool!Made) /\ NoNode \notin Pool!Made
    BY <1>1, PoolNodes, FS_Subset
  <1>3. ChainFrom(free, link, NoNode) = returned
    BY <1>1, <1>2, LinkedIsMet
  <1> QED
    BY <1>3, PoolChains DEF Pool!FreeIntact, Pool!Chain

\* What the destructor deletes.
LEMMA PoolDeletes ==
  ASSUME PoolInv, Pool!Destroy
  PROVE  deleted' \in Seq(Pool!Made) /\ Pool!DeletedOnce'
  <1>1. /\ link \in [Pool!Made -> Pool!Made \cup {NoNode}]
        /\ live \in Pool!Made \cup {NoNode} /\ returned \in Seq(Pool!Made)
        /\ (~ever => returned = <<>> /\ OnlyLive) /\ (ever => LiveMeets)
        /\ Pool!Made \subseteq ListNodes
    BY DEF PoolInv, Pool!TypeOK
  <1>2. IsFiniteSet(Pool!Made) /\ NoNode \notin Pool!Made
    BY <1>1, PoolNodes, FS_Subset
  <1> DEFINE c == ChainFrom(live, link, NoNode)
  <1>3. /\ c \in Seq(Pool!Made) /\ IsChain(c, live, link, NoNode)
        /\ \A p \in Seq(Pool!Made) : IsChain(p, live, link, NoNode) => c = p
    BY <1>1, <1>2, ChainIsMet
  <1> HIDE DEF c
  <1>4. deleted' = c \o returned /\ Pool!Made' = Pool!Made /\ UNCHANGED ever
    <2>1. deleted' = Pool!Chain(live) \o Pool!Chain(free)
      BY DEF Pool!Destroy
    <2>2. Pool!Chain(live) = c
      BY PoolChains DEF Pool!Chain, c
    <2>3. Pool!Chain(free) = returned
      BY FreeIsReturned DEF Pool!FreeIntact
    <2>4. Pool!Made' = Pool!Made /\ UNCHANGED ever
      BY DEF Pool!Destroy, Pool!Made
    <2> QED
      BY <2>1, <2>2, <2>3, <2>4
  <1> DEFINE d == c \o returned
  <1>5. /\ d \in Seq(Pool!Made) /\ Len(d) = Len(c) + Len(returned)
        /\ \A i \in 1..Len(c) + Len(returned) :
               d[i] = IF i <= Len(c) THEN c[i] ELSE returned[i - Len(c)]
    BY <1>1, <1>3, ConcatProperties
  <1>6. d \in Seq(Pool!Made) /\ deleted' = d
    BY <1>4, <1>5
  <1> HIDE DEF d
  <1>7. Len(c) \in Nat /\ Len(returned) \in Nat
    BY <1>1, <1>3
  <1>8. ASSUME ~ever PROVE Pool!IsInjective(d) /\ Pool!ToSet(d) = Pool!Made
    <2>1. PICK p \in Seq(Pool!Made) :
              IsLinked(p, live, link, NoNode) /\ \A x \in Pool!Made : Has(p, x)
      BY <1>1, <1>8 DEF OnlyLive
    <2>2. c = p
      BY <1>3, <2>1, LinkedIsChain
    <2>3. d = p
      BY <1>1, <1>8, <2>1, <2>2, ConcatEmptySeq DEF d
    <2>4. DOMAIN p = 1..Len(p)
      OBVIOUS
    <2>5. Pool!IsInjective(p)
      BY <2>1, <2>4 DEF Pool!IsInjective, IsLinked
    <2>6. \A y : y \in Pool!ToSet(p) <=> y \in Pool!Made
      BY <2>1, HasElements
    <2> QED
      BY <2>3, <2>5, <2>6
  <1>9. ASSUME ever, Pool!IsInjective(d) PROVE FALSE
    <2>1. DOMAIN d = 1..Len(d)
      BY <1>5
    <2>2. \A i, j \in 1..Len(d) : d[i] = d[j] => i = j
      BY <1>9, <2>1 DEF Pool!IsInjective
    <2>3. \A i \in 1..Len(c) : i \in 1..Len(d) /\ d[i] = c[i]
      <3> TAKE i \in 1..Len(c)
      <3>1. i \in 1..Len(c) + Len(returned) /\ i <= Len(c)
        BY <1>7
      <3> QED
        BY <1>5, <3>1
    <2>4. \A i, j \in 1..Len(c) : c[i] = c[j] => i = j
      BY <2>2, <2>3
    <2>5. IsLinked(c, live, link, NoNode)
      BY <1>3, <2>4, ChainIsLinked
    <2>6. PICK i \in 1..Len(c) : Has(returned, c[i])
      BY <1>1, <1>3, <1>9, <2>5 DEF LiveMeets
    <2>7. PICK j \in 1..Len(returned) : returned[j] = c[i]
      BY <2>6 DEF Has
    <2>8. /\ Len(c) + j \in 1..Len(c) + Len(returned) /\ ~(Len(c) + j <= Len(c))
          /\ Len(c) + j - Len(c) = j
      BY <1>7
    <2>9. Len(c) + j \in 1..Len(d) /\ d[Len(c) + j] = c[i]
      BY <1>5, <2>7, <2>8
    <2>10. i = Len(c) + j
      BY <2>2, <2>3, <2>9
    <2> QED
      BY <1>7, <2>10
  <1>10. Pool!IsInjective(d) /\ Pool!ToSet(d) = Pool!Made <=> ~ever
    BY <1>8, <1>9
  <1>11. Pool!IsInjective(deleted') /\ Pool!ToSet(deleted') = Pool!Made' <=> ~ever'
    <2>1. ever' = ever /\ Pool!Made' = Pool!Made /\ deleted' = d
      BY <1>4, <1>6
    <2> QED
      BY <1>10, <2>1, Zenon
  <1> QED
    BY <1>6, <1>11 DEF Pool!DeletedOnce

LEMMA PoolStep ==
  ASSUME PoolInv, [Pool!Next]_(Pool!vars)
  PROVE  PoolInv'
  <1>1. CASE Pool!Destroy
    <2>1. deleted' \in Seq(Pool!Made) /\ Pool!DeletedOnce'
      BY <1>1, PoolDeletes
    <2>2. UNCHANGED <<link, live, free, got, returned, ever>>
      BY <1>1 DEF Pool!Destroy
    <2>3. Pool!Made' = Pool!Made
      BY <2>2 DEF Pool!Made
    <2>4. Pool!TypeOK'
      BY <2>1, <2>2, <2>3 DEF PoolInv, Pool!TypeOK
    <2>5. (OnlyLive <=> OnlyLive') /\ (LiveMeets <=> LiveMeets')
      BY <2>2, <2>3 DEF OnlyLive, LiveMeets
    <2>6. (~ever' => returned' = <<>> /\ OnlyLive') /\ (ever' => LiveMeets')
      BY <2>2, <2>5, Zenon DEF PoolInv
    <2>7. /\ link' \in [Pool!Made' -> Pool!Made' \cup {NoNode}]
          /\ IsLinked(returned', free', link', NoNode)
      BY <2>2, <2>3 DEF PoolInv
    <2> QED
      BY <2>1, <2>4, <2>6, <2>7 DEF PoolInv
  <1>2. CASE \E n \in ListNodes : Pool!Get(n) \/ Pool!Back(n)
    BY <1>2, PoolGets, PoolBacks
  <1>3. CASE UNCHANGED Pool!vars
    <2>1. UNCHANGED <<link, live, free, got, returned, ever, deleted>>
      BY <1>3 DEF Pool!vars
    <2>3. Pool!Made' = Pool!Made
      BY <2>1 DEF Pool!Made
    <2>4. Pool!TypeOK'
      BY <2>1, <2>3 DEF PoolInv, Pool!TypeOK
    <2>5. (OnlyLive <=> OnlyLive') /\ (LiveMeets <=> LiveMeets')
      BY <2>1, <2>3 DEF OnlyLive, LiveMeets
    <2>6. (~ever' => returned' = <<>> /\ OnlyLive') /\ (ever' => LiveMeets')
      BY <2>1, <2>5, Zenon DEF PoolInv
    <2>7. /\ link' \in [Pool!Made' -> Pool!Made' \cup {NoNode}]
          /\ IsLinked(returned', free', link', NoNode)
      BY <2>1, <2>3 DEF PoolInv
    <2>8. Pool!DeletedOnce'
      BY <2>1, <2>3 DEF PoolInv, Pool!DeletedOnce
    <2> QED
      BY <2>4, <2>6, <2>7, <2>8 DEF PoolInv
  <1> QED
    BY <1>1, <1>2, <1>3 DEF Pool!Next

LEMMA PoolIsIntact == PoolInv => Pool!FreeIntact /\ Pool!DeletedOnce
  BY FreeIsReturned DEF PoolInv

\* The pool's free nodes are those given back, and its destructor deletes some
\* node twice just when there ever were some (get, back and ~SlabPool of
\* slab_pool.h).
THEOREM PoolStaysIntact == SpecAll => []PoolIntact
  <1>1. InitAll => PoolInv
    BY PoolInit DEF InitAll
  <1>2. PoolInv /\ [NextAll]_varsAll => PoolInv'
    <2>1. [NextAll]_varsAll => [Pool!Next]_(Pool!vars)
      BY DEF NextAll, varsAll, poolVars, Pool!vars
    <2> QED
      BY <2>1, PoolStep
  <1>3. PoolInv => PoolIntact
    BY PoolIsIntact DEF PoolIntact
  <1> QED
    BY <1>1, <1>2, <1>3, PTL DEF SpecAll

-----------------------------------------------------------------------------
\* IntrusiveList.
HasBeforeLast(s, x) == \E i \in 1..Len(s) - 1 : s[i] = x

NoRepeats(s) == \A i, j \in 1..Len(s) : s[i] = s[j] => i = j

\* What a list that was not destroyed is.
ListIs(s, n, m, succ) ==
    /\ IsLinked(s, n, succ, NoNode)
    /\ m = IF s = <<>> THEN NoNode ELSE s[Len(s)]

Apart == \A k, l \in Lists : k # l => \A x : ~(Has(contents[k], x) /\ Has(contents[l], x))

\* What the destroyed lists held up to their last nodes.
DestroyedIs == \A x : x \in destroyed <=> \E d \in dead : HasBeforeLast(contents[d], x)

ListTypes ==
    /\ start \in [Lists -> ListNodes \cup {NoNode}]
    /\ end \in [Lists -> ListNodes \cup {NoNode}]
    /\ next \in [ListNodes -> ListNodes \cup {NoNode}]
    /\ contents \in [Lists -> Seq(ListNodes)]
    /\ dead \subseteq Lists

ListInv ==
    /\ ListTypes
    /\ \A l \in Lists : NoRepeats(contents[l])
    /\ Apart
    /\ \A l \in Lists \ dead : ListIs(contents[l], start[l], end[l], next)
    /\ DestroyedIs

LEMMA ListInit == Lst!Init => ListInv
  <1> SUFFICES ASSUME Lst!Init PROVE ListInv
    OBVIOUS
  <1>1. /\ start = [l \in Lists |-> NoNode] /\ end = [l \in Lists |-> NoNode]
        /\ next = [n \in ListNodes |-> NoNode]
        /\ destroyed = {} /\ dead = {} /\ contents = [l \in Lists |-> <<>>]
    BY DEF Lst!Init
  <1>2. <<>> \in Seq(ListNodes) /\ Len(<<>>) = 0
    OBVIOUS
  <1>3. ListTypes
    BY <1>1, <1>2 DEF ListTypes
  <1>4. ListIs(<<>>, NoNode, NoNode, next) /\ NoRepeats(<<>>) /\ \A x : ~Has(<<>>, x)
    BY <1>2 DEF ListIs, IsLinked, NoRepeats, Has
  <1>5. \A l \in Lists : contents[l] = <<>> /\ start[l] = NoNode /\ end[l] = NoNode
    BY <1>1
  <1>6. Apart
    BY <1>4, <1>5 DEF Apart
  <1>7. DestroyedIs
    BY <1>1 DEF DestroyedIs
  <1> QED
    BY <1>3, <1>4, <1>5, <1>6, <1>7 DEF ListInv

\* A list is not disturbed by what happens to the nodes that are not on it.
LEMMA ListIsBy ==
  ASSUME NEW S, NEW s \in Seq(S), NEW m, NEW e, NEW f, NEW g, ListIs(s, m, e, f),
         \A x : Has(s, x) => g[x] = f[x]
  PROVE  ListIs(s, m, e, g)
  <1>1. \A i \in 1..Len(s) : g[s[i]] = f[s[i]]
    BY DEF Has
  <1> QED
    BY <1>1, LinkedBy DEF ListIs

\* An empty list is empty, and the first and the last node of another are on it.
LEMMA ListEnds ==
  ASSUME ListInv, NEW l \in Lists \ dead
  PROVE  /\ contents[l] \in Seq(ListNodes) /\ Len(contents[l]) \in Nat
         /\ Lst!IsEmpty(l) <=> contents[l] = <<>>
         /\ contents[l] # <<>> =>
                /\ Len(contents[l]) > 0
                /\ start[l] = contents[l][1] /\ end[l] = contents[l][Len(contents[l])]
                /\ Has(contents[l], start[l]) /\ Has(contents[l], end[l])
  <1>1. contents[l] \in Seq(ListNodes) /\ ListIs(contents[l], start[l], end[l], next)
    BY DEF ListInv, ListTypes
  <1>2. IF contents[l] = <<>> THEN start[l] = NoNode ELSE start[l] = contents[l][1]
    BY <1>1 DEF ListIs, IsLinked
  <1>3. end[l] = IF contents[l] = <<>> THEN NoNode ELSE contents[l][Len(contents[l])]
    BY <1>1 DEF ListIs
  <1>4. Len(contents[l]) \in Nat
    BY <1>1
  <1>5. ASSUME contents[l] # <<>>
        PROVE  /\ Len(contents[l]) > 0 /\ 1 \in 1..Len(contents[l])
               /\ Len(contents[l]) \in 1..Len(contents[l])
               /\ contents[l][1] \in ListNodes
    BY <1>1, <1>5
  <1>6. Lst!IsEmpty(l) <=> contents[l] = <<>>
    BY <1>2, <1>5, PoolNodes DEF Lst!IsEmpty
  <1>7. contents[l] # <<>> => Has(contents[l], start[l]) /\ Has(contents[l], end[l])
    BY <1>2, <1>3, <1>5 DEF Has
  <1> QED
    BY <1>1, <1>2, <1>3, <1>4, <1>5, <1>6, <1>7

\* As long as no list is destroyed.
LEMMA DestroyedStays ==
  ASSUME DestroyedIs, UNCHANGED <<destroyed, dead>>,
         \A d \in dead : contents'[d] = contents[d]
  PROVE  DestroyedIs'
  BY DEF DestroyedIs, HasBeforeLast

\* One list changes, and gets only nodes that are on no list.
LEMMA OneListChanges ==
  ASSUME ListInv, NEW l \in Lists \ dead, NEW s \in Seq(ListNodes), NoRepeats(s),
         contents' = [contents EXCEPT ![l] = s],
         \A x : Has(s, x) => Has(contents[l], x) \/ \A k \in Lists : ~Has(contents[k], x)
  PROVE  /\ contents' \in [Lists -> Seq(ListNodes)]
         /\ \A k \in Lists : NoRepeats(contents'[k])
         /\ Apart'
         /\ contents'[l] = s /\ \A k \in Lists : k # l => contents'[k] = contents[k]
  <1>1. /\ contents \in [Lists -> Seq(ListNodes)] /\ Apart
        /\ \A k \in Lists : NoRepeats(contents[k])
    BY DEF ListInv, ListTypes
  <1>2. /\ contents' \in [Lists -> Seq(ListNodes)] /\ contents'[l] = s
        /\ \A k \in Lists : k # l => contents'[k] = contents[k]
    BY <1>1
  <1>3. \A k \in Lists : NoRepeats(contents'[k])
    BY <1>1, <1>2
  <1>4. ASSUME NEW k \in Lists, k # l, NEW x, Has(contents'[k], x), Has(s, x) PROVE FALSE
    BY <1>1, <1>2, <1>4 DEF Apart
  <1>5. ASSUME NEW k \in Lists, NEW m \in Lists, k # m, NEW x,
               Has(contents'[k], x), Has(contents'[m], x)
        PROVE  FALSE
    <2>1. CASE k = l
      BY <1>2, <1>4, <1>5, <2>1
    <2>2. CASE m = l
      BY <1>2, <1>4, <1>5, <2>2
    <2>3. CASE k # l /\ m # l
      BY <1>1, <1>2, <1>5, <2>3 DEF Apart
    <2> QED
      BY <2>1, <2>2, <2>3
  <1>6. Apart'
    BY <1>5 DEF Apart
  <1> QED
    BY <1>2, <1>3, <1>6

LEMMA ListPushes ==
  ASSUME ListInv, NEW l \in Lists, NEW n \in ListNodes, Lst!Push(l, n)
  PROVE  ListInv'
  <1>1. /\ l \in Lists \ dead /\ n \in Lst!Owned
        /\ next' = IF Lst!IsEmpty(l) THEN [next EXCEPT ![n] = NoNode]
                   ELSE [next EXCEPT ![n] = NoNode, ![end[l]] = n]
        /\ start' = [start EXCEPT ![l] = IF Lst!IsEmpty(l) THEN n ELSE start[l]]
        /\ end' = [end EXCEPT ![l] = n]
        /\ contents' = [contents EXCEPT ![l] = Append(contents[l], n)]
        /\ UNCHANGED <<destroyed, dead>>
    BY DEF Lst!Push
  <1>2. /\ ListTypes /\ Apart /\ DestroyedIs /\ NoRepeats(contents[l])
        /\ \A k \in Lists \ dead : ListIs(contents[k], start[k], end[k], next)
    BY DEF ListInv
  <1>3. /\ start \in [Lists -> ListNodes \cup {NoNode}]
        /\ end \in [Lists -> ListNodes \cup {NoNode}]
        /\ next \in [ListNodes -> ListNodes \cup {NoNode}]
        /\ contents \in [Lists -> Seq(ListNodes)]
        /\ dead \subseteq Lists
    BY <1>2 DEF ListTypes
  <1>4. \A k \in Lists : ~Has(contents[k], n)
    <2> TAKE k \in Lists
    <2>1. n \notin Lst!ToSet(contents[k]) /\ contents[k] \in Seq(ListNodes)
      BY <1>1, <1>3 DEF Lst!Owned
    <2> QED
      BY <2>1 DEF Lst!ToSet, Has
  <1> DEFINE s == contents[l]
             a == Append(s, n)
  <1>5. /\ s \in Seq(ListNodes) /\ Len(s) \in Nat
        /\ Lst!IsEmpty(l) <=> s = <<>>
        /\ s # <<>> => /\ Len(s) > 0 /\ start[l] = s[1] /\ end[l] = s[Len(s)]
                       /\ Has(s, end[l])
    BY <1>1, ListEnds
  <1>6. /\ a \in Seq(ListNodes) /\ a # <<>> /\ Len(a) = Len(s) + 1
        /\ \A i \in 1..Len(s) : a[i] = s[i]
        /\ a[Len(s) + 1] = n /\ a = s \o <<n>>
    BY <1>5, AppendProperties, AppendIsConcat
  <1>7. ListIs(s, start[l], end[l], next)
    BY <1>1, <1>2
  <1> HIDE DEF a
  <1>8. start'[l] = (IF s = <<>> THEN n ELSE start[l]) /\ end'[l] = n
    BY <1>1, <1>3, <1>5
  <1>9. /\ next' \in [ListNodes -> ListNodes \cup {NoNode}]
        /\ next'[n] = NoNode
        /\ s # <<>> => next'[end[l]] = n
        /\ \A x \in ListNodes : x # n /\ (s # <<>> => x # end[l]) => next'[x] = next[x]
    <2>1. CASE s = <<>>
      <3>1. next' = [next EXCEPT ![n] = NoNode]
        BY <1>1, <1>5, <2>1
      <3> QED
        BY <1>3, <2>1, <3>1
    <2>2. CASE s # <<>>
      <3>1. next' = [next EXCEPT ![n] = NoNode, ![end[l]] = n]
        BY <1>1, <1>5, <2>2
      <3>2. end[l] # n /\ end[l] \in ListNodes
        BY <1>4, <1>5, <2>2, HasElements
      <3> QED
        BY <1>3, <2>2, <3>1, <3>2
    <2> QED
      BY <2>1, <2>2
  <1>10. IsLinked(a, start'[l], next', NoNode)
    <2>1. <<n>> \in Seq(ListNodes) /\ Len(<<n>>) = 1 /\ <<n>>[1] = n /\ <<n>> # <<>>
      BY HasOneMore
    <2>2. IsLinked(<<n>>, n, next', NoNode)
      BY <1>9, <2>1 DEF IsLinked
    <2>3. CASE s = <<>>
      <3>1. a = <<n>>
        BY <1>6, <2>1, <2>3, ConcatEmptySeq
      <3> QED
        BY <1>8, <2>2, <2>3, <3>1
    <2>4. CASE s # <<>>
      <3>1. s[1] = start[l] /\ start'[l] = start[l] /\ end[l] = s[Len(s)]
        BY <1>5, <1>8, <2>4
      <3>2. \A i, j \in 1..Len(s) : s[i] = s[j] => i = j
        BY <1>2 DEF NoRepeats
      <3>3. \A i \in 1..Len(s) - 1 : next'[s[i]] = s[i + 1]
        <4> TAKE i \in 1..Len(s) - 1
        <4>1. i \in 1..Len(s) /\ i # Len(s) /\ Len(s) \in 1..Len(s)
          BY <1>5, <2>4
        <4>2. s[i] # end[l] /\ s[i] \in ListNodes
          BY <1>5, <3>1, <3>2, <4>1
        <4>3. s[i] # n
          BY <1>4, <4>1 DEF Has
        <4>4. next[s[i]] = s[i + 1]
          BY <1>7 DEF ListIs, IsLinked
        <4> QED
          BY <1>9, <4>2, <4>3, <4>4
      <3>4. next'[s[Len(s)]] = n
        BY <1>9, <2>4, <3>1
      <3>5. \A i \in 1..Len(s) : \A j \in 1..Len(<<n>>) : s[i] # <<n>>[j]
        BY <1>4, <2>1 DEF Has
      <3>6. IsLinked(s \o <<n>>, start[l], next', NoNode)
        BY <1>5, <2>1, <2>2, <2>4, <3>1, <3>2, <3>3, <3>4, <3>5, LinkedOn
      <3> QED
        BY <1>6, <3>1, <3>6
    <2> QED
      BY <2>3, <2>4
  <1>11. NoRepeats(a)
    BY <1>10 DEF IsLinked, NoRepeats
  <1>12. \A x : Has(a, x) => Has(s, x) \/ \A k \in Lists : ~Has(contents[k], x)
    <2>1. SUFFICES ASSUME NEW i \in 1..Len(a) PROVE a[i] = n \/ Has(s, a[i])
      BY <1>4 DEF Has
    <2>2. i \in 1..Len(s) \/ i = Len(s) + 1
      BY <1>5, <1>6
    <2> QED
      BY <1>6, <2>2 DEF Has
  <1>13. /\ contents' \in [Lists -> Seq(ListNodes)]
         /\ \A k \in Lists : NoRepeats(contents'[k])
         /\ Apart'
         /\ contents'[l] = a /\ \A k \in Lists : k # l => contents'[k] = contents[k]
    <2>1. contents' = [contents EXCEPT ![l] = a]
      BY <1>1 DEF a
    <2> QED
      BY <1>1, <1>6, <1>11, <1>12, <2>1, OneListChanges
  <1>14. ListTypes'
    BY <1>1, <1>3, <1>9, <1>13 DEF ListTypes
  <1>15. ASSUME NEW k \in Lists \ dead
         PROVE  ListIs(contents'[k], start'[k], end'[k], next')
    <2>1. CASE k = l
      <3>1. end'[l] = a[Len(a)]
        BY <1>6, <1>8
      <3> QED
        BY <1>6, <1>10, <1>13, <2>1, <3>1 DEF ListIs
    <2>2. CASE k # l
      <3>1. start'[k] = start[k] /\ end'[k] = end[k] /\ contents'[k] = contents[k]
        BY <1>1, <1>3, <1>13, <2>2
      <3>2. contents[k] \in Seq(ListNodes) /\ ListIs(contents[k], start[k], end[k], next)
        BY <1>2, <1>3
      <3>3. ASSUME NEW x, Has(contents[k], x) PROVE next'[x] = next[x]
        <4>1. x \in ListNodes /\ x # n /\ ~Has(s, x)
          BY <1>1, <1>2, <1>4, <2>2, <3>2, <3>3, HasElements DEF Apart
        <4> QED
          BY <1>5, <1>9, <4>1
      <3> QED
        BY <3>1, <3>2, <3>3, ListIsBy
    <2> QED
      BY <2>1, <2>2
  <1>16. DestroyedIs'
    BY <1>1, <1>2, <1>13, DestroyedStays
  <1> QED
    BY <1>1, <1>13, <1>14, <1>15, <1>16 DEF ListInv

LEMMA ListScribbles ==
  ASSUME ListInv, NEW n \in ListNodes, NEW m \in ListNodes, Lst!Scribble(n, m)
  PROVE  ListInv'
  <1>1. /\ n \in Lst!Owned /\ next' = [next EXCEPT ![n] = m]
        /\ start' = start /\ end' = end /\ UNCHANGED <<destroyed, dead>>
        /\ contents' = contents
    BY DEF Lst!Scribble
  <1>2. /\ ListTypes /\ Apart /\ DestroyedIs /\ \A k \in Lists : NoRepeats(contents[k])
        /\ \A k \in Lists \ dead : ListIs(contents[k], start[k], end[k], next)
    BY DEF ListInv
  <1>3. /\ next \in [ListNodes -> ListNodes \cup {NoNode}]
        /\ contents \in [Lists -> Seq(ListNodes)]
    BY <1>2 DEF ListTypes
  <1>4. \A k \in Lists : ~Has(contents[k], n)
    <2> TAKE k \in Lists
    <2>1. n \notin Lst!ToSet(contents[k]) /\ contents[k] \in Seq(ListNodes)
      BY <1>1, <1>3 DEF Lst!Owned
    <2> QED
      BY <2>1 DEF Lst!ToSet, Has
  <1>5. ListTypes'
    BY <1>1, <1>2, <1>3 DEF ListTypes
  <1>6. ASSUME NEW k \in Lists \ dead PROVE ListIs(contents[k], start[k], end[k], next')
    <2>1. contents[k] \in Seq(ListNodes) /\ ListIs(contents[k], start[k], end[k], next)
      BY <1>2, <1>3
    <2>2. \A x : Has(contents[k], x) => x \in ListNodes /\ x # n
      BY <1>4, <2>1, HasElements
    <2>3. \A x : Has(contents[k], x) => next'[x] = next[x]
      BY <1>1, <1>3, <2>2
    <2> QED
      BY <2>1, <2>3, ListIsBy
  <1>7. Apart'
    BY <1>1, <1>2 DEF Apart
  <1>8. DestroyedIs'
    BY <1>1, <1>2, DestroyedStays
  <1> QED
    BY <1>1, <1>2, <1>5, <1>6, <1>7, <1>8 DEF ListInv

LEMMA ListPops ==
  ASSUME ListInv, NEW l \in Lists, Lst!Pop(l)
  PROVE  ListInv'
  <1>1. /\ l \in Lists \ dead /\ ~Lst!IsEmpty(l)
        /\ start' = [start EXCEPT ![l] = next[start[l]]]
        /\ end' = [end EXCEPT ![l] = IF next[start[l]] = NoNode THEN NoNode ELSE end[l]]
        /\ next' = [next EXCEPT ![start[l]] = NoNode]
        /\ contents' = [contents EXCEPT ![l] = Tail(contents[l])]
        /\ UNCHANGED <<destroyed, dead>>
    BY DEF Lst!Pop
  <1>2. /\ ListTypes /\ Apart /\ DestroyedIs /\ NoRepeats(contents[l])
        /\ \A k \in Lists \ dead : ListIs(contents[k], start[k], end[k], next)
    BY DEF ListInv
  <1>3. /\ start \in [Lists -> ListNodes \cup {NoNode}]
        /\ end \in [Lists -> ListNodes \cup {NoNode}]
        /\ next \in [ListNodes -> ListNodes \cup {NoNode}]
        /\ contents \in [Lists -> Seq(ListNodes)]
        /\ dead \subseteq Lists
    BY <1>2 DEF ListTypes
  <1> DEFINE s == contents[l]
             n == start[l]
             t == Tail(s)
  <1>4. /\ s \in Seq(ListNodes) /\ Len(s) \in Nat /\ s # <<>> /\ Len(s) > 0
        /\ n = s[1] /\ end[l] = s[Len(s)] /\ Has(s, n)
    BY <1>1, ListEnds
  <1>5. n \in ListNodes
    BY <1>4, HasElements
  <1>6. IsLinked(s, n, next, NoNode)
    BY <1>1, <1>2 DEF ListIs
  <1>7. /\ t \in Seq(ListNodes) /\ Len(t) = Len(s) - 1
        /\ \A i \in 1..Len(s) - 1 : t[i] = s[i + 1] /\ t[i] # n
        /\ IsLinked(t, next[n], next, NoNode)
    BY <1>4, <1>6, LinkedTail
  <1> HIDE DEF t
  <1>8. /\ start'[l] = next[n] /\ end'[l] = (IF next[n] = NoNode THEN NoNode ELSE end[l])
        /\ next' \in [ListNodes -> ListNodes \cup {NoNode}]
        /\ \A x \in ListNodes : x # n => next'[x] = next[x]
        /\ next[n] \in ListNodes \cup {NoNode}
    BY <1>1, <1>3, <1>5
  <1>9. \A i \in 1..Len(t) : t[i] # n /\ t[i] \in ListNodes
    BY <1>7
  <1>10. IsLinked(t, start'[l], next', NoNode)
    BY <1>7, <1>8, <1>9, LinkedBy
  <1>11. end'[l] = IF t = <<>> THEN NoNode ELSE t[Len(t)]
    <2>1. CASE t = <<>>
      <3>1. next[n] = NoNode
        BY <1>7, <2>1 DEF IsLinked
      <3> QED
        BY <1>8, <2>1, <3>1
    <2>2. CASE t # <<>>
      <3>1. Len(t) > 0 /\ 1 \in 1..Len(t) /\ Len(t) \in 1..Len(s) - 1 /\ Len(t) + 1 = Len(s)
        BY <1>4, <1>7, <2>2
      <3>2. next[n] = t[1]
        BY <1>7, <2>2 DEF IsLinked
      <3>3. next[n] # NoNode
        BY <1>9, <3>1, <3>2, PoolNodes
      <3>4. t[Len(t)] = s[Len(s)]
        BY <1>7, <3>1
      <3> QED
        BY <1>4, <1>8, <2>2, <3>3, <3>4
    <2> QED
      BY <2>1, <2>2
  <1>12. NoRepeats(t)
    BY <1>10 DEF IsLinked, NoRepeats
  <1>13. \A x : Has(t, x) => Has(s, x)
    <2>1. SUFFICES ASSUME NEW i \in 1..Len(t) PROVE Has(s, t[i])
      BY DEF Has
    <2>2. i \in 1..Len(s) - 1 /\ i + 1 \in 1..Len(s)
      BY <1>4, <1>7
    <2> QED
      BY <1>7, <2>2 DEF Has
  <1>14. /\ contents' \in [Lists -> Seq(ListNodes)]
         /\ \A k \in Lists : NoRepeats(contents'[k])
         /\ Apart'
         /\ contents'[l] = t /\ \A k \in Lists : k # l => contents'[k] = contents[k]
    <2>1. contents' = [contents EXCEPT ![l] = t]
      BY <1>1 DEF t
    <2> QED
      BY <1>1, <1>7, <1>12, <1>13, <2>1, OneListChanges
  <1>15. ListTypes'
    <2>1. start' \in [Lists -> ListNodes \cup {NoNode}]
      BY <1>1, <1>3, <1>8
    <2>2. end' \in [Lists -> ListNodes \cup {NoNode}]
      BY <1>1, <1>3
    <2> QED
      BY <1>1, <1>3, <1>8, <1>14, <2>1, <2>2 DEF ListTypes
  <1>16. ASSUME NEW k \in Lists \ dead
         PROVE  ListIs(contents'[k], start'[k], end'[k], next')
    <2>1. CASE k = l
      BY <1>10, <1>11, <1>14, <2>1 DEF ListIs
    <2>2. CASE k # l
      <3>1. start'[k] = start[k] /\ end'[k] = end[k] /\ contents'[k] = contents[k]
        BY <1>1, <1>3, <1>14, <2>2
      <3>2. contents[k] \in Seq(ListNodes) /\ ListIs(contents[k], start[k], end[k], next)
        BY <1>2, <1>3
      <3>3. ASSUME NEW x, Has(contents[k], x) PROVE next'[x] = next[x]
        <4>1. x \in ListNodes /\ ~Has(s, x)
          BY <1>1, <1>2, <2>2, <3>2, <3>3, HasElements DEF Apart
        <4> QED
          BY <1>4, <1>8, <4>1
      <3> QED
        BY <3>1, <3>2, <3>3, ListIsBy
    <2> QED
      BY <2>1, <2>2
  <1>17. DestroyedIs'
    BY <1>1, <1>2, <1>14, DestroyedStays
  <1> QED
    BY <1>1, <1>14, <1>15, <1>16, <1>17 DEF ListInv

\* A sequence that goes on with another one.
LEMMA GoesOn ==
  ASSUME NEW S, NEW s \in Seq(S), NEW t \in Seq(S), t # <<>>
  PROVE  /\ s \o t \in Seq(S) /\ s \o t # <<>>
         /\ (s \o t)[Len(s \o t)] = t[Len(t)]
         /\ \A x : Has(s \o t, x) => Has(s, x) \/ Has(t, x)
  <1> DEFINE u == s \o t
  <1>1. /\ u \in Seq(S) /\ Len(u) = Len(s) + Len(t)
        /\ \A i \in 1..Len(s) + Len(t) : u[i] = IF i <= Len(s) THEN s[i] ELSE t[i - Len(s)]
    BY ConcatProperties
  <1> HIDE DEF u
  <1>2. Len(s) \in Nat /\ Len(t) \in Nat /\ Len(t) > 0
    OBVIOUS
  <1>3. u[Len(u)] = t[Len(t)] /\ u # <<>>
    <2>1. /\ Len(s) + Len(t) \in 1..Len(s) + Len(t) /\ ~(Len(s) + Len(t) <= Len(s))
          /\ Len(s) + Len(t) - Len(s) = Len(t)
      BY <1>2
    <2>2. Len(u) > 0
      BY <1>1, <1>2
    <2> QED
      BY <1>1, <2>1, <2>2
  <1>4. \A x : Has(u, x) => Has(s, x) \/ Has(t, x)
    <2>1. SUFFICES ASSUME NEW i \in 1..Len(s) + Len(t) PROVE Has(s, u[i]) \/ Has(t, u[i])
      BY <1>1 DEF Has
    <2>2. CASE i <= Len(s)
      <3>1. i \in 1..Len(s) /\ u[i] = s[i]
        BY <1>1, <1>2, <2>2
      <3> QED
        BY <3>1 DEF Has
    <2>3. CASE ~(i <= Len(s))
      <3>1. i - Len(s) \in 1..Len(t)
        BY <1>2, <2>3
      <3>2. u[i] = t[i - Len(s)]
        BY <1>1, <2>3
      <3> QED
        BY <3>1, <3>2 DEF Has
    <2> QED
      BY <2>2, <2>3
  <1> QED
    BY <1>1, <1>3, <1>4 DEF u

LEMMA ListAppends ==
  ASSUME ListInv, NEW l \in Lists, NEW m \in Lists \ {l}, Lst!AppendList(l, m)
  PROVE  ListInv'
  <1>1. /\ l \in Lists \ dead /\ m \in Lists \ dead /\ l # m /\ ~Lst!IsEmpty(m)
        /\ start' = [start EXCEPT ![l] = IF Lst!IsEmpty(l) THEN start[m] ELSE start[l],
                                  ![m] = NoNode]
        /\ next' = IF Lst!IsEmpty(l) THEN next ELSE [next EXCEPT ![end[l]] = start[m]]
        /\ end' = [end EXCEPT ![l] = end[m], ![m] = NoNode]
        /\ contents' = [contents EXCEPT ![l] = contents[l] \o contents[m], ![m] = <<>>]
        /\ UNCHANGED <<destroyed, dead>>
    BY DEF Lst!AppendList
  <1>2. /\ ListTypes /\ Apart /\ DestroyedIs /\ \A k \in Lists : NoRepeats(contents[k])
        /\ \A k \in Lists \ dead : ListIs(contents[k], start[k], end[k], next)
    BY DEF ListInv
  <1>3. /\ start \in [Lists -> ListNodes \cup {NoNode}]
        /\ end \in [Lists -> ListNodes \cup {NoNode}]
        /\ next \in [ListNodes -> ListNodes \cup {NoNode}]
        /\ contents \in [Lists -> Seq(ListNodes)]
        /\ dead \subseteq Lists
    BY <1>2 DEF ListTypes
  <1> DEFINE s == contents[l]
             t == contents[m]
             u == s \o t
  <1>4. /\ s \in Seq(ListNodes) /\ Len(s) \in Nat
        /\ Lst!IsEmpty(l) <=> s = <<>>
        /\ s # <<>> => /\ Len(s) > 0 /\ start[l] = s[1] /\ end[l] = s[Len(s)]
                       /\ Has(s, end[l])
    BY <1>1, ListEnds
  <1>5. /\ t \in Seq(ListNodes) /\ Len(t) \in Nat /\ t # <<>> /\ Len(t) > 0
        /\ end[m] = t[Len(t)] /\ start[m] = t[1] /\ Has(t, start[m])
    BY <1>1, ListEnds
  <1>6. start[m] \in ListNodes
    BY <1>5, HasElements
  <1>7. IsLinked(s, start[l], next, NoNode) /\ IsLinked(t, start[m], next, NoNode)
    BY <1>1, <1>2 DEF ListIs
  <1>8. \A x : ~(Has(s, x) /\ Has(t, x))
    BY <1>1, <1>2 DEF Apart
  <1>9. /\ u \in Seq(ListNodes) /\ u # <<>> /\ u[Len(u)] = t[Len(t)]
        /\ \A x : Has(u, x) => Has(s, x) \/ Has(t, x)
    BY <1>4, <1>5, GoesOn, ZenonT(40)
  <1>10. /\ start'[l] = (IF s = <<>> THEN start[m] ELSE start[l]) /\ start'[m] = NoNode
         /\ end'[l] = end[m] /\ end'[m] = NoNode
         /\ contents'[l] = u /\ contents'[m] = <<>>
         /\ \A k \in Lists : k # l /\ k # m =>
                start'[k] = start[k] /\ end'[k] = end[k] /\ contents'[k] = contents[k]
    BY <1>1, <1>3, <1>4
  <1>11. /\ next' \in [ListNodes -> ListNodes \cup {NoNode}]
         /\ s = <<>> => next' = next
         /\ s # <<>> => next'[end[l]] = start[m]
         /\ \A x \in ListNodes : (s # <<>> => x # end[l]) => next'[x] = next[x]
    <2>1. CASE s = <<>>
      <3>1. next' = next
        BY <1>1, <1>4, <2>1
      <3> QED
        BY <1>3, <2>1, <3>1
    <2>2. CASE s # <<>>
      <3>1. next' = [next EXCEPT ![end[l]] = start[m]]
        BY <1>1, <1>4, <2>2
      <3>2. end[l] \in ListNodes
        BY <1>4, <2>2, HasElements
      <3> QED
        BY <1>3, <1>6, <2>2, <3>1, <3>2
    <2> QED
      BY <2>1, <2>2
  <1> HIDE DEF u
  <1>14. IsLinked(u, start'[l], next', NoNode)
    <2>1. CASE s = <<>>
      <3>1. u = t
        BY <1>5, <2>1, ConcatEmptySeq DEF u
      <3> QED
        BY <1>7, <1>10, <1>11, <2>1, <3>1
    <2>2. CASE s # <<>>
      <3>1. s[1] = start[l] /\ start'[l] = start[l] /\ end[l] = s[Len(s)]
        BY <1>4, <1>10, <2>2
      <3>2. \A i, j \in 1..Len(s) : s[i] = s[j] => i = j
        BY <1>7 DEF IsLinked
      <3>3. \A i \in 1..Len(s) - 1 : next'[s[i]] = s[i + 1]
        <4> TAKE i \in 1..Len(s) - 1
        <4>1. i \in 1..Len(s) /\ i # Len(s) /\ Len(s) \in 1..Len(s)
          BY <1>4, <2>2
        <4>2. s[i] # end[l] /\ s[i] \in ListNodes
          BY <1>4, <3>1, <3>2, <4>1
        <4>3. next[s[i]] = s[i + 1]
          BY <1>7 DEF IsLinked
        <4> QED
          BY <1>11, <4>2, <4>3
      <3>4. next'[s[Len(s)]] = start[m]
        BY <1>11, <2>2, <3>1
      <3>5. IsLinked(t, start[m], next', NoNode)
        <4>0. Has(s, end[l])
          BY <1>4, <2>2
        <4>1. \A i \in 1..Len(t) : t[i] \in ListNodes /\ t[i] # end[l]
          <5> TAKE i \in 1..Len(t)
          <5>1. Has(t, t[i]) /\ t[i] \in ListNodes
            BY <1>5 DEF Has
          <5> QED
            BY <1>8, <4>0, <5>1
        <4>2. \A i \in 1..Len(t) : next'[t[i]] = next[t[i]]
          BY <1>11, <4>1
        <4> QED
          BY <1>5, <1>7, <4>2, LinkedBy
      <3>6. \A i \in 1..Len(s) : \A j \in 1..Len(t) : s[i] # t[j]
        BY <1>8 DEF Has
      <3>7. IsLinked(s \o t, start[l], next', NoNode)
        BY <1>4, <1>5, <2>2, <3>1, <3>2, <3>3, <3>4, <3>5, <3>6, LinkedOn
      <3> QED
        BY <3>1, <3>7 DEF u
    <2> QED
      BY <2>1, <2>2
  <1>15. contents' \in [Lists -> Seq(ListNodes)]
    <2>1. contents' = [contents EXCEPT ![l] = u, ![m] = <<>>]
      BY <1>1 DEF u
    <2>2. <<>> \in Seq(ListNodes)
      OBVIOUS
    <2> QED
      BY <1>3, <1>9, <2>1, <2>2
  <1>16. NoRepeats(u) /\ NoRepeats(<<>>) /\ Len(<<>>) = 0 /\ \A x : ~Has(<<>>, x)
    BY <1>14 DEF IsLinked, NoRepeats, Has
  <1>17. \A k \in Lists : NoRepeats(contents'[k])
    BY <1>2, <1>10, <1>16
  <1>18. Apart'
    <2>1. ASSUME NEW i \in Lists, NEW j \in Lists, i # j, NEW x,
                 Has(contents'[i], x), Has(contents'[j], x)
          PROVE  FALSE
      <3>1. i # m /\ j # m
        BY <1>10, <1>16, <2>1
      <3>2. CASE i = l
        <4>1. (Has(s, x) \/ Has(t, x)) /\ Has(contents[j], x)
          BY <1>9, <1>10, <2>1, <3>1, <3>2
        <4> QED
          BY <1>1, <1>2, <2>1, <3>1, <3>2, <4>1 DEF Apart
      <3>3. CASE j = l
        <4>1. (Has(s, x) \/ Has(t, x)) /\ Has(contents[i], x)
          BY <1>9, <1>10, <2>1, <3>1, <3>3
        <4> QED
          BY <1>1, <1>2, <2>1, <3>1, <3>3, <4>1 DEF Apart
      <3>4. CASE i # l /\ j # l
        BY <1>2, <1>10, <2>1, <3>1, <3>4 DEF Apart
      <3> QED
        BY <3>2, <3>3, <3>4
    <2> QED
      BY <2>1 DEF Apart
  <1>19. ListTypes'
    <2>1. start' \in [Lists -> ListNodes \cup {NoNode}]
      BY <1>1, <1>3, <1>6
    <2>2. end' \in [Lists -> ListNodes \cup {NoNode}]
      BY <1>1, <1>3
    <2> QED
      BY <1>1, <1>3, <1>11, <1>15, <2>1, <2>2 DEF ListTypes
  <1>20. ASSUME NEW k \in Lists \ dead
         PROVE  ListIs(contents'[k], start'[k], end'[k], next')
    <2>1. CASE k = l
      <3>1. end'[l] = u[Len(u)]
        BY <1>5, <1>9, <1>10
      <3> QED
        BY <1>9, <1>10, <1>14, <2>1, <3>1 DEF ListIs
    <2>2. CASE k = m
      <3>1. IsLinked(<<>>, NoNode, next', NoNode)
        BY <1>16 DEF IsLinked
      <3> QED
        BY <1>10, <2>2, <3>1 DEF ListIs
    <2>3. CASE k # l /\ k # m
      <3>1. start'[k] = start[k] /\ end'[k] = end[k] /\ contents'[k] = contents[k]
        BY <1>10, <2>3
      <3>2. contents[k] \in Seq(ListNodes) /\ ListIs(contents[k], start[k], end[k], next)
        BY <1>2, <1>3
      <3>3. ASSUME NEW x, Has(contents[k], x) PROVE next'[x] = next[x]
        <4>1. x \in ListNodes /\ ~Has(s, x)
          BY <1>1, <1>2, <2>3, <3>2, <3>3, HasElements DEF Apart
        <4> QED
          BY <1>4, <1>11, <4>1
      <3> QED
        BY <3>1, <3>2, <3>3, ListIsBy
    <2> QED
      BY <2>1, <2>2, <2>3
  <1>21. DestroyedIs'
    <2>1. \A d \in dead : d \in Lists /\ d # l /\ d # m
      BY <1>1, <1>3
    <2>2. \A d \in dead : contents'[d] = contents[d]
      BY <1>10, <2>1
    <2> QED
      BY <1>1, <1>2, <2>2, DestroyedStays
  <1> QED
    BY <1>1, <1>17, <1>18, <1>19, <1>20, <1>21 DEF ListInv

\* Following next from _start meets what the list holds.
LEMMA ListIsMet ==
  ASSUME ListInv, NEW l \in Lists \ dead
  PROVE  Lst!Chain(start[l]) = contents[l]
  <1>1. /\ start[l] \in ListNodes \cup {NoNode}
        /\ next \in [ListNodes -> ListNodes \cup {NoNode}]
        /\ contents[l] \in Seq(ListNodes)
        /\ IsLinked(contents[l], start[l], next, NoNode)
    BY DEF ListInv, ListTypes, ListIs
  <1>2. ChainFrom(start[l], next, NoNode) = contents[l]
    BY <1>1, PoolNodes, LinkedIsMet
  <1>3. \A n, f, z : Lst!ChainFrom(n, f, z) = ChainFrom(n, f, z)
    BY DEF Lst!ChainFrom, ChainFrom, Lst!IsChain, IsChain, Lst!Cardinality, Cardinality
  <1> QED
    BY <1>2, <1>3 DEF Lst!Chain

LEMMA ListDestroys ==
  ASSUME ListInv, NEW l \in Lists, Lst!Destroy(l)
  PROVE  ListInv'
  <1>1. /\ l \in Lists \ dead /\ dead' = dead \cup {l}
        /\ destroyed' = destroyed \cup {n \in Lst!ToSet(contents[l]) : n # end[l]}
        /\ start' = [start EXCEPT ![l] = end[l]]
        /\ next' = [n \in ListNodes |-> IF n \in destroyed' \ destroyed THEN NoNode ELSE next[n]]
        /\ end' = end /\ contents' = contents
    BY ListIsMet DEF Lst!Destroy
  <1>2. /\ ListTypes /\ Apart /\ DestroyedIs /\ \A k \in Lists : NoRepeats(contents[k])
        /\ \A k \in Lists \ dead : ListIs(contents[k], start[k], end[k], next)
    BY DEF ListInv
  <1>3. /\ start \in [Lists -> ListNodes \cup {NoNode}]
        /\ end \in [Lists -> ListNodes \cup {NoNode}]
        /\ next \in [ListNodes -> ListNodes \cup {NoNode}]
        /\ contents \in [Lists -> Seq(ListNodes)]
        /\ dead \subseteq Lists
    BY <1>2 DEF ListTypes
  <1> DEFINE s == contents[l]
  <1>4. /\ s \in Seq(ListNodes) /\ Len(s) \in Nat
        /\ s # <<>> => Len(s) > 0 /\ end[l] = s[Len(s)]
    BY <1>1, ListEnds
  <1>5. \A x : x \in Lst!ToSet(s) <=> Has(s, x)
    BY <1>4 DEF Lst!ToSet, Has
  <1>6. \A x : HasBeforeLast(s, x) <=> Has(s, x) /\ x # end[l]
    <2>1. ASSUME NEW x, HasBeforeLast(s, x) PROVE Has(s, x) /\ x # end[l]
      <3>1. PICK i \in 1..Len(s) - 1 : s[i] = x
        BY <2>1 DEF HasBeforeLast
      <3>2. i \in 1..Len(s) /\ Len(s) \in 1..Len(s) /\ i # Len(s) /\ s # <<>>
        BY <1>4
      <3>3. s[i] # s[Len(s)]
        BY <1>2, <3>2 DEF NoRepeats
      <3> QED
        BY <1>4, <3>1, <3>2, <3>3 DEF Has
    <2>2. ASSUME NEW x, Has(s, x), x # end[l] PROVE HasBeforeLast(s, x)
      <3>1. PICK i \in 1..Len(s) : s[i] = x
        BY <2>2 DEF Has
      <3>2. s # <<>>
        BY <1>4, <3>1
      <3>3. i # Len(s)
        BY <1>4, <2>2, <3>1, <3>2
      <3>4. i \in 1..Len(s) - 1
        BY <1>4, <3>3
      <3> QED
        BY <3>1, <3>4 DEF HasBeforeLast
    <2> QED
      BY <2>1, <2>2
  <1>7. \A x : x \in destroyed' <=> x \in destroyed \/ HasBeforeLast(s, x)
    BY <1>1, <1>5, <1>6
  <1>8. DestroyedIs'
    <2>1. \A x : x \in destroyed <=> \E d \in dead : HasBeforeLast(contents[d], x)
      BY <1>2 DEF DestroyedIs
    <2>2. \A x : x \in destroyed' <=> \E d \in dead \cup {l} : HasBeforeLast(contents[d], x)
      BY <1>7, <2>1
    <2> QED
      BY <1>1, <2>2 DEF DestroyedIs, HasBeforeLast
  <1>9. /\ next' \in [ListNodes -> ListNodes \cup {NoNode}]
        /\ \A x \in ListNodes : ~Has(s, x) => next'[x] = next[x]
    <2>1. \A x \in ListNodes :
              (IF x \in destroyed' \ destroyed THEN NoNode ELSE next[x]) \in ListNodes \cup {NoNode}
      BY <1>3
    <2>2. \A x : x \in destroyed' \ destroyed => Has(s, x)
      BY <1>6, <1>7
    <2> QED
      BY <1>1, <2>1, <2>2
  <1>10. ListTypes'
    BY <1>1, <1>3, <1>9 DEF ListTypes
  <1>11. Apart'
    BY <1>1, <1>2 DEF Apart
  <1>12. ASSUME NEW k \in Lists \ dead'
         PROVE  ListIs(contents'[k], start'[k], end'[k], next')
    <2>1. k \in Lists \ dead /\ k # l
      BY <1>1
    <2>2. start'[k] = start[k] /\ end'[k] = end[k] /\ contents'[k] = contents[k]
      BY <1>1, <1>3, <2>1
    <2>3. contents[k] \in Seq(ListNodes) /\ ListIs(contents[k], start[k], end[k], next)
      BY <1>2, <1>3, <2>1
    <2>4. ASSUME NEW x, Has(contents[k], x) PROVE next'[x] = next[x]
      <3>1. x \in ListNodes /\ ~Has(s, x)
        BY <1>1, <1>2, <2>1, <2>3, <2>4, HasElements DEF Apart
      <3> QED
        BY <1>9, <3>1
    <2> QED
      BY <2>2, <2>3, <2>4, ListIsBy
  <1> QED
    BY <1>1, <1>2, <1>8, <1>10, <1>11, <1>12 DEF ListInv

LEMMA ListStep ==
  ASSUME ListInv, [Lst!Next]_(Lst!vars)
  PROVE  ListInv'
  <1>1. CASE Lst!Next
    <2>1. ASSUME NEW l \in Lists, Lst!Pop(l) PROVE ListInv'
      BY <2>1, ListPops
    <2>2. ASSUME NEW l \in Lists, Lst!Destroy(l) PROVE ListInv'
      BY <2>2, ListDestroys
    <2>3. ASSUME NEW l \in Lists, NEW m \in Lists \ {l}, Lst!AppendList(l, m) PROVE ListInv'
      BY <2>3, ListAppends
    <2>4. ASSUME NEW l \in Lists, NEW n \in ListNodes, Lst!Push(l, n) PROVE ListInv'
      BY <2>4, ListPushes
    <2>5. ASSUME NEW n \in ListNodes, NEW m \in ListNodes, Lst!Scribble(n, m) PROVE ListInv'
      BY <2>5, ListScribbles
    <2> QED
      BY <1>1, <2>1, <2>2, <2>3, <2>4, <2>5 DEF Lst!Next
  <1>2. CASE UNCHANGED Lst!vars
    <2>1. UNCHANGED <<start, end, next, destroyed, dead, contents>>
      BY <1>2 DEF Lst!vars
    <2>2. ListTypes' /\ Apart' /\ DestroyedIs'
      BY <2>1 DEF ListInv, ListTypes, Apart, DestroyedIs
    <2>3. \A l \in Lists' \ dead' : ListIs(contents'[l], start'[l], end'[l], next')
      BY <2>1 DEF ListInv
    <2> QED
      BY <2>1, <2>2, <2>3 DEF ListInv
  <1> QED
    BY <1>1, <1>2

LEMMA ListsAreIntact == ListInv => Lst!ChainsIntact /\ Lst!LastIsLeft
  <1> SUFFICES ASSUME ListInv PROVE Lst!ChainsIntact /\ Lst!LastIsLeft
    OBVIOUS
  <1>1. /\ DestroyedIs /\ dead \subseteq Lists
        /\ \A l \in Lists : contents[l] \in Seq(ListNodes)
        /\ \A l \in Lists \ dead : ListIs(contents[l], start[l], end[l], next)
    BY DEF ListInv, ListTypes
  <1>2. Lst!ChainsIntact
    <2>1. SUFFICES ASSUME NEW l \in Lists \ dead
                   PROVE  /\ Lst!Chain(start[l]) = contents[l]
                          /\ end[l] = IF contents[l] = <<>> THEN NoNode ELSE Lst!Last(contents[l])
      BY DEF Lst!ChainsIntact
    <2>2. end[l] = IF contents[l] = <<>> THEN NoNode ELSE contents[l][Len(contents[l])]
      BY <1>1 DEF ListIs
    <2> QED
      BY <2>2, ListIsMet DEF Lst!Last
  <1>3. ASSUME NEW s \in Seq(ListNodes), NEW x
        PROVE  HasBeforeLast(s, x) <=> s # <<>> /\ x \in Lst!ToSet(Lst!Front(s))
    <2>1. CASE s = <<>>
      <3>1. Len(s) = 0
        BY <2>1
      <3> QED
        BY <2>1, <3>1 DEF HasBeforeLast
    <2>2. CASE s # <<>>
      <3>1. Len(s) > 0 /\ Len(s) \in Nat
        BY <2>2
      <3> DEFINE f == SubSeq(s, 1, Len(s) - 1)
      <3>2. /\ f \in Seq(ListNodes) /\ Len(f) = Len(s) - 1
            /\ \A j \in 1..Len(s) - 1 : f[j] = s[j]
        BY <3>1, DroppingLast
      <3>3. Lst!Front(s) = f
        BY DEF Lst!Front
      <3> HIDE DEF f
      <3>4. x \in Lst!ToSet(f) <=> \E i \in 1..Len(f) : f[i] = x
        BY <3>2 DEF Lst!ToSet
      <3>5. x \in Lst!ToSet(f) <=> \E i \in 1..Len(s) - 1 : s[i] = x
        BY <3>2, <3>4
      <3> QED
        BY <2>2, <3>3, <3>5 DEF HasBeforeLast
    <2> QED
      BY <2>1, <2>2
  <1>4. Lst!LastIsLeft
    <2>1. \A x : x \in destroyed <=>
              \E d \in {e \in dead : contents[e] # <<>>} : x \in Lst!ToSet(Lst!Front(contents[d]))
      BY <1>1, <1>3 DEF DestroyedIs
    <2>2. \A x : x \in destroyed <=>
              x \in UNION {Lst!ToSet(Lst!Front(contents[d])) : d \in {e \in dead : contents[e] # <<>>}}
      BY <2>1
    <2> QED
      BY <2>2 DEF Lst!LastIsLeft
  <1> QED
    BY <1>2, <1>4

\* However many lists and nodes there are, following next from _start meets what
\* was pushed and appended and not popped yet, in that order, and the destructor
\* destroys all but the last of it (push, append, pop and ~List of list.h).
THEOREM ListsStayIntact == SpecAll => []ListsIntact
  <1>1. InitAll => ListInv
    BY ListInit DEF InitAll
  <1>2. ListInv /\ [NextAll]_varsAll => ListInv'
    <2>1. [NextAll]_varsAll => [Lst!Next]_(Lst!vars)
      BY DEF NextAll, varsAll, listVars, Lst!vars
    <2> QED
      BY <2>1, ListStep
  <1>3. ListInv => ListsIntact
    BY ListsAreIntact DEF ListsIntact
  <1> QED
    BY <1>1, <1>2, <1>3, PTL DEF SpecAll

-----------------------------------------------------------------------------
\* Trie.  The first i letters of w.
Cut(w, i) == [j \in 1..i |-> w[j]]

LEMMA Cutting ==
  ASSUME NEW w \in Seq(Letters), NEW i \in 0..Len(w)
  PROVE  /\ Cut(w, i) \in Seq(Letters) /\ Len(Cut(w, i)) = i
         /\ \A j \in 1..i : Cut(w, i)[j] = w[j]
  <1>1. i \in Nat /\ \A j \in 1..i : w[j] \in Letters
    OBVIOUS
  <1>2. Cut(w, i) \in [1..i -> Letters]
    BY <1>1 DEF Cut
  <1>3. \A j \in 1..i : Cut(w, i)[j] = w[j]
    BY DEF Cut
  <1> QED
    BY <1>1, <1>2, <1>3

LEMMA CutsAgree ==
  ASSUME NEW w \in Seq(Letters)
  PROVE  /\ Cut(w, 0) = <<>>
         /\ Cut(w, Len(w)) = w
         /\ \A i \in 0..Len(w) : \A j \in 0..i : Cut(Cut(w, i), j) = Cut(w, j)
         /\ \A i \in 0..Len(w) : i # Len(w) => Append(Cut(w, i), w[i + 1]) = Cut(w, i + 1)
  <1>1. Len(w) \in Nat
    OBVIOUS
  <1>2. Cut(w, 0) = <<>>
    <2>1. Cut(w, 0) \in Seq(Letters) /\ Len(Cut(w, 0)) = 0
      BY <1>1, Cutting
    <2> QED
      BY <2>1, EmptySeq
  <1>3. Cut(w, Len(w)) = w
    <2>1. Len(w) \in 0..Len(w)
      BY <1>1
    <2>2. Cut(w, Len(w)) \in Seq(Letters) /\ Len(Cut(w, Len(w))) = Len(w)
          /\ \A j \in 1..Len(w) : Cut(w, Len(w))[j] = w[j]
      BY <2>1, Cutting
    <2> QED
      BY <2>2, SeqEqual
  <1>4. ASSUME NEW i \in 0..Len(w), NEW j \in 0..i PROVE Cut(Cut(w, i), j) = Cut(w, j)
    <2>1. \A h \in 1..j : h \in 1..i
      BY <1>1
    <2>2. \A h \in 1..j : Cut(w, i)[h] = w[h]
      BY <2>1 DEF Cut
    <2> QED
      BY <2>2 DEF Cut
  <1>5. ASSUME NEW i \in 0..Len(w), i # Len(w) PROVE Append(Cut(w, i), w[i + 1]) = Cut(w, i + 1)
    <2>1. i + 1 \in 0..Len(w) /\ w[i + 1] \in Letters /\ i \in Nat
      BY <1>1, <1>5
    <2> DEFINE c == Cut(w, i)
               d == Cut(w, i + 1)
               a == Append(c, w[i + 1])
    <2>2. c \in Seq(Letters) /\ Len(c) = i /\ \A j \in 1..i : c[j] = w[j]
      BY Cutting
    <2>3. d \in Seq(Letters) /\ Len(d) = i + 1 /\ \A j \in 1..i + 1 : d[j] = w[j]
      BY <2>1, Cutting
    <2>4. /\ a \in Seq(Letters) /\ Len(a) = Len(c) + 1
          /\ \A j \in 1..Len(c) : a[j] = c[j]
          /\ a[Len(c) + 1] = w[i + 1]
      BY <2>1, <2>2, AppendProperties
    <2> HIDE DEF a, c, d
    <2>5. ASSUME NEW j \in 1..i + 1 PROVE a[j] = d[j]
      <3>1. CASE j = i + 1
        BY <2>1, <2>2, <2>3, <2>4, <3>1
      <3>2. CASE j # i + 1
        <4>1. j \in 1..i
          BY <2>1, <3>2
        <4> QED
          BY <2>2, <2>3, <2>4, <4>1
      <3> QED
        BY <3>1, <3>2
    <2>6. Len(a) = i + 1
      BY <2>2, <2>4
    <2>7. a = d
      BY <2>3, <2>4, <2>5, <2>6, SeqEqual
    <2> QED
      BY <2>7 DEF a, c, d
  <1> QED
    BY <1>2, <1>3, <1>4, <1>5

LEMMA PrefixesAreCuts ==
  ASSUME NEW s \in Seq(Letters), NEW t \in Seq(Letters)
  PROVE  Tri!IsPrefix(s, t) <=> \E i \in 0..Len(t) : s = Cut(t, i)
  <1>1. Len(s) \in Nat /\ Len(t) \in Nat
    OBVIOUS
  <1>2. SubSeq(s, 1, Len(s)) = s
    OBVIOUS
  <1>3. ASSUME NEW i \in 0..Len(t) PROVE SubSeq(t, 1, i) = Cut(t, i)
    <2> DEFINE u == SubSeq(t, 1, i)
    <2>1. i \in Int /\ 1 \in Int /\ \A j \in 1..i : t[j] \in Letters
      BY <1>1
    <2>2. /\ u \in Seq(Letters) /\ Len(u) = (IF 1 <= i THEN i - 1 + 1 ELSE 0)
          /\ \A j \in 1..i - 1 + 1 : u[j] = t[1 + j - 1]
      BY <2>1, SubSeqProperties
    <2> HIDE DEF u
    <2>3. Len(u) = i
      BY <1>1, <2>2
    <2>4. \A j \in 1..i : u[j] = t[j]
      <3> TAKE j \in 1..i
      <3>1. j \in 1..i - 1 + 1 /\ 1 + j - 1 = j
        BY <1>1
      <3> QED
        BY <2>2, <3>1
    <2>5. Cut(t, i) \in Seq(Letters) /\ Len(Cut(t, i)) = i /\ \A j \in 1..i : Cut(t, i)[j] = t[j]
      BY Cutting
    <2>6. u = Cut(t, i)
      BY <2>2, <2>3, <2>4, <2>5, SeqEqual
    <2> QED
      BY <2>6 DEF u
  <1>4. ASSUME Tri!IsPrefix(s, t) PROVE \E i \in 0..Len(t) : s = Cut(t, i)
    <2>1. Len(s) <= Len(t) /\ s = SubSeq(t, 1, Len(s))
      BY <1>2, <1>4 DEF Tri!IsPrefix
    <2>2. Len(s) \in 0..Len(t)
      BY <1>1, <2>1
    <2> QED
      BY <1>3, <2>1, <2>2
  <1>5. ASSUME NEW i \in 0..Len(t), s = Cut(t, i) PROVE Tri!IsPrefix(s, t)
    <2>1. Len(s) = i
      BY <1>5, Cutting
    <2> QED
      BY <1>1, <1>2, <1>3, <1>5, <2>1 DEF Tri!IsPrefix
  <1> QED
    BY <1>4, <1>5

\* f gives each node the word that leads to it: the links are the letters that
\* come next.
Spelled(nx, f) ==
    /\ nx \in Seq([Letters -> Nat]) /\ Len(nx) > 0
    /\ f \in [1..Len(nx) -> Seq(Letters)] /\ f[1] = <<>>
    /\ \A m, n \in 1..Len(nx) : f[m] = f[n] => m = n
    /\ \A n \in 1..Len(nx), c \in Letters : nx[n][c] # 0 =>
           nx[n][c] \in 1..Len(nx) /\ f[nx[n][c]] = Append(f[n], c)
    /\ \A n \in 1..Len(nx), c \in Letters : nx[n][c] = 0 =>
           \A m \in 1..Len(nx) : f[m] # Append(f[n], c)

\* Every node has a link to it, and its prefixes have their nodes.
Rooted(nx, f) ==
    /\ \A m \in 1..Len(nx) : m # 1 =>
           \E n \in 1..Len(nx), c \in Letters : nx[n][c] = m
    /\ \A m \in 1..Len(nx) : \A i \in 0..Len(f[m]) :
           \E n \in 1..Len(nx) : f[n] = Cut(f[m], i)

\* The words of a tree, whose nodes are there for the sake of those in more.
Marked(nx, iw, f, words, more) ==
    /\ iw \in [1..Len(nx) -> BOOLEAN]
    /\ \A n \in 1..Len(nx) : iw[n] <=> f[n] \in words
    /\ \A w \in words : \E n \in 1..Len(nx) : f[n] = w
    /\ \A n \in 1..Len(nx) : n # 1 => \E w \in more : \E i \in 0..Len(w) : f[n] = Cut(w, i)

\* The tree of Insert after i letters.
GrownTo(t, i, word) ==
    /\ t = [next |-> t.next, isWord |-> t.isWord, p |-> t.p]
    /\ t.p \in 1..Len(t.next)
    /\ \E f : /\ Spelled(t.next, f) /\ Rooted(t.next, f)
              /\ Marked(t.next, t.isWord, f, inserted, inserted \cup {word})
              /\ f[t.p] = Cut(word, i)

\* A new node at the end of the sequence.
Extended(nx, p, c) ==
    Append([nx EXCEPT ![p][c] = Len(nx) + 1], Tri!NoNext)

Named(f, m, w) == [n \in 1..m |-> IF n = m THEN w ELSE f[n]]

LEMMA FunctionIsSeq ==
  ASSUME NEW S, NEW n \in Nat, NEW s \in [1..n -> S]
  PROVE  s \in Seq(S) /\ Len(s) = n
  OBVIOUS

LEMMA OneLetterMore ==
  ASSUME NEW s \in Seq(Letters), NEW c \in Letters
  PROVE  /\ Append(s, c) \in Seq(Letters) /\ Append(s, c) # <<>>
         /\ Len(Append(s, c)) = Len(s) + 1 /\ Len(s) \in 0..Len(Append(s, c))
         /\ Cut(Append(s, c), Len(s)) = s
         /\ \A i \in 0..Len(s) : Cut(Append(s, c), i) = Cut(s, i)
  <1> DEFINE a == Append(s, c)
  <1>1. /\ a \in Seq(Letters) /\ a # <<>> /\ Len(a) = Len(s) + 1
        /\ \A i \in 1..Len(s) : a[i] = s[i]
    BY AppendProperties
  <1> HIDE DEF a
  <1>2. Len(s) \in Nat
    OBVIOUS
  <1>3. ASSUME NEW i \in 0..Len(s) PROVE Cut(a, i) = Cut(s, i)
    <2>1. \A j \in 1..i : j \in 1..Len(s)
      BY <1>2
    <2> QED
      BY <1>1, <2>1 DEF Cut
  <1>4. Len(s) \in 0..Len(a) /\ Len(s) \in 0..Len(s)
    BY <1>1, <1>2
  <1>5. Cut(a, Len(s)) = s
    BY <1>3, <1>4, CutsAgree
  <1> QED
    BY <1>1, <1>3, <1>4, <1>5 DEF a

LEMMA LastLetters ==
  ASSUME NEW s \in Seq(Letters), NEW c \in Letters, NEW t \in Seq(Letters), NEW d \in Letters,
         Append(s, c) = Append(t, d)
  PROVE  s = t /\ c = d
  BY AppendInjective

IsExtended(x, nx, p, c) ==
    /\ x \in Seq([Letters -> Nat]) /\ Len(x) = Len(nx) + 1
    /\ \A d \in Letters : x[Len(nx) + 1][d] = 0
    /\ x[p][c] = Len(nx) + 1
    /\ \A n \in 1..Len(nx), d \in Letters : n # p \/ d # c => x[n][d] = nx[n][d]

LEMMA Extending ==
  ASSUME NEW nx \in Seq([Letters -> Nat]), NEW p \in 1..Len(nx), NEW c \in Letters
  PROVE  IsExtended(Extended(nx, p, c), nx, p, c)
  <1> DEFINE F == [Letters -> Nat]
             e == [nx EXCEPT ![p][c] = Len(nx) + 1]
             z == Tri!NoNext
             x == Append(e, z)
  <1>1. Len(nx) \in Nat /\ nx \in [1..Len(nx) -> F]
    OBVIOUS
  <1>2. z \in F /\ \A d \in Letters : z[d] = 0
    BY DEF Tri!NoNext, Tri!Null
  <1>3. e \in [1..Len(nx) -> F]
    BY <1>1
  <1>4. /\ e[p][c] = Len(nx) + 1
        /\ \A n \in 1..Len(nx), d \in Letters : n # p \/ d # c => e[n][d] = nx[n][d]
    BY <1>1
  <1> HIDE DEF e, z, F
  <1>5. e \in Seq(F) /\ Len(e) = Len(nx)
    BY <1>1, <1>3, FunctionIsSeq
  <1>6. /\ x \in Seq(F) /\ Len(x) = Len(nx) + 1
        /\ \A n \in 1..Len(nx) : x[n] = e[n]
        /\ x[Len(nx) + 1] = z
    <2>1. /\ x \in Seq(F) /\ Len(x) = Len(e) + 1
          /\ \A n \in 1..Len(e) : x[n] = e[n]
          /\ x[Len(e) + 1] = z
      <3>1. e \in Seq(F) /\ z \in F
        BY <1>2, <1>5
      <3> QED
        BY ONLY <3>1, AppendProperties
    <2> QED
      BY <1>5, <2>1
  <1>7. Extended(nx, p, c) = x
    BY DEF Extended, x, e, z
  <1> HIDE DEF x
  <1>8. \A d \in Letters : x[Len(nx) + 1][d] = 0
    BY <1>2, <1>6
  <1>9. x[p][c] = Len(nx) + 1
    BY <1>4, <1>6
  <1>10. \A n \in 1..Len(nx), d \in Letters : n # p \/ d # c => x[n][d] = nx[n][d]
    BY <1>4, <1>6
  <1> QED
    BY <1>6, <1>7, <1>8, <1>9, <1>10 DEF F, IsExtended

\* The new node's word is not taken yet.
LEMMA SpellingOn ==
  ASSUME NEW nx, NEW f, Spelled(nx, f), Rooted(nx, f), NEW p \in 1..Len(nx), NEW c \in Letters, nx[p][c] = 0
  PROVE  /\ Spelled(Extended(nx, p, c), Named(f, Len(nx) + 1, Append(f[p], c)))
         /\ \A n \in 1..Len(nx) : Named(f, Len(nx) + 1, Append(f[p], c))[n] = f[n]
         /\ Named(f, Len(nx) + 1, Append(f[p], c))[Len(nx) + 1] = Append(f[p], c)
         /\ \A n \in 1..Len(nx) : f[n] # Append(f[p], c)
  <1> DEFINE x == Extended(nx, p, c)
             w == Append(f[p], c)
             g == Named(f, Len(nx) + 1, w)
  <1>1. /\ nx \in Seq([Letters -> Nat]) /\ Len(nx) > 0 /\ Len(nx) \in Nat
        /\ f \in [1..Len(nx) -> Seq(Letters)] /\ f[1] = <<>>
        /\ \A m, n \in 1..Len(nx) : f[m] = f[n] => m = n
        /\ \A n \in 1..Len(nx) : f[n] # w
    BY DEF Spelled
  <1>2. /\ \A n \in 1..Len(nx), d \in Letters : nx[n][d] # 0 =>
               nx[n][d] \in 1..Len(nx) /\ f[nx[n][d]] = Append(f[n], d)
        /\ \A n \in 1..Len(nx), d \in Letters : nx[n][d] = 0 =>
               \A m \in 1..Len(nx) : f[m] # Append(f[n], d)
    BY DEF Spelled
  <1>3. PICK k \in Nat : k = Len(nx)
    BY <1>1
  <1>4. /\ x \in Seq([Letters -> Nat]) /\ Len(x) = k + 1
        /\ \A d \in Letters : x[k + 1][d] = 0
        /\ x[p][c] = k + 1
        /\ \A n \in 1..k, d \in Letters : n # p \/ d # c => x[n][d] = nx[n][d]
    <2>1. IsExtended(x, nx, p, c)
      BY <1>1, Extending
    <2> HIDE DEF x
    <2> QED
      BY <1>3, <2>1 DEF IsExtended
  <1>5. w \in Seq(Letters) /\ w # <<>> /\ f[p] \in Seq(Letters)
    <2>1. f[p] \in Seq(Letters)
      BY <1>1
    <2> QED
      BY <2>1, OneLetterMore
  <1> HIDE DEF x, w
  <1>6. \A n \in 1..k : n \in 1..k + 1 /\ n # k + 1
    BY <1>3
  <1>7. k + 1 \in 1..k + 1 /\ \A n \in 1..k + 1 : n # k + 1 => n \in 1..k
    BY <1>3
  <1>8. (\A n \in 1..k : g[n] = f[n]) /\ g[k + 1] = w
    BY <1>3, <1>6, <1>7 DEF Named
  <1>9. g \in [1..k + 1 -> Seq(Letters)]
    <2>1. \A n \in 1..k + 1 : (IF n = k + 1 THEN w ELSE f[n]) \in Seq(Letters)
      BY <1>1, <1>3, <1>5, <1>7
    <2>2. g = [n \in 1..k + 1 |-> IF n = k + 1 THEN w ELSE f[n]]
      BY <1>3 DEF Named
    <2> QED
      BY <2>1, <2>2
  <1> HIDE DEF g
  <1>10. g[1] = <<>>
    BY <1>1, <1>3, <1>8
  <1>11. \A m, n \in 1..k + 1 : g[m] = g[n] => m = n
    <2> SUFFICES ASSUME NEW m \in 1..k + 1, NEW n \in 1..k + 1, g[m] = g[n] PROVE m = n
      OBVIOUS
    <2>1. CASE m = k + 1 /\ n # k + 1
      BY <1>1, <1>3, <1>7, <1>8, <2>1
    <2>2. CASE m # k + 1 /\ n = k + 1
      BY <1>1, <1>3, <1>7, <1>8, <2>2
    <2>3. CASE m # k + 1 /\ n # k + 1
      BY <1>1, <1>3, <1>7, <1>8, <2>3
    <2> QED
      BY <2>1, <2>2, <2>3
  <1>12. ASSUME NEW n \in 1..k + 1, NEW d \in Letters, x[n][d] # 0
         PROVE  x[n][d] \in 1..k + 1 /\ g[x[n][d]] = Append(g[n], d)
    <2>1. n # k + 1 /\ n \in 1..k
      BY <1>4, <1>7, <1>12
    <2>2. CASE n = p /\ d = c
      BY <1>4, <1>7, <1>8, <2>1, <2>2 DEF w
    <2>3. CASE n # p \/ d # c
      <3>1. x[n][d] = nx[n][d] /\ nx[n][d] # 0
        BY <1>4, <1>12, <2>1, <2>3
      <3>2. nx[n][d] \in 1..k /\ f[nx[n][d]] = Append(f[n], d)
        BY <1>2, <1>3, <2>1, <3>1
      <3> QED
        BY <1>6, <1>8, <2>1, <3>1, <3>2
    <2> QED
      BY <2>2, <2>3
  <1>13. ASSUME NEW n \in 1..k + 1, NEW d \in Letters, x[n][d] = 0, NEW m \in 1..k + 1,
                g[m] = Append(g[n], d)
         PROVE  FALSE
    <2>1. CASE n = k + 1
      <3>1. /\ g[n] = w /\ Len(w) \in 0..Len(Append(w, d)) /\ Cut(Append(w, d), Len(w)) = w
            /\ Len(Append(w, d)) = Len(w) + 1 /\ Len(w) \in Nat
        BY <1>5, <1>8, <2>1, OneLetterMore
      <3>2. m # k + 1
        BY <1>8, <1>13, <3>1
      <3>3. m \in 1..Len(nx) /\ f[m] = Append(w, d)
        BY <1>3, <1>7, <1>8, <1>13, <3>1, <3>2
      <3>4. \E h \in 1..Len(nx) : f[h] = w
        <4>1. \A i \in 0..Len(f[m]) : \E h \in 1..Len(nx) : f[h] = Cut(f[m], i)
          BY <3>3 DEF Rooted
        <4>2. Len(w) \in 0..Len(f[m]) /\ Cut(f[m], Len(w)) = w
          BY <3>1, <3>3
        <4> QED
          BY ONLY <4>1, <4>2
      <3> QED
        BY <1>1, <3>4
    <2>2. CASE n # k + 1
      <3>1. n \in 1..k /\ g[n] = f[n] /\ f[n] \in Seq(Letters) /\ f[p] \in Seq(Letters)
        BY <1>1, <1>3, <1>7, <1>8, <2>2
      <3>2. n # p \/ d # c
        BY <1>3, <1>4, <1>13
      <3>3. nx[n][d] = 0
        BY <1>4, <1>13, <3>1, <3>2
      <3>4. CASE m = k + 1
        <4>1. Append(f[p], c) = Append(f[n], d)
          BY <1>8, <1>13, <3>1, <3>4 DEF w
        <4>2. f[p] = f[n] /\ c = d
          BY <3>1, <4>1, LastLetters, ZenonT(40)
        <4> QED
          BY <1>1, <1>3, <3>1, <3>2, <4>2
      <3>5. CASE m # k + 1
        <4>1. m \in 1..Len(nx) /\ n \in 1..Len(nx) /\ f[m] = Append(f[n], d)
          BY <1>3, <1>7, <1>8, <1>13, <3>1, <3>5
        <4> QED
          BY <1>2, <3>3, <4>1
      <3> QED
        BY <3>4, <3>5
    <2> QED
      BY <2>1, <2>2
  <1>14. Spelled(x, g)
    <2>1. Len(x) > 0 /\ Len(x) = k + 1
      BY <1>3, <1>4
    <2>2. g \in [1..Len(x) -> Seq(Letters)] /\ \A m, n \in 1..Len(x) : g[m] = g[n] => m = n
      BY <1>9, <1>11, <2>1
    <2>3. \A n \in 1..Len(x), d \in Letters : x[n][d] # 0 =>
              x[n][d] \in 1..Len(x) /\ g[x[n][d]] = Append(g[n], d)
      BY <1>12, <2>1
    <2>4. \A n \in 1..Len(x), d \in Letters : x[n][d] = 0 =>
              \A m \in 1..Len(x) : g[m] # Append(g[n], d)
      BY <1>13, <2>1
    <2>5. x \in Seq([Letters -> Nat])
      BY <1>4
    <2> QED
      BY <1>10, <2>1, <2>2, <2>3, <2>4, <2>5 DEF Spelled
  <1> QED
    BY <1>1, <1>3, <1>8, <1>14 DEF x, w, g

LEMMA SpelledNodes ==
  ASSUME NEW nx, NEW f, Spelled(nx, f)
  PROVE  /\ nx \in Seq([Letters -> Nat]) /\ Len(nx) \in Nat
         /\ f \in [1..Len(nx) -> Seq(Letters)]
         /\ \A n \in 1..Len(nx) : f[n] \in Seq(Letters)
  <1> DEFINE F == [Letters -> Nat]
  <1>1. nx \in Seq(F) /\ f \in [1..Len(nx) -> Seq(Letters)]
    BY DEF Spelled
  <1> HIDE DEF F
  <1>2. Len(nx) \in Nat
    BY <1>1
  <1>3. \A n \in 1..Len(nx) : f[n] \in Seq(Letters)
    BY <1>1
  <1> QED
    BY <1>1, <1>2, <1>3 DEF F

LEMMA RootingOn ==
  ASSUME NEW nx, NEW f, Spelled(nx, f), Rooted(nx, f),
         NEW p \in 1..Len(nx), NEW c \in Letters, nx[p][c] = 0
  PROVE  Rooted(Extended(nx, p, c), Named(f, Len(nx) + 1, Append(f[p], c)))
  <1> DEFINE x == Extended(nx, p, c)
             w == Append(f[p], c)
             g == Named(f, Len(nx) + 1, w)
  <1>1. /\ nx \in Seq([Letters -> Nat]) /\ Len(nx) \in Nat
        /\ f \in [1..Len(nx) -> Seq(Letters)] /\ f[p] \in Seq(Letters)
    BY SpelledNodes
  <1>2. IsExtended(x, nx, p, c)
    BY <1>1, Extending
  <1>3. (\A n \in 1..Len(nx) : g[n] = f[n]) /\ g[Len(nx) + 1] = w
    BY SpellingOn
  <1>4. /\ \A i \in 0..Len(f[p]) : Cut(w, i) = Cut(f[p], i)
        /\ Len(w) = Len(f[p]) + 1 /\ w \in Seq(Letters)
    BY <1>1, OneLetterMore
  <1> HIDE DEF x, w, g
  <1>5. PICK k \in Nat : k = Len(nx)
    BY <1>1
  <1>6. /\ Len(x) = k + 1 /\ x[p][c] = k + 1
        /\ \A n \in 1..k, d \in Letters : n # p \/ d # c => x[n][d] = nx[n][d]
    BY <1>2, <1>5 DEF IsExtended
  <1>7. /\ \A n \in 1..k : n \in 1..k + 1 /\ n # k + 1
        /\ \A n \in 1..k + 1 : n # k + 1 => n \in 1..k
        /\ k + 1 \in 1..k + 1
    BY <1>5
  <1>8. ASSUME NEW m \in 1..k + 1, m # 1
        PROVE  \E n \in 1..k + 1, d \in Letters : x[n][d] = m
    <2>1. CASE m = k + 1
      <3>1. p \in 1..k + 1
        BY <1>5, <1>7
      <3> QED
        BY <1>6, <2>1, <3>1
    <2>2. CASE m # k + 1
      <3>1. m \in 1..Len(nx)
        BY <1>5, <1>7, <2>2
      <3>2. PICK n \in 1..Len(nx), d \in Letters : nx[n][d] = m
        BY <1>8, <3>1 DEF Rooted
      <3>3. n \in 1..k /\ n \in 1..k + 1
        BY <1>5, <1>7
      <3>4. m # 0
        BY <1>5
      <3>5. n # p \/ d # c
        BY <3>2, <3>4
      <3>6. x[n][d] = m
        BY <1>6, <3>2, <3>3, <3>5
      <3> QED
        BY <3>3, <3>6
    <2> QED
      BY <2>1, <2>2
  <1>9. ASSUME NEW m \in 1..k + 1, NEW i \in 0..Len(g[m])
        PROVE  \E n \in 1..k + 1 : g[n] = Cut(g[m], i)
    <2>1. ASSUME NEW h \in 1..k, NEW j \in 0..Len(f[h])
          PROVE  \E n \in 1..k + 1 : g[n] = Cut(f[h], j)
      <3>1. h \in 1..Len(nx)
        BY <1>5
      <3>2. PICK n \in 1..Len(nx) : f[n] = Cut(f[h], j)
        BY <3>1 DEF Rooted
      <3>3. n \in 1..k + 1 /\ g[n] = Cut(f[h], j)
        BY <1>3, <1>5, <1>7, <3>2
      <3> QED
        BY <3>3
    <2>2. CASE m # k + 1
      <3>1. m \in 1..k /\ g[m] = f[m]
        BY <1>3, <1>5, <1>7, <2>2
      <3> QED
        BY <2>1, <3>1
    <2>3. CASE m = k + 1
      <3>1. g[m] = w
        BY <1>3, <1>5, <2>3
      <3>2. CASE i = Len(w)
        <4>1. Cut(w, i) = w
          BY <1>4, <3>2, CutsAgree
        <4> QED
          BY <1>7, <2>3, <3>1, <4>1
      <3>3. CASE i # Len(w)
        <4>1. Len(f[p]) \in Nat
          BY <1>1
        <4>2. i \in 0..Len(f[p])
          BY <1>4, <3>1, <3>3, <4>1
        <4>3. Cut(g[m], i) = Cut(f[p], i) /\ p \in 1..k
          BY <1>4, <1>5, <3>1, <4>2
        <4> QED
          BY <2>1, <4>2, <4>3
      <3> QED
        BY <3>2, <3>3
    <2> QED
      BY <2>2, <2>3
  <1>10. Rooted(x, g)
    BY <1>6, <1>8, <1>9 DEF Rooted
  <1> QED
    BY <1>10 DEF x, w, g

LEMMA MarkingOn ==
  ASSUME NEW nx, NEW f, Spelled(nx, f), Rooted(nx, f),
         NEW p \in 1..Len(nx), NEW c \in Letters, nx[p][c] = 0,
         NEW iw, NEW words, NEW more, Marked(nx, iw, f, words, more),
         \E w \in more : \E i \in 0..Len(w) : Append(f[p], c) = Cut(w, i)
  PROVE  Marked(Extended(nx, p, c), Append(iw, FALSE),
                Named(f, Len(nx) + 1, Append(f[p], c)), words, more)
  <1> DEFINE x == Extended(nx, p, c)
             w == Append(f[p], c)
             g == Named(f, Len(nx) + 1, w)
             v == Append(iw, FALSE)
  <1>1. /\ nx \in Seq([Letters -> Nat]) /\ Len(nx) \in Nat
        /\ f \in [1..Len(nx) -> Seq(Letters)] /\ f[p] \in Seq(Letters)
    BY SpelledNodes
  <1>2. Len(x) = Len(nx) + 1
    BY <1>1, Extending DEF IsExtended
  <1>3. /\ \A n \in 1..Len(nx) : g[n] = f[n]
        /\ g[Len(nx) + 1] = w
        /\ \A n \in 1..Len(nx) : f[n] # w
    <2>0. /\ Spelled(nx, f) /\ Rooted(nx, f) /\ p \in 1..Len(nx) /\ c \in Letters
          /\ nx[p][c] = 0
      OBVIOUS
    <2>1. (\A n \in 1..Len(nx) : g[n] = f[n]) /\ g[Len(nx) + 1] = w
      BY ONLY <2>0, SpellingOn
    <2>2. \A n \in 1..Len(nx) : f[n] # w
      BY ONLY <2>0, SpellingOn
    <2> QED
      BY <2>1, <2>2
  <1>4. PICK k \in Nat : k = Len(nx)
    BY <1>1
  <1>5. /\ iw \in [1..k -> BOOLEAN]
        /\ \A n \in 1..k : iw[n] <=> f[n] \in words
        /\ \A u \in words : \E n \in 1..k : f[n] = u
        /\ \A n \in 1..k : n # 1 => \E u \in more : \E i \in 0..Len(u) : f[n] = Cut(u, i)
    BY <1>4 DEF Marked
  <1>6. /\ \A n \in 1..k : n \in 1..k + 1 /\ n # k + 1
        /\ \A n \in 1..k + 1 : n # k + 1 => n \in 1..k
        /\ k + 1 \in 1..k + 1
    BY <1>4
  <1>7. iw \in Seq(BOOLEAN) /\ Len(iw) = k
    BY <1>5, FunctionIsSeq, SMTT(30)
  <1>8. /\ v \in Seq(BOOLEAN) /\ Len(v) = k + 1
        /\ \A n \in 1..k : v[n] = iw[n]
        /\ v[k + 1] = FALSE
    <2> DEFINE B == BOOLEAN
               z == FALSE
    <2>1. z \in B /\ iw \in Seq(B)
      BY <1>7
    <2> HIDE DEF B, z
    <2>2. /\ Append(iw, z) \in Seq(B) /\ Len(Append(iw, z)) = Len(iw) + 1
          /\ \A n \in 1..Len(iw) : Append(iw, z)[n] = iw[n]
          /\ Append(iw, z)[Len(iw) + 1] = z
      BY <2>1, AppendProperties
    <2>3. v = Append(iw, z)
      BY DEF z
    <2>4. /\ v \in Seq(BOOLEAN) /\ Len(v) = Len(iw) + 1
          /\ \A n \in 1..Len(iw) : v[n] = iw[n]
          /\ v[Len(iw) + 1] = FALSE
      BY <2>2, <2>3 DEF B, z
    <2> QED
      BY <1>7, <2>4
  <1> HIDE DEF x, w, g, v
  <1>9. v \in [1..k + 1 -> BOOLEAN]
    BY <1>8
  <1>10. w \notin words
    BY <1>3, <1>4, <1>5
  <1>11. ASSUME NEW n \in 1..k + 1 PROVE v[n] <=> g[n] \in words
    <2>1. CASE n = k + 1
      BY <1>3, <1>4, <1>8, <1>10, <2>1
    <2>2. CASE n # k + 1
      <3>1. n \in 1..k
        BY <1>6, <2>2
      <3>2. v[n] = iw[n] /\ g[n] = f[n]
        BY <1>3, <1>4, <1>8, <3>1
      <3>3. iw[n] <=> f[n] \in words
        BY <1>5, <3>1
      <3> QED
        BY ONLY <3>2, <3>3
    <2> QED
      BY <2>1, <2>2
  <1>12. ASSUME NEW u \in words PROVE \E n \in 1..k + 1 : g[n] = u
    BY <1>3, <1>4, <1>5, <1>6
  <1>13. ASSUME NEW n \in 1..k + 1, n # 1
         PROVE  \E u \in more : \E i \in 0..Len(u) : g[n] = Cut(u, i)
    <2>1. CASE n = k + 1
      BY <1>3, <1>4, <2>1 DEF w
    <2>2. CASE n # k + 1
      BY <1>3, <1>4, <1>5, <1>6, <1>13, <2>2
    <2> QED
      BY <2>1, <2>2
  <1>14. Marked(x, v, g, words, more)
    BY <1>2, <1>4, <1>9, <1>11, <1>12, <1>13 DEF Marked
  <1> QED
    BY <1>14 DEF x, w, g, v

\* One more letter of Insert.
LEMMA Following ==
  ASSUME NEW word \in Seq(Letters), NEW i \in 0..Len(word), i # Len(word),
         NEW t, GrownTo(t, i, word)
  PROVE  GrownTo(Tri!Follow(t, word[i + 1]), i + 1, word)
  <1> DEFINE nx == t.next
             p == t.p
             c == word[i + 1]
             u == Tri!Follow(t, c)
  <1>1. PICK f : /\ Spelled(nx, f) /\ Rooted(nx, f)
                 /\ Marked(nx, t.isWord, f, inserted, inserted \cup {word})
                 /\ f[p] = Cut(word, i)
    BY DEF GrownTo
  <1>2. /\ t = [next |-> nx, isWord |-> t.isWord, p |-> p]
        /\ p \in 1..Len(nx)
    BY DEF GrownTo
  <1>3. Len(word) \in Nat /\ c \in Letters /\ i + 1 \in 0..Len(word)
    OBVIOUS
  <1>4. Append(f[p], c) = Cut(word, i + 1)
    BY <1>1, CutsAgree
  <1>5. CASE nx[p][c] # 0
    <2>1. u = [t EXCEPT !.p = nx[p][c]]
      BY <1>5 DEF Tri!Follow, Tri!Null
    <2>2. u = [next |-> nx, isWord |-> t.isWord, p |-> nx[p][c]]
      BY <1>2, <2>1
    <2>3. nx[p][c] \in 1..Len(nx) /\ f[nx[p][c]] = Append(f[p], c)
      BY <1>1, <1>2, <1>3, <1>5 DEF Spelled
    <2>4. u.next = nx /\ u.isWord = t.isWord /\ u.p = nx[p][c]
      BY <2>2
    <2> HIDE DEF u
    <2>5. /\ Spelled(u.next, f) /\ Rooted(u.next, f)
          /\ Marked(u.next, u.isWord, f, inserted, inserted \cup {word})
          /\ f[u.p] = Cut(word, i + 1) /\ u.p \in 1..Len(u.next)
          /\ u = [next |-> u.next, isWord |-> u.isWord, p |-> u.p]
      BY <1>1, <1>4, <2>2, <2>3, <2>4
    <2>6. GrownTo(u, i + 1, word)
      BY ONLY <2>5 DEF GrownTo
    <2> QED
      BY <2>6 DEF u
  <1>6. CASE nx[p][c] = 0
    <2> DEFINE x == Extended(nx, p, c)
               v == Append(t.isWord, FALSE)
               g == Named(f, Len(nx) + 1, Append(f[p], c))
    <2>1. u = [next |-> x, isWord |-> v, p |-> Len(nx) + 1]
      BY <1>6 DEF Tri!Follow, Tri!Null, Extended
    <2>2. Spelled(x, g) /\ g[Len(nx) + 1] = Append(f[p], c)
      BY <1>1, <1>2, <1>3, <1>6, SpellingOn, SMTT(30)
    <2>3. Rooted(x, g)
      BY <1>1, <1>2, <1>3, <1>6, RootingOn
    <2>4. \E w \in inserted \cup {word} : \E j \in 0..Len(w) : Append(f[p], c) = Cut(w, j)
      BY <1>3, <1>4
    <2>5. Marked(x, v, g, inserted, inserted \cup {word})
      BY <1>1, <1>2, <1>3, <1>6, <2>4, MarkingOn
    <2>6. Len(nx) + 1 \in 1..Len(x)
      <3>1. nx \in Seq([Letters -> Nat]) /\ Len(nx) \in Nat
        BY <1>1 DEF Spelled
      <3>2. Len(x) = Len(nx) + 1
        BY <1>2, <1>3, <3>1, Extending, ZenonT(40) DEF IsExtended
      <3> HIDE DEF x
      <3> QED
        BY <3>1, <3>2
    <2> HIDE DEF u, x, v, g
    <2>7. u.next = x /\ u.isWord = v /\ u.p = Len(nx) + 1
      BY <2>1
    <2>8. /\ Spelled(u.next, g) /\ Rooted(u.next, g)
          /\ Marked(u.next, u.isWord, g, inserted, inserted \cup {word})
          /\ g[u.p] = Cut(word, i + 1) /\ u.p \in 1..Len(u.next)
          /\ u = [next |-> u.next, isWord |-> u.isWord, p |-> u.p]
      BY <1>4, <2>1, <2>2, <2>3, <2>5, <2>6, <2>7
    <2>9. GrownTo(u, i + 1, word)
      BY ONLY <2>8 DEF GrownTo
    <2> QED
      BY <2>9 DEF u
  <1> QED
    BY <1>5, <1>6

TrieInv ==
    /\ inserted \subseteq Tri!Words
    /\ \E f : /\ Spelled(child, f) /\ Rooted(child, f)
              /\ Marked(child, isWord, f, inserted, inserted)

LEMMA WordsAreSequences == Tri!Words \subseteq Seq(Letters)
  <1> SUFFICES ASSUME NEW w \in Tri!Words PROVE w \in Seq(Letters)
    OBVIOUS
  <1>1. PICK n \in 0..MaxLength : w \in [1..n -> Letters]
    BY DEF Tri!Words
  <1>2. n \in Nat
    BY UtilitiesAssumption DEF Tri!LengthAssumption
  <1> QED
    BY <1>1, <1>2

LEMMA TrieInit == Tri!Init => TrieInv
  <1> SUFFICES ASSUME Tri!Init PROVE TrieInv
    OBVIOUS
  <1> DEFINE z == Tri!NoNext
             f == [n \in 1..1 |-> <<>>]
  <1>1. child = <<z>> /\ isWord = <<FALSE>> /\ inserted = {}
    BY DEF Tri!Init
  <1>2. z \in [Letters -> Nat] /\ \A c \in Letters : z[c] = 0
    BY DEF Tri!NoNext, Tri!Null
  <1> HIDE DEF z
  <1>3. child \in Seq([Letters -> Nat]) /\ Len(child) = 1 /\ child[1] = z
    BY <1>1, <1>2
  <1>4. <<>> \in Seq(Letters) /\ Len(<<>>) = 0
    OBVIOUS
  <1>5. \A n \in 1..1 : n = 1
    OBVIOUS
  <1>6. f \in [1..1 -> Seq(Letters)] /\ f[1] = <<>>
    BY <1>4
  <1> HIDE DEF f
  <1>7. \A n \in 1..1, c \in Letters : child[n][c] = 0 /\ Append(f[n], c) # <<>>
    BY <1>2, <1>3, <1>4, <1>5, <1>6, OneLetterMore
  <1>8. Spelled(child, f)
    <2>1. \A n \in 1..1, c \in Letters : \A m \in 1..1 : f[m] # Append(f[n], c)
      BY <1>5, <1>6, <1>7
    <2> QED
      BY <1>3, <1>5, <1>6, <1>7, <2>1 DEF Spelled
  <1>9. Rooted(child, f)
    <2>1. Cut(<<>>, 0) = <<>>
      BY <1>4, CutsAgree
    <2>2. \A i \in 0..Len(f[1]) : f[1] = Cut(f[1], i)
      BY <1>4, <1>6, <2>1
    <2> QED
      BY <1>3, <1>5, <2>2 DEF Rooted
  <1>10. isWord \in [1..1 -> BOOLEAN] /\ ~isWord[1]
    <2> DEFINE B == BOOLEAN
               no == FALSE
    <2>1. isWord = <<no>> /\ no \in B
      BY <1>1
    <2> HIDE DEF B, no
    <2>2. isWord \in [1..1 -> B] /\ isWord[1] = no
      BY <2>1
    <2>3. isWord \in [1..1 -> BOOLEAN] /\ isWord[1] = FALSE
      BY <2>2 DEF B, no
    <2> QED
      BY <2>3
  <1>11. Marked(child, isWord, f, inserted, inserted)
    BY <1>1, <1>3, <1>5, <1>10 DEF Marked
  <1>12. inserted \subseteq Tri!Words
    BY <1>1
  <1> QED
    BY <1>8, <1>9, <1>11, <1>12 DEF TrieInv

-----------------------------------------------------------------------------
\* What the recursive functions of Trie are.
GrowEq(word, g, k) ==
    g = [i \in 0..k |-> IF i = 0 THEN Tri!Start ELSE Tri!Follow(g[i - 1], word[i])]

MetEq(word, g, k) ==
    g = [i \in 0..k |-> IF i = 0 THEN Tri!Root
                        ELSE IF g[i - 1] = Tri!Null THEN Tri!Null ELSE child[g[i - 1]][word[i]]]

\* g with one value more.
Longer(g, k, x) == [i \in 0..k + 1 |-> IF i = k + 1 THEN x ELSE g[i]]

LEMMA GrowingOn ==
  ASSUME NEW word, NEW k \in Nat, NEW g, GrowEq(word, g, k)
  PROVE  GrowEq(word, Longer(g, k, Tri!Follow(g[k], word[k + 1])), k + 1)
  <1> DEFINE x == Tri!Follow(g[k], word[k + 1])
             h == Longer(g, k, x)
  <1>1. /\ \A i \in 0..k : i \in 0..k + 1 /\ i # k + 1
        /\ \A i \in 0..k + 1 : i # k + 1 => i \in 0..k /\ (i # 0 => i - 1 \in 0..k)
        /\ k + 1 \in 0..k + 1 /\ k + 1 # 0 /\ k + 1 - 1 = k /\ k \in 0..k
    OBVIOUS
  <1>2. (\A i \in 0..k : h[i] = g[i]) /\ h[k + 1] = x
    BY <1>1 DEF Longer
  <1>3. h = [i \in 0..k + 1 |-> h[i]]
    BY DEF Longer
  <1>4. \A i \in 0..k : g[i] = IF i = 0 THEN Tri!Start ELSE Tri!Follow(g[i - 1], word[i])
    BY DEF GrowEq
  <1> HIDE DEF h
  <1>5. ASSUME NEW i \in 0..k + 1
        PROVE  h[i] = IF i = 0 THEN Tri!Start ELSE Tri!Follow(h[i - 1], word[i])
    <2>1. CASE i = k + 1
      <3>1. h[i - 1] = g[k] /\ i # 0
        BY <1>1, <1>2, <2>1
      <3> QED
        BY <1>2, <2>1, <3>1
    <2>2. CASE i # k + 1
      <3>1. h[i] = g[i] /\ i \in 0..k /\ (i # 0 => h[i - 1] = g[i - 1])
        BY <1>1, <1>2, <2>2
      <3> QED
        BY <1>4, <3>1
    <2> QED
      BY <2>1, <2>2
  <1>6. GrowEq(word, h, k + 1)
    BY <1>3, <1>5 DEF GrowEq
  <1> QED
    BY <1>6 DEF h

LEMMA MeetingOn ==
  ASSUME NEW word, NEW k \in Nat, NEW g, MetEq(word, g, k)
  PROVE  MetEq(word, Longer(g, k, IF g[k] = Tri!Null THEN Tri!Null ELSE child[g[k]][word[k + 1]]), k + 1)
  <1> DEFINE x == IF g[k] = Tri!Null THEN Tri!Null ELSE child[g[k]][word[k + 1]]
             h == Longer(g, k, x)
  <1>1. /\ \A i \in 0..k : i \in 0..k + 1 /\ i # k + 1
        /\ \A i \in 0..k + 1 : i # k + 1 => i \in 0..k /\ (i # 0 => i - 1 \in 0..k)
        /\ k + 1 \in 0..k + 1 /\ k + 1 # 0 /\ k + 1 - 1 = k /\ k \in 0..k
    OBVIOUS
  <1>2. (\A i \in 0..k : h[i] = g[i]) /\ h[k + 1] = x
    BY <1>1 DEF Longer
  <1>3. h = [i \in 0..k + 1 |-> h[i]]
    BY DEF Longer
  <1>4. \A i \in 0..k : g[i] = IF i = 0 THEN Tri!Root
                               ELSE IF g[i - 1] = Tri!Null THEN Tri!Null ELSE child[g[i - 1]][word[i]]
    BY DEF MetEq
  <1> HIDE DEF h
  <1>5. ASSUME NEW i \in 0..k + 1
        PROVE  h[i] = IF i = 0 THEN Tri!Root
                      ELSE IF h[i - 1] = Tri!Null THEN Tri!Null ELSE child[h[i - 1]][word[i]]
    <2>1. CASE i = k + 1
      <3>1. h[i - 1] = g[k] /\ i # 0
        BY <1>1, <1>2, <2>1
      <3> QED
        BY <1>2, <2>1, <3>1
    <2>2. CASE i # k + 1
      <3>1. h[i] = g[i] /\ i \in 0..k /\ (i # 0 => h[i - 1] = g[i - 1])
        BY <1>1, <1>2, <2>2
      <3> QED
        BY <1>4, <3>1
    <2> QED
      BY <2>1, <2>2
  <1>6. MetEq(word, h, k + 1)
    BY <1>3, <1>5 DEF MetEq
  <1> QED
    BY <1>6 DEF h

\* They are defined.
LEMMA GrownIs ==
  ASSUME NEW word, Len(word) \in Nat
  PROVE  GrowEq(word, Tri!Grown(word), Len(word))
  <1> DEFINE K == {k \in Nat : \E g : GrowEq(word, g, k)}
  <1>1. 0 \in K
    <2> DEFINE g == [i \in 0..0 |-> Tri!Start]
    <2>1. GrowEq(word, g, 0)
      BY DEF GrowEq
    <2> QED
      BY <2>1
  <1>2. ASSUME NEW k \in Nat, k \in K PROVE k + 1 \in K
    <2>1. PICK g : GrowEq(word, g, k)
      BY <1>2
    <2>2. \E h : GrowEq(word, h, k + 1)
      BY <2>1, GrowingOn
    <2> QED
      BY <2>2
  <1> HIDE DEF K
  <1>3. Len(word) \in K
    BY <1>1, <1>2, AllNaturals
  <1>4. \E g : GrowEq(word, g, Len(word))
    BY <1>3 DEF K
  <1>5. Tri!Grown(word) = CHOOSE g : GrowEq(word, g, Len(word))
    BY DEF Tri!Grown, GrowEq
  <1> QED
    BY <1>4, <1>5

LEMMA MetIs ==
  ASSUME NEW word, Len(word) \in Nat
  PROVE  MetEq(word, Tri!Met(word), Len(word))
  <1> DEFINE K == {k \in Nat : \E g : MetEq(word, g, k)}
  <1>1. 0 \in K
    <2> DEFINE g == [i \in 0..0 |-> Tri!Root]
    <2>1. MetEq(word, g, 0)
      BY DEF MetEq
    <2> QED
      BY <2>1
  <1>2. ASSUME NEW k \in Nat, k \in K PROVE k + 1 \in K
    <2>1. PICK g : MetEq(word, g, k)
      BY <1>2
    <2>2. \E h : MetEq(word, h, k + 1)
      BY <2>1, MeetingOn
    <2> QED
      BY <2>2
  <1> HIDE DEF K
  <1>3. Len(word) \in K
    BY <1>1, <1>2, AllNaturals
  <1>4. \E g : MetEq(word, g, Len(word))
    BY <1>3 DEF K
  <1>5. Tri!Met(word) = CHOOSE g : MetEq(word, g, Len(word))
    BY DEF Tri!Met, MetEq
  <1> QED
    BY <1>4, <1>5

\* Insert's tree, after the whole word.
LEMMA FullyGrown ==
  ASSUME NEW word \in Seq(Letters), TrieInv
  PROVE  GrownTo(Tri!Grown(word)[Len(word)], Len(word), word)
  <1> DEFINE g == Tri!Grown(word)
             t == Tri!Start
  <1>1. Len(word) \in Nat
    OBVIOUS
  <1>2. GrowEq(word, g, Len(word))
    BY <1>1, GrownIs
  <1> HIDE DEF g
  <1>3. \A i \in 0..Len(word) : g[i] = IF i = 0 THEN t ELSE Tri!Follow(g[i - 1], word[i])
    BY <1>2 DEF GrowEq
  <1>4. GrownTo(t, 0, word)
    <2>1. PICK f : /\ Spelled(child, f) /\ Rooted(child, f)
                   /\ Marked(child, isWord, f, inserted, inserted)
      BY DEF TrieInv
    <2>2. Len(child) \in Nat /\ Len(child) > 0 /\ f[1] = <<>>
      <3>1. Len(child) \in Nat
        BY <2>1, SpelledNodes
      <3> QED
        BY <2>1, <3>1 DEF Spelled
    <2>3. f[1] = Cut(word, 0)
      BY <2>2, CutsAgree
    <2>4. Marked(child, isWord, f, inserted, inserted \cup {word})
      <3>1. \A w \in inserted : w \in inserted \cup {word}
        OBVIOUS
      <3> QED
        BY <2>1, <3>1 DEF Marked
    <2>5. t.next = child /\ t.isWord = isWord /\ t.p = 1
          /\ t = [next |-> t.next, isWord |-> t.isWord, p |-> t.p]
      BY DEF Tri!Start, Tri!Root
    <2> HIDE DEF t
    <2>6. t.p \in 1..Len(t.next) /\ f[t.p] = Cut(word, 0)
      BY <2>2, <2>3, <2>5
    <2>7. Spelled(t.next, f) /\ Rooted(t.next, f)
          /\ Marked(t.next, t.isWord, f, inserted, inserted \cup {word})
      BY <2>1, <2>4, <2>5
    <2> QED
      BY ONLY <2>5, <2>6, <2>7 DEF GrownTo
  <1> HIDE DEF t
  <1> DEFINE K == {k \in Nat : k <= Len(word) => GrownTo(g[k], k, word)}
  <1>5. 0 \in K
    <2>1. g[0] = t
      BY <1>1, <1>3
    <2> QED
      BY <1>4, <2>1
  <1>6. ASSUME NEW k \in Nat, k \in K PROVE k + 1 \in K
    <2> SUFFICES ASSUME k + 1 <= Len(word) PROVE GrownTo(g[k + 1], k + 1, word)
      BY <1>6
    <2>1. /\ k \in 0..Len(word) /\ k # Len(word) /\ k <= Len(word)
          /\ k + 1 \in 0..Len(word) /\ k + 1 # 0 /\ k + 1 - 1 = k
      BY <1>1
    <2>2. GrownTo(g[k], k, word)
      BY <1>6, <2>1
    <2>3. GrownTo(Tri!Follow(g[k], word[k + 1]), k + 1, word)
      BY <2>1, <2>2, Following
    <2>4. g[k + 1] = Tri!Follow(g[k], word[k + 1])
      BY <1>3, <2>1
    <2> QED
      BY <2>3, <2>4
  <1> HIDE DEF K
  <1>7. Len(word) \in K
    BY <1>1, <1>5, <1>6, AllNaturals
  <1>8. GrownTo(g[Len(word)], Len(word), word)
    BY <1>1, <1>7 DEF K
  <1> QED
    BY <1>8 DEF g

\* The mark of the word at its node.
LEMMA MarkingWord ==
  ASSUME NEW nx, NEW f, Spelled(nx, f), NEW p \in 1..Len(nx), NEW words, NEW iw,
         Marked(nx, iw, f, words, words \cup {f[p]})
  PROVE  Marked(nx, [iw EXCEPT ![p] = TRUE], f, words \cup {f[p]}, words \cup {f[p]})
  <1> DEFINE v == [iw EXCEPT ![p] = TRUE]
             more == words \cup {f[p]}
  <1>1. iw \in [1..Len(nx) -> BOOLEAN] /\ \A n \in 1..Len(nx) : iw[n] <=> f[n] \in words
    BY DEF Marked
  <1>2. /\ v \in [1..Len(nx) -> BOOLEAN] /\ v[p] = TRUE
        /\ \A n \in 1..Len(nx) : n # p => v[n] = iw[n]
    BY <1>1
  <1> HIDE DEF v
  <1>3. ASSUME NEW n \in 1..Len(nx) PROVE v[n] <=> f[n] \in more
    <2>1. CASE n = p
      BY <1>2, <2>1
    <2>2. CASE n # p
      <3>1. f[n] # f[p]
        BY <2>2 DEF Spelled
      <3>2. v[n] = iw[n] /\ (iw[n] <=> f[n] \in words)
        BY <1>1, <1>2, <2>2
      <3>3. f[n] \in words <=> f[n] \in more
        BY <3>1
      <3> QED
        BY ONLY <3>2, <3>3
    <2> QED
      BY <2>1, <2>2
  <1>4. ASSUME NEW w \in more PROVE \E n \in 1..Len(nx) : f[n] = w
    BY DEF Marked
  <1>5. \A n \in 1..Len(nx) : n # 1 => \E w \in more : \E i \in 0..Len(w) : f[n] = Cut(w, i)
    BY DEF Marked
  <1>6. Marked(nx, v, f, more, more)
    BY ONLY <1>2, <1>3, <1>4, <1>5 DEF Marked
  <1> QED
    BY <1>6 DEF v

LEMMA TrieStep == TrieInv /\ [Tri!Next]_(Tri!vars) => TrieInv'
  <1> SUFFICES ASSUME TrieInv, [Tri!Next]_(Tri!vars) PROVE TrieInv'
    OBVIOUS
  <1>1. CASE UNCHANGED Tri!vars
    BY <1>1 DEF Tri!vars, TrieInv
  <1>2. CASE Tri!Next
    <2>1. PICK word \in Tri!Words : Tri!Insert(word)
      BY <1>2 DEF Tri!Next
    <2>2. word \in Seq(Letters)
      BY WordsAreSequences
    <2> DEFINE t == Tri!Grown(word)[Len(word)]
    <2>3. /\ child' = t.next
          /\ isWord' = [t.isWord EXCEPT ![t.p] = TRUE]
          /\ inserted' = inserted \cup {word}
      BY <2>1 DEF Tri!Insert
    <2>4. GrownTo(t, Len(word), word)
      BY <2>2, FullyGrown
    <2> HIDE DEF t
    <2>5. t.p \in 1..Len(t.next)
      BY <2>4 DEF GrownTo
    <2>6. PICK f : /\ Spelled(t.next, f) /\ Rooted(t.next, f)
                   /\ Marked(t.next, t.isWord, f, inserted, inserted \cup {word})
                   /\ f[t.p] = Cut(word, Len(word))
      BY <2>4 DEF GrownTo
    <2>7. f[t.p] = word
      BY <2>2, <2>6, CutsAgree
    <2>8. Marked(t.next, isWord', f, inserted', inserted')
      BY <2>3, <2>5, <2>6, <2>7, MarkingWord
    <2>9. Spelled(child', f) /\ Rooted(child', f) /\ Marked(child', isWord', f, inserted', inserted')
      BY <2>3, <2>6, <2>8
    <2>10. inserted' \subseteq Tri!Words
      BY <2>3 DEF TrieInv
    <2> QED
      BY <2>9, <2>10 DEF TrieInv
  <1> QED
    BY <1>1, <1>2

\* m is the node of w, or null if there is none.
LeadsTo(m, f, w) ==
    /\ m = 0 => \A n \in 1..Len(child) : f[n] # w
    /\ m # 0 => m \in 1..Len(child) /\ f[m] = w

LEMMA NodeFound ==
  ASSUME NEW word \in Seq(Letters), NEW f, Spelled(child, f), Rooted(child, f)
  PROVE  LeadsTo(Tri!Find(word), f, word)
  <1> DEFINE g == Tri!Met(word)
  <1>1. Len(word) \in Nat
    OBVIOUS
  <1>2. MetEq(word, g, Len(word))
    BY <1>1, MetIs
  <1>3. Tri!Find(word) = g[Len(word)]
    BY DEF Tri!Find
  <1> HIDE DEF g
  <1>4. \A i \in 0..Len(word) : g[i] = IF i = 0 THEN 1
                                       ELSE IF g[i - 1] = 0 THEN 0 ELSE child[g[i - 1]][word[i]]
    BY <1>2 DEF MetEq, Tri!Root, Tri!Null
  <1> DEFINE K == {k \in Nat : k <= Len(word) => LeadsTo(g[k], f, Cut(word, k))}
  <1>5. 0 \in K
    <2>1. g[0] = 1
      BY <1>1, <1>4
    <2>2. 1 \in 1..Len(child) /\ f[1] = <<>>
      <3>1. Len(child) \in Nat
        BY SpelledNodes
      <3> QED
        BY <3>1 DEF Spelled
    <2>3. Cut(word, 0) = <<>>
      BY CutsAgree
    <2>4. LeadsTo(g[0], f, Cut(word, 0))
      BY <2>1, <2>2, <2>3 DEF LeadsTo
    <2> QED
      BY <2>4
  <1>6. ASSUME NEW k \in Nat, k \in K PROVE k + 1 \in K
    <2> SUFFICES ASSUME k + 1 <= Len(word) PROVE LeadsTo(g[k + 1], f, Cut(word, k + 1))
      BY <1>6
    <2>1. /\ k \in 0..Len(word) /\ k # Len(word) /\ k <= Len(word) /\ k \in 0..k + 1
          /\ k + 1 \in 0..Len(word) /\ k + 1 # 0 /\ k + 1 - 1 = k
      BY <1>1
    <2> DEFINE c == word[k + 1]
    <2>2. c \in Letters
      BY <1>1, <2>1
    <2>3. LeadsTo(g[k], f, Cut(word, k))
      BY <1>6, <2>1
    <2>4. g[k + 1] = IF g[k] = 0 THEN 0 ELSE child[g[k]][c]
      BY <1>4, <2>1
    <2>5. Append(Cut(word, k), c) = Cut(word, k + 1)
      BY <2>1, CutsAgree
    <2>6. Cut(Cut(word, k + 1), k) = Cut(word, k)
      BY <2>1, CutsAgree
    <2>7. Len(Cut(word, k + 1)) = k + 1
      BY <2>1, Cutting
    <2> HIDE DEF c
    <2>8. CASE g[k] = 0
      <3>1. \A n \in 1..Len(child) : f[n] # Cut(word, k)
        BY <2>3, <2>8 DEF LeadsTo
      <3>2. ASSUME NEW n \in 1..Len(child), f[n] = Cut(word, k + 1) PROVE FALSE
        <4>1. \A i \in 0..Len(f[n]) : \E h \in 1..Len(child) : f[h] = Cut(f[n], i)
          BY DEF Rooted
        <4>2. k \in 0..Len(f[n]) /\ Cut(f[n], k) = Cut(word, k)
          BY <2>1, <2>6, <2>7, <3>2
        <4>3. \E h \in 1..Len(child) : f[h] = Cut(word, k)
          BY ONLY <4>1, <4>2
        <4> QED
          BY <3>1, <4>3
      <3> QED
        BY <2>4, <2>8, <3>2 DEF LeadsTo
    <2>9. CASE g[k] # 0
      <3>1. g[k] \in 1..Len(child) /\ f[g[k]] = Cut(word, k)
        BY <2>3, <2>9 DEF LeadsTo
      <3>2. g[k + 1] = child[g[k]][c] /\ Append(f[g[k]], c) = Cut(word, k + 1)
        BY <2>4, <2>5, <2>9, <3>1
      <3>3. /\ child[g[k]][c] # 0 => /\ child[g[k]][c] \in 1..Len(child)
                                     /\ f[child[g[k]][c]] = Append(f[g[k]], c)
            /\ child[g[k]][c] = 0 => \A m \in 1..Len(child) : f[m] # Append(f[g[k]], c)
        BY <2>2, <3>1 DEF Spelled
      <3> QED
        BY <3>2, <3>3 DEF LeadsTo
    <2> QED
      BY <2>8, <2>9
  <1> HIDE DEF K
  <1>7. Len(word) \in K
    BY <1>1, <1>5, <1>6, AllNaturals
  <1>8. LeadsTo(g[Len(word)], f, Cut(word, Len(word)))
    BY <1>1, <1>7 DEF K
  <1> QED
    BY <1>3, <1>8, CutsAgree

LEMMA TrieFindsWords == TrieInv => Tri!WordsFound
  <1> SUFFICES ASSUME TrieInv, NEW word \in Tri!Words
               PROVE  /\ Tri!Search(word) <=> word \in inserted
                      /\ Tri!StartsWith(word) <=>
                             word = <<>> \/ \E w \in inserted : Tri!IsPrefix(word, w)
    BY DEF Tri!WordsFound
  <1>1. PICK f : /\ Spelled(child, f) /\ Rooted(child, f)
                 /\ Marked(child, isWord, f, inserted, inserted)
    BY DEF TrieInv
  <1>2. word \in Seq(Letters) /\ \A w \in inserted : w \in Seq(Letters)
    BY WordsAreSequences DEF TrieInv
  <1> DEFINE m == Tri!Find(word)
  <1>3. LeadsTo(m, f, word)
    BY <1>1, <1>2, NodeFound
  <1>4. Tri!Search(word) <=> m # 0 /\ isWord[m]
    BY DEF Tri!Search, Tri!Null
  <1>5. Tri!StartsWith(word) <=> m # 0
    BY DEF Tri!StartsWith, Tri!Null
  <1> HIDE DEF m
  <1>6. ASSUME m # 0 PROVE isWord[m] <=> word \in inserted
    <2>1. m \in 1..Len(child) /\ f[m] = word
      BY <1>3, <1>6 DEF LeadsTo
    <2>2. isWord[m] <=> f[m] \in inserted
      BY <1>1, <2>1 DEF Marked
    <2> QED
      BY <2>1, <2>2
  <1>7. ASSUME word \in inserted PROVE m # 0
    <2>1. \E n \in 1..Len(child) : f[n] = word
      BY <1>1, <1>7 DEF Marked
    <2> QED
      BY <1>3, <2>1 DEF LeadsTo
  <1>8. ASSUME m # 0 PROVE word = <<>> \/ \E w \in inserted : Tri!IsPrefix(word, w)
    <2>1. m \in 1..Len(child) /\ f[m] = word
      BY <1>3, <1>8 DEF LeadsTo
    <2>2. CASE m = 1
      BY <1>1, <2>1, <2>2 DEF Spelled
    <2>3. CASE m # 1
      <3>1. PICK w \in inserted : \E i \in 0..Len(w) : f[m] = Cut(w, i)
        BY <1>1, <2>1, <2>3 DEF Marked
      <3>2. Tri!IsPrefix(word, w)
        BY <1>2, <2>1, <3>1, PrefixesAreCuts
      <3> QED
        BY <3>2
    <2> QED
      BY <2>2, <2>3
  <1>9. ASSUME word = <<>> PROVE m # 0
    <2>1. 1 \in 1..Len(child) /\ f[1] = word
      <3>1. Len(child) \in Nat
        BY <1>1, SpelledNodes
      <3> QED
        BY <1>1, <1>9, <3>1 DEF Spelled
    <2> QED
      BY <1>3, <2>1 DEF LeadsTo
  <1>10. ASSUME NEW w \in inserted, Tri!IsPrefix(word, w) PROVE m # 0
    <2>1. PICK i \in 0..Len(w) : word = Cut(w, i)
      BY <1>2, <1>10, PrefixesAreCuts
    <2>2. PICK n \in 1..Len(child) : f[n] = w
      BY <1>1 DEF Marked
    <2>3. \E h \in 1..Len(child) : f[h] = word
      BY <1>1, <2>1, <2>2 DEF Rooted
    <2> QED
      BY <1>3, <2>3 DEF LeadsTo
  <1>11. Tri!Search(word) <=> word \in inserted
    BY <1>4, <1>6, <1>7
  <1>12. Tri!StartsWith(word) <=> word = <<>> \/ \E w \in inserted : Tri!IsPrefix(word, w)
    BY <1>5, <1>8, <1>9, <1>10
  <1> QED
    BY <1>11, <1>12

LEMMA TrieIsATree == TrieInv => Tri!OneTree
  <1> SUFFICES ASSUME TrieInv PROVE Tri!OneTree
    OBVIOUS
  <1>1. PICK f : Spelled(child, f) /\ Rooted(child, f)
    BY DEF TrieInv
  <1>2. /\ DOMAIN child = 1..Len(child)
        /\ Len(child) \in Nat /\ \A n \in 1..Len(child) : f[n] \in Seq(Letters)
    <2> DEFINE F == [Letters -> Nat]
    <2>1. child \in Seq(F) /\ Len(child) \in Nat /\ \A n \in 1..Len(child) : f[n] \in Seq(Letters)
      BY <1>1, SpelledNodes
    <2> HIDE DEF F
    <2> QED
      BY <2>1
  <1>3. \A n \in 1..Len(child), c \in Letters : child[n][c] # 0 =>
            child[n][c] \in 1..Len(child) /\ f[child[n][c]] = Append(f[n], c)
    BY <1>1 DEF Spelled
  <1>4. f[1] = <<>> /\ \A m, n \in 1..Len(child) : f[m] = f[n] => m = n
    BY <1>1 DEF Spelled
  <1> DEFINE N == 1..Len(child)
             L(n) == {edge \in N \X Letters : child[edge[1]][edge[2]] = n}
  <1>5. ASSUME NEW n \in N PROVE Cardinality(L(n)) = IF n = 1 THEN 0 ELSE 1
    <2>0. n # 0
      BY <1>2
    <2>1. CASE n = 1
      <3>1. ASSUME NEW edge \in L(n) PROVE FALSE
        <4>1. edge[1] \in N /\ edge[2] \in Letters /\ child[edge[1]][edge[2]] = n
          OBVIOUS
        <4>2. f[n] = Append(f[edge[1]], edge[2])
          BY <1>3, <2>0, <4>1
        <4>3. f[edge[1]] \in Seq(Letters)
          BY <1>2, <4>1
        <4>4. Append(f[edge[1]], edge[2]) # <<>>
          BY <4>1, <4>3, OneLetterMore
        <4> QED
          BY <1>4, <2>1, <4>2, <4>4
      <3>2. L(n) = {}
        BY <3>1
      <3> HIDE DEF L
      <3> QED
        BY <2>1, <3>2, FS_EmptySet
    <2>2. CASE n # 1
      <3>1. PICK a \in N, c \in Letters : child[a][c] = n
        BY <1>1, <2>2 DEF Rooted
      <3>2. f[n] = Append(f[a], c)
        BY <1>3, <2>0, <3>1
      <3>3. ASSUME NEW edge \in L(n) PROVE edge = <<a, c>>
        <4>1. edge \in N \X Letters /\ child[edge[1]][edge[2]] = n
          OBVIOUS
        <4>2. edge[1] \in N /\ edge[2] \in Letters /\ edge = <<edge[1], edge[2]>>
          BY <4>1
        <4>3. f[n] = Append(f[edge[1]], edge[2])
          BY <1>3, <2>0, <4>1, <4>2
        <4>4. f[edge[1]] \in Seq(Letters) /\ f[a] \in Seq(Letters)
          BY <1>2, <3>1, <4>2
        <4>5. f[edge[1]] = f[a] /\ edge[2] = c
          <5> DEFINE s == f[edge[1]]
                     d == edge[2]
                     r == f[a]
          <5>1. s \in Seq(Letters) /\ d \in Letters /\ r \in Seq(Letters) /\ c \in Letters
            BY <3>1, <4>2, <4>4
          <5>2. Append(s, d) = Append(r, c)
            BY <3>2, <4>3
          <5> HIDE DEF s, d, r
          <5>3. s = r /\ d = c
            BY ONLY <5>1, <5>2, LastLetters
          <5> QED
            BY <5>3 DEF s, d, r
        <4>6. edge[1] = a
          BY <1>4, <3>1, <4>2, <4>5
        <4> QED
          BY <4>2, <4>5, <4>6
      <3>4. <<a, c>> \in L(n)
        BY <3>1
      <3>5. L(n) = {<<a, c>>}
        BY <3>3, <3>4
      <3> HIDE DEF L
      <3> QED
        BY <2>2, <3>5, FS_Singleton
    <2> QED
      BY <2>1, <2>2
  <1>6. \A S : Tri!Cardinality(S) = Cardinality(S)
    BY DEF Tri!Cardinality, Cardinality
  <1> QED
    BY <1>2, <1>5, <1>6 DEF Tri!OneTree, Tri!Root

(***************************************************************************)
(* Search finds exactly the words that were inserted, StartsWith exactly   *)
(* their prefixes and the empty word, and one link leads to every node but *)
(* the root: whatever the order of the insertions and however long the     *)
(* words are (Insert, Search, StartsWith and the destructor of trie.h).    *)
(***************************************************************************)
THEOREM TrieStaysIntact == SpecAll => []TrieIntact
  <1>1. InitAll => TrieInv
    BY TrieInit DEF InitAll
  <1>2. TrieInv /\ [NextAll]_varsAll => TrieInv'
    <2>1. [NextAll]_varsAll => [Tri!Next]_(Tri!vars)
      BY DEF NextAll, varsAll, trieVars, Tri!vars
    <2> QED
      BY <2>1, TrieStep
  <1>3. TrieInv => TrieIntact
    BY TrieFindsWords, TrieIsATree DEF TrieIntact
  <1> QED
    BY <1>1, <1>2, <1>3, PTL DEF SpecAll

-----------------------------------------------------------------------------
\* ConfParser.  What the first i lines of a file have to say.
BadLine(lines, j) == lines[j][1] \in {"badOption", "badItem"}

\* The items of pair among the first i lines.
ItemsTo(lines, i, pair) ==
    {j \in 1..i : /\ \A h \in 1..i : BadLine(lines, h) => j < h
                  /\ lines[j][1] = "item" /\ <<Conf!OptionOf(lines, j), lines[j][2]>> = pair}

\* c is what the table d has become by them.
Told(c, d, lines, i) ==
    \A pair :
        /\ ItemsTo(lines, i, pair) = {} =>
               /\ pair \in DOMAIN c <=> pair \in DOMAIN d
               /\ pair \in DOMAIN d => c[pair] = d[pair]
        /\ \A j \in ItemsTo(lines, i, pair) :
               (\A h \in ItemsTo(lines, i, pair) : h <= j) =>
                   pair \in DOMAIN c /\ c[pair] = lines[j][3]

\* s is the state of load after i lines.
After(s, d, lines, i) ==
    /\ s = [conf |-> s.conf, option |-> s.option, thrown |-> s.thrown]
    /\ s.thrown \in BOOLEAN
    /\ s.thrown <=> \E j \in 1..i : BadLine(lines, j)
    /\ ~s.thrown => s.option = Conf!OptionOf(lines, i)
    /\ Told(s.conf, d, lines, i)

IsStored(w, c, p, x) ==
    /\ DOMAIN w = {p} \cup DOMAIN c
    /\ w[p] = x
    /\ \A pair \in DOMAIN c : pair # p => w[pair] = c[pair]

LEMMA Storing ==
  ASSUME NEW c, NEW o, NEW k, NEW x
  PROVE  IsStored(Conf!With(c, o, k, x), c, <<o, k>>, x)
  BY DEF Conf!With, IsStored

\* The option that a line belongs to changes at an option line only.
LEMMA OptionsGoOn ==
  ASSUME NEW lines, NEW i \in Nat
  PROVE  /\ lines[i + 1][1] = "option" => Conf!OptionOf(lines, i + 1) = lines[i + 1][2]
         /\ lines[i + 1][1] # "option" => Conf!OptionOf(lines, i + 1) = Conf!OptionOf(lines, i)
  <1> DEFINE N(n) == {j \in 1..n : lines[j][1] = "option"}
  <1>1. 1..i + 1 = 1..i \cup {i + 1} /\ i + 1 \notin 1..i /\ \A j \in 1..i + 1 : j <= i + 1
    OBVIOUS
  <1>0. \A n : Conf!OptionOf(lines, n) =
               IF N(n) = {} THEN NoOption ELSE lines[CHOOSE j \in N(n) : \A h \in N(n) : h <= j][2]
    BY DEF Conf!OptionOf
  <1>2. ASSUME lines[i + 1][1] # "option" PROVE Conf!OptionOf(lines, i + 1) = Conf!OptionOf(lines, i)
    <2>1. N(i + 1) = N(i)
      BY <1>1, <1>2
    <2> HIDE DEF N
    <2> QED
      BY <1>0, <2>1
  <1>3. ASSUME lines[i + 1][1] = "option" PROVE Conf!OptionOf(lines, i + 1) = lines[i + 1][2]
    <2>1. i + 1 \in N(i + 1) /\ \A h \in N(i + 1) : h <= i + 1
      BY <1>1, <1>3
    <2>2. \A j \in N(i + 1) : (\A h \in N(i + 1) : h <= j) => j = i + 1
      <3> TAKE j \in N(i + 1)
      <3>1. j \in 1..i + 1
        OBVIOUS
      <3> HIDE DEF N
      <3> QED
        BY <2>1, <3>1
    <2> DEFINE m == CHOOSE j \in N(i + 1) : \A h \in N(i + 1) : h <= j
    <2>3. m = i + 1
      <3> HIDE DEF N
      <3> QED
        BY <2>1, <2>2
    <2>4. N(i + 1) # {}
      BY <2>1
    <2>5. Conf!OptionOf(lines, i + 1) = lines[m][2]
      BY <2>4 DEF Conf!OptionOf
    <2> QED
      BY <2>3, <2>5
  <1> QED
    BY <1>2, <1>3

\* The items so far, one line later.
LEMMA ItemsGoOn ==
  ASSUME NEW lines, NEW i \in Nat, NEW pair
  PROVE  /\ (\E j \in 1..i : BadLine(lines, j)) =>
                ItemsTo(lines, i + 1, pair) = ItemsTo(lines, i, pair)
         /\ lines[i + 1][1] # "item" => ItemsTo(lines, i + 1, pair) = ItemsTo(lines, i, pair)
         /\ <<Conf!OptionOf(lines, i + 1), lines[i + 1][2]>> # pair =>
                ItemsTo(lines, i + 1, pair) = ItemsTo(lines, i, pair)
         /\ /\ lines[i + 1][1] = "item" /\ <<Conf!OptionOf(lines, i + 1), lines[i + 1][2]>> = pair
            /\ ~\E j \in 1..i : BadLine(lines, j)
            => ItemsTo(lines, i + 1, pair) = ItemsTo(lines, i, pair) \cup {i + 1}
  <1> DEFINE I(n) == ItemsTo(lines, n, pair)
             Of(j) == lines[j][1] = "item" /\ <<Conf!OptionOf(lines, j), lines[j][2]>> = pair
  <1>1. /\ 1..i + 1 = 1..i \cup {i + 1} /\ i + 1 \notin 1..i
        /\ \A j \in 1..i : j < i + 1 /\ ~(i + 1 < j)
    OBVIOUS
  <1>2. \A n \in Nat : \A j : j \in I(n) <=> /\ j \in 1..n /\ Of(j)
                                           /\ \A h \in 1..n : BadLine(lines, h) => j < h
    BY DEF ItemsTo
  <1> HIDE DEF I
  <1> HIDE DEF Of
  <1>3. \A j \in 1..i : j \in I(i + 1) <=> j \in I(i)
    BY <1>1, <1>2
  <1>4. \A j : j \in I(i) => j \in 1..i
    BY <1>2
  <1>5. \A j : j \in I(i + 1) => j \in 1..i \/ j = i + 1
    BY <1>1, <1>2
  <1>6. i + 1 \notin I(i + 1) => I(i + 1) = I(i)
    BY <1>3, <1>4, <1>5
  <1>7. ~Of(i + 1) => i + 1 \notin I(i + 1)
    BY <1>2
  <1>8. (\E j \in 1..i : BadLine(lines, j)) => i + 1 \notin I(i + 1)
    BY <1>1, <1>2
  <1>9. ASSUME Of(i + 1), ~\E j \in 1..i : BadLine(lines, j) PROVE I(i + 1) = I(i) \cup {i + 1}
    <2>1. ~BadLine(lines, i + 1)
      BY <1>9 DEF BadLine, Of
    <2>2. i + 1 \in I(i + 1)
      BY <1>1, <1>2, <1>9, <2>1
    <2> QED
      BY <1>3, <1>4, <1>5, <2>2
  <1> QED
    BY <1>6, <1>7, <1>8, <1>9 DEF I, Of

LEMMA ReadsNothing ==
  ASSUME NEW s, NEW line, s.thrown
  PROVE  Conf!ReadLine(s, line) = s
  BY DEF Conf!ReadLine

LEMMA ReadsSkip ==
  ASSUME NEW s, NEW line, ~s.thrown, line[1] = "skip"
  PROVE  Conf!ReadLine(s, line) = s
  BY DEF Conf!ReadLine

LEMMA ReadsOption ==
  ASSUME NEW s, NEW line, ~s.thrown, line[1] = "option"
  PROVE  Conf!ReadLine(s, line) = [s EXCEPT !.option = line[2]]
  BY DEF Conf!ReadLine

LEMMA ReadsItem ==
  ASSUME NEW s, NEW line, ~s.thrown, line[1] = "item"
  PROVE  Conf!ReadLine(s, line) = [s EXCEPT !.conf = Conf!With(s.conf, s.option, line[2], line[3])]
  BY DEF Conf!ReadLine, Conf!Item

LEMMA ReadsBad ==
  ASSUME NEW s, NEW line, ~s.thrown, line[1] \in {"badOption", "badItem"}
  PROVE  Conf!ReadLine(s, line) = [s EXCEPT !.thrown = TRUE]
  BY DEF Conf!ReadLine

LEMMA LineKinds ==
  ASSUME NEW line \in Conf!Lines
  PROVE  line[1] \in {"skip", "option", "item", "badOption", "badItem"}
  BY DEF Conf!Lines

LEMMA ToldBySame ==
  ASSUME NEW c, NEW d, NEW lines, NEW i, Told(c, d, lines, i),
         \A pair : ItemsTo(lines, i + 1, pair) = ItemsTo(lines, i, pair)
  PROVE  Told(c, d, lines, i + 1)
  BY DEF Told

LEMMA ToldByItem ==
  ASSUME NEW c, NEW d, NEW lines, NEW i \in Nat, Told(c, d, lines, i),
         lines[i + 1][1] = "item", ~\E j \in 1..i : BadLine(lines, j)
  PROVE  Told(Conf!With(c, Conf!OptionOf(lines, i), lines[i + 1][2], lines[i + 1][3]), d, lines, i + 1)
  <1> DEFINE o == Conf!OptionOf(lines, i)
             k == lines[i + 1][2]
             x == lines[i + 1][3]
             w == Conf!With(c, o, k, x)
             I(pair) == ItemsTo(lines, i, pair)
             J(pair) == ItemsTo(lines, i + 1, pair)
  <1>1. /\ DOMAIN w = {<<o, k>>} \cup DOMAIN c /\ w[<<o, k>>] = x
        /\ \A pair \in DOMAIN c : pair # <<o, k>> => w[pair] = c[pair]
    <2>1. IsStored(w, c, <<o, k>>, x)
      BY Storing
    <2> HIDE DEF w, o, k, x
    <2> QED
      BY <2>1 DEF IsStored
  <1>2. Conf!OptionOf(lines, i + 1) = o
    BY OptionsGoOn
  <1>3. \A pair : IF pair = <<o, k>> THEN J(pair) = I(pair) \cup {i + 1} ELSE J(pair) = I(pair)
    BY <1>2, ItemsGoOn
  <1>4. \A pair : \A j \in I(pair) : j \in 1..i
    BY DEF ItemsTo
  <1>5. \A pair :
            /\ I(pair) = {} => /\ pair \in DOMAIN c <=> pair \in DOMAIN d
                               /\ pair \in DOMAIN d => c[pair] = d[pair]
            /\ \A j \in I(pair) : (\A h \in I(pair) : h <= j) =>
                   pair \in DOMAIN c /\ c[pair] = lines[j][3]
    BY DEF Told
  <1>6. \A j \in 1..i : ~(i + 1 <= j)
    OBVIOUS
  <1> HIDE DEF w, o, k, I, J
  <1>7. ASSUME NEW pair
        PROVE  /\ J(pair) = {} => /\ pair \in DOMAIN w <=> pair \in DOMAIN d
                                  /\ pair \in DOMAIN d => w[pair] = d[pair]
               /\ \A j \in J(pair) : (\A h \in J(pair) : h <= j) =>
                      pair \in DOMAIN w /\ w[pair] = lines[j][3]
    <2>1. CASE pair = <<o, k>>
      <3>1. J(pair) = I(pair) \cup {i + 1}
        BY <1>3, <2>1
      <3>2. \A j \in J(pair) : (\A h \in J(pair) : h <= j) => j = i + 1
        BY <1>4, <1>6, <3>1
      <3>3. pair \in DOMAIN w /\ w[pair] = lines[i + 1][3]
        BY <1>1, <2>1
      <3> QED
        BY <3>1, <3>2, <3>3
    <2>2. CASE pair # <<o, k>>
      <3>1. J(pair) = I(pair)
        BY <1>3, <2>2
      <3>2. (pair \in DOMAIN w <=> pair \in DOMAIN c) /\ (pair \in DOMAIN c => w[pair] = c[pair])
        BY <1>1, <2>2
      <3>3. ASSUME J(pair) = {}
            PROVE  (pair \in DOMAIN w <=> pair \in DOMAIN d) /\ (pair \in DOMAIN d => w[pair] = d[pair])
        BY <1>5, <3>1, <3>2, <3>3
      <3>4. ASSUME NEW j \in J(pair), \A h \in J(pair) : h <= j
            PROVE  pair \in DOMAIN w /\ w[pair] = lines[j][3]
        BY <1>5, <3>1, <3>2, <3>4
      <3> QED
        BY <3>3, <3>4
    <2> QED
      BY <2>1, <2>2
  <1>8. Told(w, d, lines, i + 1)
    BY <1>7 DEF Told, J
  <1> QED
    BY <1>8 DEF w, o, k

\* One line of load.
LEMMA OneLineMore ==
  ASSUME NEW s, NEW d, NEW lines, NEW i \in Nat, After(s, d, lines, i),
         lines[i + 1] \in Conf!Lines
  PROVE  After(Conf!ReadLine(s, lines[i + 1]), d, lines, i + 1)
  <1> DEFINE line == lines[i + 1]
             t == Conf!ReadLine(s, line)
  <1>1. /\ s = [conf |-> s.conf, option |-> s.option, thrown |-> s.thrown]
        /\ s.thrown \in BOOLEAN
        /\ s.thrown <=> \E j \in 1..i : BadLine(lines, j)
        /\ ~s.thrown => s.option = Conf!OptionOf(lines, i)
        /\ Told(s.conf, d, lines, i)
    BY DEF After
  <1>2. (\E j \in 1..i + 1 : BadLine(lines, j)) <=> (\E j \in 1..i : BadLine(lines, j)) \/ BadLine(lines, i + 1)
    <2>1. 1..i + 1 = 1..i \cup {i + 1}
      OBVIOUS
    <2> QED
      BY <2>1
  <1>3. CASE s.thrown
    <2>1. t = s
      BY <1>3, ReadsNothing
    <2>2. \A pair : ItemsTo(lines, i + 1, pair) = ItemsTo(lines, i, pair)
      BY <1>1, <1>3, ItemsGoOn
    <2>3. Told(s.conf, d, lines, i + 1)
      BY <1>1, <2>2, ToldBySame
    <2>4. After(s, d, lines, i + 1)
      BY <1>1, <1>2, <1>3, <2>3 DEF After
    <2> QED
      BY <2>1, <2>4
  <1>4. CASE ~s.thrown /\ line[1] = "skip"
    <2>1. t = s
      BY <1>4, ReadsSkip
    <2>2. ~BadLine(lines, i + 1) /\ line[1] # "item" /\ line[1] # "option"
      BY <1>4 DEF BadLine
    <2>3. \A pair : ItemsTo(lines, i + 1, pair) = ItemsTo(lines, i, pair)
      BY <2>2, ItemsGoOn
    <2>4. Told(s.conf, d, lines, i + 1)
      BY <1>1, <2>3, ToldBySame
    <2>5. Conf!OptionOf(lines, i + 1) = Conf!OptionOf(lines, i)
      BY <2>2, OptionsGoOn
    <2>6. After(s, d, lines, i + 1)
      BY <1>1, <1>2, <2>2, <2>4, <2>5 DEF After
    <2> QED
      BY <2>1, <2>6
  <1>5. CASE ~s.thrown /\ line[1] = "option"
    <2>1. t = [s EXCEPT !.option = line[2]]
      BY <1>5, ReadsOption
    <2>2. ~BadLine(lines, i + 1) /\ line[1] # "item"
      BY <1>5 DEF BadLine
    <2>3. \A pair : ItemsTo(lines, i + 1, pair) = ItemsTo(lines, i, pair)
      BY <2>2, ItemsGoOn
    <2>4. Told(s.conf, d, lines, i + 1)
      BY <1>1, <2>3, ToldBySame
    <2>5. Conf!OptionOf(lines, i + 1) = line[2]
      BY <1>5, OptionsGoOn
    <2>6. t = [conf |-> s.conf, option |-> line[2], thrown |-> s.thrown]
      BY <1>1, <2>1
    <2> HIDE DEF t, line
    <2>7. t.conf = s.conf /\ t.option = line[2] /\ t.thrown = s.thrown
      BY <2>6
    <2>8. After(t, d, lines, i + 1)
      BY <1>1, <1>2, <2>2, <2>4, <2>5, <2>6, <2>7 DEF After
    <2> QED
      BY <2>8 DEF t, line
  <1>6. CASE ~s.thrown /\ line[1] = "item"
    <2> DEFINE w == Conf!With(s.conf, s.option, line[2], line[3])
    <2>1. t = [s EXCEPT !.conf = w]
      BY <1>6, ReadsItem
    <2>2. ~BadLine(lines, i + 1) /\ line[1] # "option"
      BY <1>6 DEF BadLine
    <2>3. Told(w, d, lines, i + 1)
      BY <1>1, <1>6, ToldByItem
    <2>4. Conf!OptionOf(lines, i + 1) = Conf!OptionOf(lines, i)
      BY <2>2, OptionsGoOn
    <2> HIDE DEF w
    <2>5. t = [conf |-> w, option |-> s.option, thrown |-> s.thrown]
      BY <1>1, <2>1
    <2> HIDE DEF t, line
    <2>6. t.conf = w /\ t.option = s.option /\ t.thrown = s.thrown
      BY <2>5
    <2>7. After(t, d, lines, i + 1)
      BY <1>1, <1>2, <2>2, <2>3, <2>4, <2>5, <2>6 DEF After
    <2> QED
      BY <2>7 DEF t, line
  <1>7. CASE ~s.thrown /\ line[1] \in {"badOption", "badItem"}
    <2>1. t = [s EXCEPT !.thrown = TRUE]
      BY <1>7, ReadsBad
    <2>2. BadLine(lines, i + 1) /\ line[1] # "item"
      BY <1>7 DEF BadLine
    <2>3. \A pair : ItemsTo(lines, i + 1, pair) = ItemsTo(lines, i, pair)
      BY <2>2, ItemsGoOn
    <2>4. Told(s.conf, d, lines, i + 1)
      BY <1>1, <2>3, ToldBySame
    <2>5. t = [conf |-> s.conf, option |-> s.option, thrown |-> TRUE]
      BY <1>1, <2>1
    <2> HIDE DEF t, line
    <2>6. t.conf = s.conf /\ t.option = s.option /\ t.thrown = TRUE
      BY <2>5
    <2>7. After(t, d, lines, i + 1)
      BY <1>2, <2>2, <2>4, <2>5, <2>6 DEF After
    <2> QED
      BY <2>7 DEF t, line
  <1> QED
    BY <1>3, <1>4, <1>5, <1>6, <1>7, LineKinds

\* What Steps of ConfParser is, and that it is defined.
StepsEq(d, lines, g, k) ==
    g = [i \in 0..k |-> IF i = 0 THEN [conf |-> d, option |-> NoOption, thrown |-> FALSE]
                        ELSE Conf!ReadLine(g[i - 1], lines[i])]

LEMMA SteppingOn ==
  ASSUME NEW d, NEW lines, NEW k \in Nat, NEW g, StepsEq(d, lines, g, k)
  PROVE  StepsEq(d, lines, Longer(g, k, Conf!ReadLine(g[k], lines[k + 1])), k + 1)
  <1> DEFINE x == Conf!ReadLine(g[k], lines[k + 1])
             h == Longer(g, k, x)
             s == [conf |-> d, option |-> NoOption, thrown |-> FALSE]
  <1>1. /\ \A i \in 0..k : i \in 0..k + 1 /\ i # k + 1
        /\ \A i \in 0..k + 1 : i # k + 1 => i \in 0..k /\ (i # 0 => i - 1 \in 0..k)
        /\ k + 1 \in 0..k + 1 /\ k + 1 # 0 /\ k + 1 - 1 = k /\ k \in 0..k
    OBVIOUS
  <1>2. (\A i \in 0..k : h[i] = g[i]) /\ h[k + 1] = x
    BY <1>1 DEF Longer
  <1>3. h = [i \in 0..k + 1 |-> h[i]]
    BY DEF Longer
  <1>4. \A i \in 0..k : g[i] = IF i = 0 THEN s ELSE Conf!ReadLine(g[i - 1], lines[i])
    BY DEF StepsEq
  <1> HIDE DEF h, s
  <1>5. ASSUME NEW i \in 0..k + 1
        PROVE  h[i] = IF i = 0 THEN s ELSE Conf!ReadLine(h[i - 1], lines[i])
    <2>1. CASE i = k + 1
      <3>1. h[i - 1] = g[k] /\ i # 0
        BY <1>1, <1>2, <2>1
      <3> QED
        BY <1>2, <2>1, <3>1
    <2>2. CASE i # k + 1
      <3>1. h[i] = g[i] /\ i \in 0..k /\ (i # 0 => h[i - 1] = g[i - 1])
        BY <1>1, <1>2, <2>2
      <3> QED
        BY <1>4, <3>1
    <2> QED
      BY <2>1, <2>2
  <1>6. StepsEq(d, lines, h, k + 1)
    BY <1>3, <1>5 DEF StepsEq, s
  <1> QED
    BY <1>6 DEF h

LEMMA StepsAre ==
  ASSUME NEW d, NEW lines, Len(lines) \in Nat
  PROVE  StepsEq(d, lines, Conf!Steps(d, lines), Len(lines))
  <1> DEFINE K == {k \in Nat : \E g : StepsEq(d, lines, g, k)}
  <1>1. 0 \in K
    <2> DEFINE g == [i \in 0..0 |-> [conf |-> d, option |-> NoOption, thrown |-> FALSE]]
    <2>1. StepsEq(d, lines, g, 0)
      BY DEF StepsEq
    <2> QED
      BY <2>1
  <1>2. ASSUME NEW k \in Nat, k \in K PROVE k + 1 \in K
    <2>1. PICK g : StepsEq(d, lines, g, k)
      BY <1>2
    <2>2. \E h : StepsEq(d, lines, h, k + 1)
      BY <2>1, SteppingOn
    <2> QED
      BY <2>2
  <1> HIDE DEF K
  <1>3. Len(lines) \in K
    BY <1>1, <1>2, AllNaturals
  <1>4. \E g : StepsEq(d, lines, g, Len(lines))
    BY <1>3 DEF K
  <1>5. Conf!Steps(d, lines) = CHOOSE g : StepsEq(d, lines, g, Len(lines))
    BY DEF Conf!Steps, StepsEq
  <1> QED
    BY <1>4, <1>5

LEMMA FileLines ==
  ASSUME NEW lines \in Conf!Files
  PROVE  /\ Len(lines) \in Nat /\ DOMAIN lines = 1..Len(lines)
         /\ \A i \in 1..Len(lines) : lines[i] \in Conf!Lines
  <1> DEFINE L == Conf!Lines
  <1>1. PICK n \in 0..MaxLines : lines \in [1..n -> L]
    BY DEF Conf!Files
  <1>2. n \in Nat
    BY UtilitiesAssumption DEF Conf!ConfAssumption
  <1> HIDE DEF L
  <1>3. lines \in Seq(L) /\ Len(lines) = n
    BY <1>1, <1>2
  <1> QED
    BY <1>1, <1>2, <1>3 DEF L

\* The whole file.
LEMMA AllIsRead ==
  ASSUME NEW d, NEW lines \in Conf!Files
  PROVE  After(Conf!Read(d, lines), d, lines, Len(lines))
  <1> DEFINE g == Conf!Steps(d, lines)
  <1>1. Len(lines) \in Nat /\ \A i \in 1..Len(lines) : lines[i] \in Conf!Lines
    BY FileLines
  <1>2. StepsEq(d, lines, g, Len(lines))
    BY <1>1, StepsAre
  <1>3. Conf!Read(d, lines) = g[Len(lines)]
    BY DEF Conf!Read
  <1> HIDE DEF g
  <1>4. \A i \in 0..Len(lines) :
            g[i] = IF i = 0 THEN [conf |-> d, option |-> NoOption, thrown |-> FALSE]
                   ELSE Conf!ReadLine(g[i - 1], lines[i])
    BY <1>2 DEF StepsEq
  <1> DEFINE K == {k \in Nat : k <= Len(lines) => After(g[k], d, lines, k)}
  <1>5. 0 \in K
    <2> DEFINE s == [conf |-> d, option |-> NoOption, thrown |-> FALSE]
    <2>1. g[0] = s
      <3>1. 0 \in 0..Len(lines)
        BY <1>1
      <3> QED
        BY <1>4, <3>1, Zenon
    <2>2. ~\E j \in 1..0 : TRUE
      OBVIOUS
    <2>3. \A pair : ItemsTo(lines, 0, pair) = {}
      BY <2>2 DEF ItemsTo
    <2>4. Told(d, d, lines, 0)
      BY <2>3 DEF Told
    <2>5. Conf!OptionOf(lines, 0) = NoOption
      <3>1. {j \in 1..0 : lines[j][1] = "option"} = {}
        BY <2>2
      <3> QED
        BY <3>1 DEF Conf!OptionOf
    <2>6. s.conf = d /\ s.option = NoOption /\ s.thrown = FALSE
          /\ s = [conf |-> s.conf, option |-> s.option, thrown |-> s.thrown]
      OBVIOUS
    <2> HIDE DEF s
    <2>7. After(s, d, lines, 0)
      BY <2>2, <2>4, <2>5, <2>6 DEF After
    <2> QED
      BY <2>1, <2>7
  <1>6. ASSUME NEW k \in Nat, k \in K PROVE k + 1 \in K
    <2> SUFFICES ASSUME k + 1 <= Len(lines) PROVE After(g[k + 1], d, lines, k + 1)
      BY <1>6
    <2>1. /\ k <= Len(lines) /\ k + 1 \in 1..Len(lines)
          /\ k + 1 \in 0..Len(lines) /\ k + 1 # 0 /\ k + 1 - 1 = k
      BY <1>1
    <2>2. After(g[k], d, lines, k)
      BY <1>6, <2>1
    <2>3. lines[k + 1] \in Conf!Lines
      BY <1>1, <2>1
    <2>4. g[k + 1] = Conf!ReadLine(g[k], lines[k + 1])
      BY <1>4, <2>1
    <2> QED
      BY <2>2, <2>3, <2>4, OneLineMore
  <1> HIDE DEF K
  <1>7. Len(lines) \in K
    BY <1>1, <1>5, <1>6, AllNaturals
  <1>8. After(g[Len(lines)], d, lines, Len(lines))
    BY <1>1, <1>7 DEF K
  <1> QED
    BY <1>3, <1>8

LEMMA GreatestOf ==
  ASSUME NEW n \in Nat, NEW S \in SUBSET (1..n), S # {}
  PROVE  \E j \in S : \A h \in S : h <= j
  <1> DEFINE D == {k \in Nat : n - k \in S}
  <1>1. \A j \in S : n - j \in D /\ j \in 1..n
    <2> TAKE j \in S
    <2>1. j \in 1..n
      OBVIOUS
    <2>2. n - j \in Nat /\ n - (n - j) = j
      BY <2>1
    <2> QED
      BY <2>1, <2>2
  <1>2. D \in SUBSET Nat /\ D # {}
    BY <1>1
  <1>3. PICK k \in D : \A j \in D : ~(j < k)
    BY <1>2, LeastNatural
  <1>4. k \in Nat /\ n - k \in S
    OBVIOUS
  <1> HIDE DEF D
  <1>5. \A h \in S : h <= n - k
    <2> TAKE h \in S
    <2>1. h \in 1..n /\ ~(n - h < k)
      BY <1>1, <1>3
    <2> QED
      BY <1>4, <2>1
  <1> QED
    BY <1>4, <1>5

LEMMA ConfReads == Conf!LoadReads
  <1> SUFFICES ASSUME NEW lines \in Conf!Files
               PROVE  LET s == Conf!Read(conf, lines) IN
                      /\ s.thrown <=> Conf!Good(lines) # DOMAIN lines
                      /\ \A pair \in Options \X ConfKeys :
                          LET items == Conf!ItemsOf(lines, pair) IN
                          IF items = {}
                          THEN pair \in DOMAIN s.conf <=> pair \in DOMAIN conf
                          ELSE pair \in DOMAIN s.conf
                      /\ \A pair \in DOMAIN s.conf :
                          LET items == Conf!ItemsOf(lines, pair) IN
                          s.conf[pair] = IF items = {} THEN conf[pair]
                                         ELSE lines[CHOOSE i \in items : \A j \in items : j <= i][3]
    BY DEF Conf!LoadReads
  <1> DEFINE s == Conf!Read(conf, lines)
             I(pair) == Conf!ItemsOf(lines, pair)
             m(pair) == CHOOSE i \in I(pair) : \A j \in I(pair) : j <= i
  <1>1. After(s, conf, lines, Len(lines))
    BY AllIsRead
  <1>2. Len(lines) \in Nat /\ DOMAIN lines = 1..Len(lines)
    BY FileLines
  <1> DEFINE bad == {i \in DOMAIN lines : lines[i][1] \in {"badOption", "badItem"}}
  <1>3. Conf!Good(lines) = {i \in DOMAIN lines : \A j \in bad : i < j}
    BY DEF Conf!Good
  <1>4. \A j : j \in bad <=> j \in 1..Len(lines) /\ BadLine(lines, j)
    BY <1>2 DEF BadLine
  <1>5. \A pair : I(pair) = ItemsTo(lines, Len(lines), pair)
    <2> TAKE pair
    <2> HIDE DEF bad
    <2>1. \A j : j \in I(pair) <=> /\ j \in 1..Len(lines) /\ \A h \in bad : j < h
                                   /\ lines[j][1] = "item"
                                   /\ <<Conf!OptionOf(lines, j), lines[j][2]>> = pair
      BY <1>2, <1>3 DEF Conf!ItemsOf
    <2>2. \A j : j \in ItemsTo(lines, Len(lines), pair) <=>
                     /\ j \in 1..Len(lines) /\ \A h \in bad : j < h
                     /\ lines[j][1] = "item"
                     /\ <<Conf!OptionOf(lines, j), lines[j][2]>> = pair
      BY <1>4 DEF ItemsTo
    <2> HIDE DEF I
    <2> QED
      BY <2>1, <2>2
  <1> HIDE DEF bad
  <1>6. s.thrown <=> \E j \in 1..Len(lines) : BadLine(lines, j)
    BY <1>1 DEF After
  <1>7. s.thrown <=> Conf!Good(lines) # DOMAIN lines
    <2>1. ASSUME NEW j \in 1..Len(lines), BadLine(lines, j) PROVE Conf!Good(lines) # DOMAIN lines
      <3>1. j \in bad /\ j \in DOMAIN lines /\ ~(j < j)
        BY <1>2, <1>4, <2>1
      <3> QED
        BY <1>3, <3>1
    <2>2. ASSUME ~\E j \in 1..Len(lines) : BadLine(lines, j) PROVE Conf!Good(lines) = DOMAIN lines
      <3>1. \A j : j \notin bad
        BY <1>4, <2>2
      <3> QED
        BY <1>3, <3>1
    <2> QED
      BY <1>6, <2>1, <2>2
  <1>8. Told(s.conf, conf, lines, Len(lines))
    BY <1>1 DEF After
  <1> HIDE DEF s, I
  <1>9. \A pair :
            /\ I(pair) = {} => /\ pair \in DOMAIN s.conf <=> pair \in DOMAIN conf
                               /\ pair \in DOMAIN conf => s.conf[pair] = conf[pair]
            /\ \A j \in I(pair) : (\A h \in I(pair) : h <= j) =>
                   pair \in DOMAIN s.conf /\ s.conf[pair] = lines[j][3]
    BY <1>5, <1>8 DEF Told
  <1>10. ASSUME NEW pair, I(pair) # {} PROVE m(pair) \in I(pair) /\ \A h \in I(pair) : h <= m(pair)
    <2>1. I(pair) \in SUBSET (1..Len(lines))
      BY <1>5 DEF ItemsTo
    <2>2. \E j \in I(pair) : \A h \in I(pair) : h <= j
      BY <1>2, <1>10, <2>1, GreatestOf
    <2> QED
      BY <2>2
  <1> HIDE DEF m
  <1>11. \A pair : IF I(pair) = {} THEN pair \in DOMAIN s.conf <=> pair \in DOMAIN conf
                   ELSE pair \in DOMAIN s.conf
    BY <1>9, <1>10
  <1>12. \A pair \in DOMAIN s.conf : s.conf[pair] = IF I(pair) = {} THEN conf[pair] ELSE lines[m(pair)][3]
    BY <1>9, <1>10
  <1> QED
    BY <1>7, <1>11, <1>12 DEF s, I, m

(***************************************************************************)
(* Whatever the parser has, load gives each key of each option the value   *)
(* it has last in the lines before the first malformed one, leaves the     *)
(* others as they were, and throws just on a malformed line: for files of  *)
(* any length (load of conf_parser.h).                                     *)
(***************************************************************************)
THEOREM LoadsReadFiles == SpecAll => []LoadReads
  <1>1. LoadReads
    BY ConfReads DEF LoadReads
  <1> QED
    BY <1>1, PTL

-----------------------------------------------------------------------------
\* Types.  There are finitely many words, because there are finitely many letters.
LEMMA WordsOfOneLength ==
  ASSUME NEW n \in Nat, IsFiniteSet(Letters), IsFiniteSet([1..n -> Letters])
  PROVE  IsFiniteSet([1..n + 1 -> Letters])
  <1> DEFINE shorter == [1..n -> Letters]
             longer  == [1..n + 1 -> Letters]
             pairs   == shorter \X Letters
             grown   == [pair \in pairs |->
                            [j \in 1..n + 1 |-> IF j = n + 1 THEN pair[2] ELSE pair[1][j]]]
  <1>1. IsFiniteSet(pairs)
    BY FS_Product
  <1>2. grown \in [pairs -> longer]
    <2> SUFFICES ASSUME NEW pair \in pairs PROVE grown[pair] \in longer
      OBVIOUS
    <2>1. pair[1] \in [1..n -> Letters] /\ pair[2] \in Letters
      OBVIOUS
    <2>2. \A j \in 1..n + 1 : j # n + 1 => j \in 1..n
      OBVIOUS
    <2> QED
      BY <2>1, <2>2
  <1>3. ASSUME NEW w \in longer PROVE \E pair \in pairs : grown[pair] = w
    <2> DEFINE cut == [j \in 1..n |-> w[j]]
    <2>1. \A j \in 1..n + 1 : w[j] \in Letters
      OBVIOUS
    <2>2. n + 1 \in 1..n + 1 /\ \A j \in 1..n : j \in 1..n + 1
      OBVIOUS
    <2>3. cut \in shorter /\ w[n + 1] \in Letters
      BY <2>1, <2>2
    <2>4. <<cut, w[n + 1]>> \in pairs
      BY <2>3
    <2>5. \A j \in 1..n + 1 : j # n + 1 => j \in 1..n
      OBVIOUS
    <2>6. PICK pair \in pairs : pair[1] = cut /\ pair[2] = w[n + 1]
      BY <2>4
    <2>7. grown[pair] = [j \in 1..n + 1 |-> IF j = n + 1 THEN w[n + 1] ELSE cut[j]]
      BY <2>6
    <2>8. w = [j \in 1..n + 1 |-> IF j = n + 1 THEN w[n + 1] ELSE cut[j]]
      BY <2>5
    <2> QED
      BY <2>7, <2>8
  <1>4. grown \in Surjection(pairs, longer)
    <2> HIDE DEF pairs, longer, grown
    <2> QED
      BY <1>2, <1>3 DEF Surjection
  <1> HIDE DEF pairs, longer, grown
  <1>5. IsFiniteSet(longer)
    BY <1>1, <1>4, FS_Surjection
  <1> QED
    BY <1>5 DEF longer

LEMMA WordsAreFinite == IsFiniteSet(Tri!Words)
  <1> DEFINE short == {n \in Nat : IsFiniteSet([1..n -> Letters])}
             lengths == {[1..n -> Letters] : n \in 0..MaxLength}
  <1>1. MaxLength \in Nat /\ IsFiniteSet(Letters)
    BY UtilitiesAssumption DEF Tri!LengthAssumption, Tri!IsFiniteSet, IsFiniteSet
  <1>2. 0 \in short
    <2>1. \A w \in [1..0 -> Letters] : w \in Seq(Letters) /\ Len(w) = 0
      BY FunctionIsSeq
    <2>2. \A w \in [1..0 -> Letters] : w = <<>>
      BY <2>1
    <2>3. <<>> \in [1..0 -> Letters]
      OBVIOUS
    <2>4. [1..0 -> Letters] = {<<>>}
      BY <2>2, <2>3
    <2> QED
      BY <2>4, FS_Singleton
  <1>3. ASSUME NEW n \in Nat, n \in short PROVE n + 1 \in short
    BY <1>1, <1>3, WordsOfOneLength
  <1>4. \A n \in Nat : n \in short
    <2> HIDE DEF short
    <2> QED
      BY <1>2, <1>3, AllNaturals
  <1>5. \A S \in lengths : IsFiniteSet(S)
    BY <1>1, <1>4
  <1>6. IsFiniteSet(lengths)
    <2> DEFINE ofLength == [n \in 0..MaxLength |-> [1..n -> Letters]]
    <2>1. ofLength \in Surjection(0..MaxLength, lengths)
      BY DEF Surjection
    <2>2. IsFiniteSet(0..MaxLength)
      BY <1>1, FS_Interval
    <2> HIDE DEF ofLength, lengths
    <2> QED
      BY <2>1, <2>2, FS_Surjection
  <1>7. Tri!Words = UNION lengths
    BY DEF Tri!Words
  <1> HIDE DEF lengths
  <1> QED
    BY <1>5, <1>6, <1>7, FS_UNION

\* No node is there but for the prefix of a word, and no two for one prefix.
LEMMA TrieTypes == TrieInv => Tri!TypeOK
  <1> SUFFICES ASSUME TrieInv PROVE Tri!TypeOK
    OBVIOUS
  <1>1. PICK f : Spelled(child, f) /\ Rooted(child, f) /\ Marked(child, isWord, f, inserted, inserted)
    BY DEF TrieInv
  <1>2. /\ child \in Seq([Letters -> Nat]) /\ Len(child) > 0 /\ Len(child) \in Nat
        /\ f \in [1..Len(child) -> Seq(Letters)] /\ f[1] = <<>>
        /\ \A m, n \in 1..Len(child) : f[m] = f[n] => m = n
        /\ \A n \in 1..Len(child), c \in Letters : child[n][c] # 0 => child[n][c] \in 1..Len(child)
    BY <1>1 DEF Spelled
  <1>3. inserted \subseteq Tri!Words
    BY DEF TrieInv
  <1>4. MaxLength \in Nat
    BY UtilitiesAssumption DEF Tri!LengthAssumption
  <1>5. child \in Seq([Letters -> 0..Len(child)])
    <2>1. ASSUME NEW n \in 1..Len(child) PROVE child[n] \in [Letters -> 0..Len(child)]
      <3>1. child[n] \in [Letters -> Nat]
        BY <1>2
      <3>2. ASSUME NEW c \in Letters PROVE child[n][c] \in 0..Len(child)
        <4>1. child[n][c] = 0 \/ child[n][c] \in 1..Len(child)
          BY <1>2
        <4> QED
          BY <1>2, <4>1
      <3> QED
        BY <3>1, <3>2
    <2>2. child \in [1..Len(child) -> [Letters -> 0..Len(child)]]
      <3>1. child = [n \in 1..Len(child) |-> child[n]]
        <4>1. child \in Seq([Letters -> Nat])
          BY <1>2
        <4> QED
          BY <4>1
      <3>2. \A n \in 1..Len(child) : child[n] \in [Letters -> 0..Len(child)]
        BY <2>1
      <3> QED
        BY <3>1, <3>2, Zenon
    <2> QED
      BY <1>2, <2>2, FunctionIsSeq
  <1>6. isWord \in [DOMAIN child -> BOOLEAN]
    <2>1. DOMAIN child = 1..Len(child)
      BY <1>2
    <2>2. isWord \in [1..Len(child) -> BOOLEAN]
      BY ONLY <1>1 DEF Marked
    <2> QED
      BY ONLY <2>1, <2>2
  <1>7. ASSUME NEW n \in 1..Len(child) PROVE f[n] \in Tri!Words
    <2>1. CASE n = 1
      <3>1. <<>> \in [1..0 -> Letters] /\ 0 \in 0..MaxLength
        BY <1>4
      <3>2. <<>> \in UNION {[1..i -> Letters] : i \in 0..MaxLength}
        BY ONLY <3>1
      <3>3. f[n] = <<>>
        BY <1>2, <2>1
      <3> QED
        BY ONLY <3>2, <3>3 DEF Tri!Words
    <2>2. CASE n # 1
      <3>1. PICK w \in inserted : \E i \in 0..Len(w) : f[n] = Cut(w, i)
        BY <1>1, <2>2 DEF Marked
      <3>2. PICK i \in 0..Len(w) : f[n] = Cut(w, i)
        BY <3>1
      <3>3. PICK l \in 0..MaxLength : w \in [1..l -> Letters]
        BY <1>3 DEF Tri!Words
      <3>4. Len(w) = l /\ l \in Nat /\ l <= MaxLength
        BY <1>4, <3>3
      <3>5. i \in 0..MaxLength /\ i <= l
        BY <1>4, <3>4
      <3>6. Cut(w, i) \in [1..i -> Letters]
        BY <3>3, <3>4, <3>5 DEF Cut
      <3> QED
        BY <3>2, <3>5, <3>6 DEF Tri!Words
    <2> QED
      BY <2>1, <2>2
  <1>8. Len(child) <= Cardinality(Tri!Words)
    <2>1. f \in [1..Len(child) -> Tri!Words]
      BY <1>2, <1>7
    <2>2. f \in Injection(1..Len(child), Tri!Words)
      BY ONLY <1>2, <2>1 DEF Injection, IsInjective
    <2>3. Cardinality(1..Len(child)) <= Cardinality(Tri!Words)
      BY <2>2, WordsAreFinite, FS_Injection
    <2>4. Cardinality(1..Len(child)) = Len(child)
      BY <1>2, FS_Interval
    <2> QED
      BY <2>3, <2>4
  <1>9. Tri!Cardinality(Tri!Words) = Cardinality(Tri!Words)
    BY DEF Tri!Cardinality, Cardinality
  <1> QED
    BY <1>3, <1>5, <1>6, <1>8, <1>9 DEF Tri!TypeOK

LEMMA ListTypesHold == ListInv => Lst!TypeOK
  <1> SUFFICES ASSUME ListInv PROVE Lst!TypeOK
    OBVIOUS
  <1>1. ListTypes /\ Apart /\ DestroyedIs /\ \A l \in Lists : NoRepeats(contents[l])
    BY DEF ListInv
  <1>2. /\ start \in [Lists -> ListNodes \cup {NoNode}]
        /\ end \in [Lists -> ListNodes \cup {NoNode}]
        /\ next \in [ListNodes -> ListNodes \cup {NoNode}]
        /\ contents \in [Lists -> Seq(ListNodes)]
        /\ dead \subseteq Lists
    BY <1>1 DEF ListTypes
  <1>3. \A l \in Lists : contents[l] \in Seq(ListNodes) /\ DOMAIN contents[l] = 1..Len(contents[l])
    BY <1>2
  <1>4. destroyed \subseteq ListNodes
    <2> SUFFICES ASSUME NEW x \in destroyed PROVE x \in ListNodes
      OBVIOUS
    <2>1. PICK d \in dead : HasBeforeLast(contents[d], x)
      BY <1>1 DEF DestroyedIs
    <2>2. PICK i \in 1..Len(contents[d]) - 1 : contents[d][i] = x
      BY <2>1 DEF HasBeforeLast
    <2>3. d \in Lists /\ contents[d] \in Seq(ListNodes)
      BY <1>2, <1>3
    <2>4. i \in 1..Len(contents[d])
      BY <2>3
    <2> QED
      BY <2>2, <2>3, <2>4
  <1>5. \A l \in Lists : Lst!IsInjective(contents[l])
    BY <1>1, <1>3 DEF NoRepeats, Lst!IsInjective
  <1>6. \A l, m \in Lists : l # m => Lst!ToSet(contents[l]) \cap Lst!ToSet(contents[m]) = {}
    <2> SUFFICES ASSUME NEW l \in Lists, NEW m \in Lists, l # m,
                        NEW x \in Lst!ToSet(contents[l]), x \in Lst!ToSet(contents[m])
                 PROVE  FALSE
      OBVIOUS
    <2>1. Has(contents[l], x) /\ Has(contents[m], x)
      BY <1>3 DEF Has, Lst!ToSet
    <2> QED
      BY <1>1, <2>1 DEF Apart
  <1> QED
    BY <1>2, <1>4, <1>5, <1>6 DEF Lst!TypeOK

\* What the parser has are texts, by options and keys.
TableTyped(c) ==
    DOMAIN c \subseteq Options \X ConfKeys /\ \A pair \in DOMAIN c : c[pair] \in Texts

LEMMA TableTypedWith ==
  ASSUME NEW c, TableTyped(c), NEW o \in Options, NEW k \in ConfKeys, NEW x \in Texts
  PROVE  TableTyped(Conf!With(c, o, k, x))
  BY DEF TableTyped, Conf!With

\* s is a state of load.
LoadTyped(s) ==
    /\ s = [conf |-> s.conf, option |-> s.option, thrown |-> s.thrown]
    /\ TableTyped(s.conf) /\ s.option \in Options /\ s.thrown \in BOOLEAN

LEMMA LineTypes ==
  ASSUME NEW s, LoadTyped(s), NEW line \in Conf!Lines
  PROVE  LoadTyped(Conf!ReadLine(s, line))
  <1>1. \/ line[1] = "skip" \/ line[1] = "badOption" \/ line[1] = "badItem"
        \/ line[1] = "option" /\ line[2] \in Options
        \/ line[1] = "item" /\ line[2] \in ConfKeys /\ line[3] \in Texts
    BY DEF Conf!Lines
  <1>2. CASE s.thrown \/ line[1] = "skip"
    BY <1>2, ReadsNothing DEF Conf!ReadLine
  <1>3. CASE ~s.thrown /\ line[1] = "option"
    BY <1>1, <1>3 DEF Conf!ReadLine, LoadTyped
  <1>4. CASE ~s.thrown /\ line[1] = "item"
    <2>1. TableTyped(Conf!With(s.conf, s.option, line[2], line[3]))
      BY <1>1, <1>4, TableTypedWith DEF LoadTyped
    <2> QED
      BY <1>4, <2>1 DEF Conf!ReadLine, Conf!Item, LoadTyped
  <1>5. CASE ~s.thrown /\ line[1] \in {"badOption", "badItem"}
    BY <1>5 DEF Conf!ReadLine, LoadTyped
  <1> QED
    BY <1>1, <1>2, <1>3, <1>4, <1>5

LEMMA LoadTypes ==
  ASSUME TableTyped(conf), NEW lines \in Conf!Files
  PROVE  LoadTyped(Conf!Read(conf, lines))
  <1> DEFINE s == Conf!Steps(conf, lines)
             typed == {i \in Nat : i <= Len(lines) => LoadTyped(s[i])}
  <1>1. Len(lines) \in Nat /\ \A i \in 1..Len(lines) : lines[i] \in Conf!Lines
    BY FileLines
  <1>2. StepsEq(conf, lines, s, Len(lines))
    BY <1>1, StepsAre
  <1>3. s = [i \in 0..Len(lines) |->
                 IF i = 0 THEN [conf |-> conf, option |-> NoOption, thrown |-> FALSE]
                 ELSE Conf!ReadLine(s[i - 1], lines[i])]
    BY ONLY <1>2 DEF StepsEq
  <1> HIDE DEF s
  <1>4. \A i \in 0..Len(lines) :
            s[i] = IF i = 0 THEN [conf |-> conf, option |-> NoOption, thrown |-> FALSE]
                   ELSE Conf!ReadLine(s[i - 1], lines[i])
    BY ONLY <1>3
  <1>5. 0 \in typed
    <2>1. s[0] = [conf |-> conf, option |-> NoOption, thrown |-> FALSE]
      <3>1. 0 \in 0..Len(lines)
        BY <1>1
      <3> QED
        BY ONLY <1>4, <3>1
    <2>2. NoOption \in Options
      BY UtilitiesAssumption DEF Conf!ConfAssumption
    <2>3. PICK t : t = [conf |-> conf, option |-> NoOption, thrown |-> FALSE]
      OBVIOUS
    <2>4. t.conf = conf /\ t.option = NoOption /\ t.thrown = FALSE
      BY <2>3
    <2>5. LoadTyped(t)
      BY ONLY <2>2, <2>3, <2>4, TableTyped(conf) DEF LoadTyped
    <2>6. s[0] = t
      BY <2>1, <2>3
    <2> QED
      BY <2>5, <2>6
  <1>6. ASSUME NEW i \in Nat, i \in typed PROVE i + 1 \in typed
    <2> SUFFICES ASSUME i + 1 <= Len(lines) PROVE LoadTyped(s[i + 1])
      OBVIOUS
    <2>1. i + 1 \in 0..Len(lines) /\ i + 1 \in 1..Len(lines) /\ i + 1 # 0 /\ i + 1 - 1 = i /\ i <= Len(lines)
      BY <1>1
    <2>2. s[i + 1] = Conf!ReadLine(s[i], lines[i + 1])
      BY <1>4, <2>1
    <2>3. LoadTyped(s[i]) /\ lines[i + 1] \in Conf!Lines
      BY <1>1, <1>6, <2>1
    <2>4. LoadTyped(Conf!ReadLine(s[i], lines[i + 1]))
      BY <2>3, LineTypes
    <2> QED
      BY <2>2, <2>4
  <1> HIDE DEF typed
  <1>7. Len(lines) \in typed
    BY <1>1, <1>5, <1>6, AllNaturals
  <1>8. LoadTyped(s[Len(lines)])
    BY <1>1, <1>7 DEF typed
  <1> QED
    BY <1>8 DEF s, Conf!Read

ConfTypes == TableTyped(conf) /\ loaded \in BOOLEAN /\ var \in Texts /\ thrown \in BOOLEAN

LEMMA ConfInit == Conf!Init => ConfTypes
  <1> SUFFICES ASSUME Conf!Init PROVE ConfTypes
    OBVIOUS
  <1>1. \E x : x \in Numbers
    BY UtilitiesAssumption DEF Conf!ConfAssumption
  <1>2. (CHOOSE x \in Numbers : TRUE) \in Numbers
    BY <1>1
  <1>3. var \in Texts
    BY <1>2, UtilitiesAssumption DEF Conf!ConfAssumption, Conf!Init
  <1>4. conf = <<>> /\ loaded = FALSE /\ thrown = FALSE
    BY DEF Conf!Init
  <1>5. TableTyped(conf)
    <2>1. DOMAIN conf = {}
      BY <1>4
    <2> QED
      BY <2>1 DEF TableTyped
  <1> QED
    BY <1>3, <1>4, <1>5 DEF ConfTypes

LEMMA ConfStep == ConfTypes /\ [Conf!Next]_(Conf!vars) => ConfTypes'
  <1> SUFFICES ASSUME ConfTypes, [Conf!Next]_(Conf!vars) PROVE ConfTypes'
    OBVIOUS
  <1>1. Numbers \subseteq Texts
    BY UtilitiesAssumption DEF Conf!ConfAssumption
  <1>2. TableTyped(conf) /\ loaded \in BOOLEAN /\ var \in Texts /\ thrown \in BOOLEAN
    BY DEF ConfTypes
  <1>3. ASSUME TableTyped(conf'), loaded' \in BOOLEAN, var' \in Texts, thrown' \in BOOLEAN
        PROVE  ConfTypes'
    <2>1. TableTyped(conf)'
      BY ONLY <1>3 DEF TableTyped
    <2> QED
      BY <1>3, <2>1 DEF ConfTypes
  <1>4. ASSUME NEW lines \in Conf!Files, Conf!Load(lines) PROVE ConfTypes'
    <2>1. LoadTyped(Conf!Read(conf, lines))
      BY <1>2, LoadTypes
    <2>2. PICK s : s = Conf!Read(conf, lines)
      OBVIOUS
    <2>3. /\ conf' = s.conf /\ thrown' = s.thrown
          /\ loaded' = (loaded \/ ~s.thrown) /\ var' = var
      BY <1>4, <2>2 DEF Conf!Load
    <2>4. TableTyped(s.conf) /\ s.thrown \in BOOLEAN
      BY <2>1, <2>2 DEF LoadTyped
    <2>5. TableTyped(conf')
      BY <2>3, <2>4
    <2>6. (loaded \/ ~s.thrown) \in BOOLEAN
      OBVIOUS
    <2>7. loaded' \in BOOLEAN /\ thrown' \in BOOLEAN /\ var' \in Texts
      BY <1>2, <2>3, <2>4, <2>6
    <2> QED
      BY <1>3, <2>5, <2>7
  <1>5. ASSUME Conf!LoadNothing \/ Conf!SetUnsupported PROVE ConfTypes'
    BY <1>2, <1>3, <1>5 DEF Conf!LoadNothing, Conf!SetUnsupported
  <1>6. ASSUME NEW o \in Options, NEW k \in ConfKeys, NEW x \in Texts, Conf!Set(o, k, x)
        PROVE  ConfTypes'
    <2>1. TableTyped(Conf!With(conf, o, k, x))
      BY <1>2, TableTypedWith
    <2>2. conf' = Conf!With(conf, o, k, x) /\ thrown' = FALSE /\ loaded' = loaded /\ var' = var
      BY <1>6 DEF Conf!Set
    <2>3. TableTyped(conf')
      BY <2>1, <2>2
    <2> QED
      BY <1>2, <1>3, <2>2, <2>3
  <1>7. \A o, k, number : Conf!Readable(o, k, number) => conf[<<o, k>>] \in Texts
    BY <1>2 DEF Conf!Readable, TableTyped
  <1>8. \A o, k, number : Conf!Readable(o, k, number) \in BOOLEAN
    BY DEF Conf!Readable
  <1>9. ASSUME NEW o \in Options, NEW k \in ConfKeys, NEW number \in BOOLEAN, Conf!Get(o, k, number)
        PROVE  ConfTypes'
    <2>1. /\ IF Conf!Readable(o, k, number) THEN var' = conf[<<o, k>>] ELSE var' = var
          /\ thrown' = ~Conf!Readable(o, k, number)
          /\ conf' = conf /\ loaded' = loaded
      BY <1>9 DEF Conf!Get
    <2>2. var' \in Texts
      BY <1>2, <1>7, <2>1
    <2>3. thrown' \in BOOLEAN
      BY <1>8, <2>1
    <2> QED
      BY <1>2, <1>3, <2>1, <2>2, <2>3
  <1>10. ASSUME NEW o \in Options, NEW k \in ConfKeys, NEW number \in BOOLEAN,
                NEW d \in IF number THEN Numbers ELSE Texts, Conf!GetDefault(o, k, number, d)
         PROVE  ConfTypes'
    <2>1. /\ var' = IF Conf!Readable(o, k, number) THEN conf[<<o, k>>] ELSE d
          /\ thrown' = FALSE /\ conf' = conf /\ loaded' = loaded
      BY <1>10 DEF Conf!GetDefault
    <2>2. d \in Texts
      BY <1>1
    <2>3. var' \in Texts
      BY <1>7, <2>1, <2>2
    <2> QED
      BY <1>2, <1>3, <2>1, <2>3
  <1>11. CASE UNCHANGED Conf!vars
    BY <1>2, <1>3, <1>11 DEF Conf!vars
  <1> QED
    BY <1>4, <1>5, <1>6, <1>9, <1>10, <1>11 DEF Conf!Next

(***************************************************************************)
(* The component that is active keeps to the types of its module, for any  *)
(* finite alphabet: a trie, above all, has no more nodes than there are    *)
(* words, however often they are inserted, and a file of ProcStat is open  *)
(* just while it is read (all the small components).                       *)
(***************************************************************************)
THEOREM TypesAreKept == SpecAll => []TypesOK
  <1> DEFINE Inv == /\ active = "Barrier" => TypeOK
                    /\ LoopInv /\ ProcInv /\ CacheInv /\ PoolInv /\ ListInv /\ TrieInv /\ ConfTypes
  <1>1. InitAll => Inv
    BY BarrierInit, LoopInit, ProcInit, CacheInit, PoolInit, ListInit, TrieInit, ConfInit,
       UtilitiesAssumption DEF InitAll, BarrierInv
  <1>2. Inv /\ [NextAll]_varsAll => Inv'
    <2> SUFFICES ASSUME Inv, [NextAll]_varsAll PROVE Inv'
      OBVIOUS
    <2>1. (active = "Barrier" => TypeOK)'
      <3>1. [Next]_vars /\ active' = active
        BY DEF NextAll, varsAll
      <3> QED
        BY <3>1, BarrierTypeOK
    <2>2. LoopInv'
      <3>1. [Loop!Next]_Loop!vars
        BY DEF NextAll, varsAll, rangeVars, Loop!vars
      <3> QED
        BY <3>1, LoopStep, UtilitiesAssumption
    <2>3. ProcInv'
      <3>1. [Proc!Next]_Proc!vars
        BY DEF NextAll, varsAll, procVars, Proc!vars
      <3> QED
        BY <3>1, ProcStep
    <2>4. CacheInv'
      <3>1. [Lru!Next]_Lru!vars
        BY DEF NextAll, varsAll, cacheVars, Lru!vars
      <3> QED
        BY <3>1, CacheStep
    <2>5. PoolInv'
      <3>1. [Pool!Next]_(Pool!vars)
        BY DEF NextAll, varsAll, poolVars, Pool!vars
      <3> QED
        BY <3>1, PoolStep
    <2>6. ListInv'
      <3>1. [Lst!Next]_(Lst!vars)
        BY DEF NextAll, varsAll, listVars, Lst!vars
      <3> QED
        BY <3>1, ListStep
    <2>7. TrieInv'
      <3>1. [Tri!Next]_(Tri!vars)
        BY DEF NextAll, varsAll, trieVars, Tri!vars
      <3> QED
        BY <3>1, TrieStep
    <2>8. ConfTypes'
      <3>1. [Conf!Next]_(Conf!vars)
        BY DEF NextAll, varsAll, confVars, Conf!vars
      <3> QED
        BY <3>1, ConfStep
    <2> QED
      BY <2>1, <2>2, <2>3, <2>4, <2>5, <2>6, <2>7, <2>8
  <1>3. Inv => TypesOK
    BY TrieTypes, ListTypesHold
       DEF TypesOK, LoopInv, ProcInv, CacheInv, PoolInv, ConfTypes, TableTyped, Conf!TypeOK
  <1> QED
    BY <1>1, <1>2, <1>3, PTL DEF SpecAll
=============================================================================
