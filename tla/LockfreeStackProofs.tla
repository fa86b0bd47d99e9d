------------------------- MODULE LockfreeStackProofs -------------------------
(***************************************************************************)
(* As long as addresses do not come back, or one consumer pops alone, the  *)
(* nodes of a LockfreeStack form a list that ends and that nobody else has *)
(* a hand on, and no assertion of the consumers fails: for any number of   *)
(* threads, nodes, versions (one is enough) and failing exchanges.         *)
(*                                                                         *)
(* The invariant says which nodes are on the stack, from the bottom: s[1]  *)
(* to s[d].  A push makes an s[d + 1], a pop drops s[d].                   *)
(***************************************************************************)
EXTENDS LockfreeStack, WellFoundedInduction, FiniteSetTheorems, SequenceTheorems, TLAPS

\* What keeps a word of _top that a pop has read from being right by accident:
\* a node that was popped does not return, or nobody else pops.
AbaHarmless == ~Reuse \/ \A c, d \in Consumers : c = d

\* Producers push, consumers pop.
Places ==
    /\ \A p \in Producers : pc[p] \in PushPlaces \cup {"idle"}
    /\ \A c \in Consumers : pc[c] \in ReadPlaces \cup {"idle", "popLoad", "empty", "got"}

\* Thread t's node is not pushed yet; it has its node for itself.
Pushing(t) == pc[t] \in PushPlaces \ {"pushed"}
Owns(t)    == Pushing(t) \/ pc[t] = "got"

\* Nobody shares a node, and one's node is live.
HandsApart ==
    /\ \A t \in Threads : Owns(t) => memory[node[t]] = "live"
    /\ \A t, u \in Threads : Owns(t) /\ Owns(u) /\ node[t] = node[u] => t = u
    /\ \A t \in Threads : ~Owns(t) /\ pc[t] # "pushed" => node[t] = Null

\* The word push will store has its node, which is linked to the _top it read.
PushReady ==
    /\ \A p \in Producers : Pushing(p) /\ pc[p] # "pushCombine" => new[p].ptr = node[p]
    /\ \A p \in Producers : pc[p] = "pushCas" => next[node[p]] = seen[p].ptr

\* The flag of a live node is set, and is its own.
Numbered ==
    /\ \A n \in Nodes : memory[n] = "live" => data[n] \in flags
    /\ \A m, n \in Nodes :
          memory[m] = "live" /\ memory[n] = "live" /\ data[m] = data[n] => m = n

\* s[d] is on top, and each node is linked to the one below.
Linked(d, s) ==
    /\ d \in Nat /\ s \in [1..d -> Nodes]
    /\ \A i, j \in 1..d : s[i] = s[j] => i = j
    /\ top.ptr = IF d = 0 THEN Null ELSE s[d]
    /\ \A i \in 1..d : next[s[i]] = IF i = 1 THEN Null ELSE s[i - 1]

\* The nodes on the stack are live and in no thread's hands.
Stacked(d, s) ==
    \A i \in 1..d :
        /\ memory[s[i]] = "live"
        /\ \A t \in Threads : node[t] = s[i] => pc[t] = "pushed"

\* A node that a pop has seen on top will not be pushed again; if it is still on
\* the stack, the next that was read is still its next.
SeenRight(d, s) ==
    \A c \in Consumers : pc[c] \in ReadPlaces =>
        /\ memory[seen[c].ptr] # "fresh"
        /\ \A t \in Threads : Pushing(t) => node[t] # seen[c].ptr
        /\ Reuse => \E i \in 1..d : seen[c].ptr = s[i]
        /\ \A i \in 1..d :
              seen[c].ptr = s[i] /\ pc[c] # "popRead" => new[c].ptr = next[s[i]]

StackIs(d, s) == Linked(d, s) /\ Stacked(d, s) /\ SeenRight(d, s)

\* The inductive invariant.
ThreadInv == TypeOK /\ Places /\ HandsApart /\ PushReady /\ Numbered /\ AssertionsHold

IInv == ThreadInv /\ \E d, s : StackIs(d, s)
-----------------------------------------------------------------------------
\* What the constants are assumed to be.
LEMMA ConstantsAreApart ==
  /\ Null \notin Nodes /\ Versions \in Nat \ {0} /\ MaxSpurious \in Nat
  /\ Threads = Producers \cup Consumers /\ Producers \cap Consumers = {}
  BY CombinedAssumption, ClientAssumption DEF Threads

\* combine makes a word, and its counter stays in its range.
LEMMA Combined ==
  ASSUME NEW n \in Pointers, NEW v \in 0..Versions - 1
  PROVE  /\ Combine(n, v) \in Words /\ Combine(n, v).ptr = n
         /\ NextVersion(v) \in 0..Versions - 1
  BY ConstantsAreApart DEF Combine, NextVersion, Words

\* The types, and who is where.
LEMMA TypeStep ==
  ASSUME TypeOK, Places, [Next]_vars
  PROVE  TypeOK' /\ Places'
  <1> USE ConstantsAreApart DEF TypeOK, ClientTypeOK, Places, PushPlaces, ReadPlaces,
        heap, client, versions
  <1>0. NullWord \in Words /\ 0 \in 0..Versions - 1 /\ Null \in Pointers
    BY DEF NullWord, Words, Pointers
  <1>1. ASSUME UNCHANGED vars PROVE TypeOK' /\ Places'
    BY <1>1 DEF vars
  <1>2. ASSUME NEW p \in Producers, CallPush(p) PROVE TypeOK' /\ Places'
    <2>1. PICK n \in Nodes : Make(n) /\ node' = [node EXCEPT ![p] = n]
                                  /\ next' = [next EXCEPT ![n] = Null]
      BY <1>2 DEF CallPush, Allocatable
    <2>2. ClientTypeOK'
      <3>1. flags' \subseteq 1..count' - 1
        BY <2>1 DEF Make
      <3>2. broken' \in BOOLEAN
        BY <2>1, Zenon DEF Make
      <3>3. memory' \in [Nodes -> {"fresh", "live", "deleted"}]
        BY <2>1, Zenon DEF Make
      <3>4. data' \in [Nodes -> Nat] /\ count' \in Nat \ {0}
        BY <2>1 DEF Make
      <3>5. done' = done /\ spurious' = spurious
        BY <1>2, <2>1 DEF CallPush, Make
      <3> QED
        BY <3>1, <3>2, <3>3, <3>4, <3>5, Zenon
    <2>3. Places'
      BY <1>2 DEF CallPush, Move
    <2>4. n # Null /\ n \in Pointers
      BY DEF Pointers
    <2> QED
      BY <1>0, <1>2, <2>1, <2>2, <2>3, <2>4 DEF CallPush, Move
  <1>3. ASSUME NEW p \in Producers, PushCombine(p) PROVE TypeOK' /\ Places'
    BY <1>3, Combined DEF PushCombine, Move
  <1>4. ASSUME NEW p \in Producers, PushLoad(p) PROVE TypeOK' /\ Places'
    BY <1>4 DEF PushLoad, Move
  <1>5. ASSUME NEW p \in Producers, PushLink(p) PROVE TypeOK' /\ Places'
    BY <1>5 DEF PushLink, Move, Words
  <1>6. ASSUME NEW p \in Producers, PushCas(p) PROVE TypeOK' /\ Places'
    BY <1>6 DEF PushCas, TopSwung, TopKept, FailsForNothing, Move
  <1>7. ASSUME NEW p \in Producers, PushReturn(p) PROVE TypeOK' /\ Places'
    BY <1>0, <1>7 DEF PushReturn, Return, Count, Move
  <1>8. ASSUME NEW c \in Consumers, CallPop(c) PROVE TypeOK' /\ Places'
    BY <1>8 DEF CallPop, Move
  <1>9. ASSUME NEW c \in Consumers, PopLoad(c) PROVE TypeOK' /\ Places'
    BY <1>9 DEF PopLoad, Move
  <1>10. ASSUME NEW c \in Consumers, PopRead(c) PROVE TypeOK' /\ Places'
    <2>1. seen[c].ptr \in Nodes
      BY <1>10 DEF PopRead, Move, Words, Pointers
    <2>2. PICK n \in Pointers : new' = [new EXCEPT ![c] = Combine(n, 0)]
      BY <1>10, <2>1 DEF PopRead
    <2>3. Combine(n, 0) \in Words
      BY <1>0, Combined
    <2> QED
      BY <1>10, <2>2, <2>3 DEF PopRead, Move
  <1>11. ASSUME NEW c \in Consumers, PopCombine(c) PROVE TypeOK' /\ Places'
    <2>1. new[c].ptr \in Pointers
      BY DEF Words
    <2> QED
      BY <1>11, <2>1, Combined DEF PopCombine, Move
  <1>12. ASSUME NEW c \in Consumers, PopCas(c) PROVE TypeOK' /\ Places'
    <2>1. pc[c] = "popCas" => seen[c].ptr \in Nodes
      BY DEF Words, Pointers
    <2> QED
      BY <1>12, <2>1 DEF PopCas, TopSwung, TopKept, FailsForNothing, Move, Pointers
  <1>13. ASSUME NEW c \in Consumers, PopEmpty(c) PROVE TypeOK' /\ Places'
    BY <1>0, <1>13 DEF PopEmpty, Return, Move
  <1>14. ASSUME NEW c \in Consumers, PopReturn(c) PROVE TypeOK' /\ Places'
    <2>1. node[c] \in Nodes
      BY <1>14 DEF PopReturn, Return, Move, Pointers
    <2>2. ClientTypeOK'
      <3>1. broken' \in BOOLEAN
        BY <1>14, Zenon DEF PopReturn, Consume
      <3>2. memory' \in [Nodes -> {"fresh", "live", "deleted"}]
        BY <1>14, Zenon DEF PopReturn, Consume
      <3>3. flags' \subseteq 1..count' - 1
        BY <1>14 DEF PopReturn, Consume
      <3>4. done' \in [Threads -> Nat]
        BY <1>14 DEF PopReturn, Count
      <3>5. data' = data /\ count' = count /\ spurious' = spurious
        BY <1>14 DEF PopReturn, Consume
      <3> QED
        BY <3>1, <3>2, <3>3, <3>4, <3>5, Zenon
    <2> QED
      BY <1>0, <1>14, <2>2 DEF PopReturn, Return, Move
  <1> QED
    BY <1>1, <1>2, <1>3, <1>4, <1>5, <1>6, <1>7, <1>8, <1>9, <1>10, <1>11, <1>12, <1>13,
       <1>14 DEF Next, Push, Pop

\* The node on top is s[d], and below it is what its next says.
LEMMA TopNode ==
  ASSUME TypeOK, NEW d, NEW s, Linked(d, s), top.ptr # Null
  PROVE  /\ d \in 1..d /\ s[d] = top.ptr /\ top.ptr \in Nodes
         /\ next[top.ptr] = IF d = 1 THEN Null ELSE s[d - 1]
  BY DEF Linked

\* The node a pop gets was on the stack, in nobody's hands.
LEMMA HandsStep ==
  ASSUME ThreadInv, NEW d, NEW s, StackIs(d, s), [Next]_vars
  PROVE  HandsApart'
  <1> USE ConstantsAreApart DEF ThreadInv, TypeOK, ClientTypeOK, Places, PushPlaces, ReadPlaces,
        HandsApart, Owns, Pushing, heap, client, versions
  <1>1. ASSUME UNCHANGED vars PROVE HandsApart'
    BY <1>1 DEF vars
  <1>2. ASSUME NEW p \in Producers, CallPush(p) PROVE HandsApart'
    <2>1. PICK n \in Nodes : /\ memory[n] # "live"
                             /\ memory' = [memory EXCEPT ![n] = "live"]
                             /\ node' = [node EXCEPT ![p] = n]
      BY <1>2 DEF CallPush, Make, Allocatable
    <2> QED
      BY <1>2, <2>1 DEF CallPush, Move
  <1>3. ASSUME NEW p \in Producers, PushCombine(p) \/ PushLoad(p) \/ PushLink(p) \/ PushCas(p)
        PROVE  HandsApart'
    BY <1>3 DEF PushCombine, PushLoad, PushLink, PushCas, Move
  <1>4. ASSUME NEW p \in Producers, PushReturn(p) PROVE HandsApart'
    BY <1>4 DEF PushReturn, Return, Move
  <1>5. ASSUME NEW c \in Consumers,
               CallPop(c) \/ PopLoad(c) \/ PopRead(c) \/ PopCombine(c) \/ PopEmpty(c)
        PROVE  HandsApart'
    BY <1>5 DEF CallPop, PopLoad, PopRead, PopCombine, PopEmpty, Return, Move
  <1>6. ASSUME NEW c \in Consumers, PopCas(c) PROVE HandsApart'
    <2>1. CASE TopSwung(c) /\ Move(c, "popCas", "got") /\ node' = [node EXCEPT ![c] = seen[c].ptr]
      <3>1. /\ seen[c].ptr \in Nodes /\ memory[seen[c].ptr] = "live"
            /\ \A t \in Threads : node[t] = seen[c].ptr => pc[t] = "pushed"
        BY <2>1, TopNode DEF StackIs, Stacked, TopSwung, Move
      <3> QED
        BY <1>6, <2>1, <3>1 DEF PopCas, Move
    <2>2. CASE TopKept(c) /\ Move(c, "popCas", "popLoad") /\ UNCHANGED node
      BY <1>6, <2>2 DEF PopCas, Move
    <2> QED
      BY <1>6, <2>1, <2>2 DEF PopCas
  <1>7. ASSUME NEW c \in Consumers, PopReturn(c) PROVE HandsApart'
    BY <1>7 DEF PopReturn, Return, Move, Consume
  <1> QED
    BY <1>1, <1>2, <1>3, <1>4, <1>5, <1>6, <1>7 DEF Next, Push, Pop

\* Nobody else writes the next of a node that is being pushed.
LEMMA ReadyStep ==
  ASSUME ThreadInv, NEW d, NEW s, StackIs(d, s), [Next]_vars
  PROVE  PushReady'
  <1> USE ConstantsAreApart DEF ThreadInv, TypeOK, ClientTypeOK, Places, PushPlaces, ReadPlaces,
        PushReady, Pushing, heap, client, versions
  <1>1. ASSUME UNCHANGED vars PROVE PushReady'
    BY <1>1 DEF vars
  <1>2. ASSUME NEW p \in Producers, CallPush(p) PROVE PushReady'
    <2>1. PICK n \in Nodes : /\ memory[n] # "live"
                             /\ next' = [next EXCEPT ![n] = Null]
                             /\ node' = [node EXCEPT ![p] = n]
      BY <1>2 DEF CallPush, Make, Allocatable
    <2> QED
      BY <1>2, <2>1 DEF CallPush, Move, HandsApart, Owns
  <1>3. ASSUME NEW p \in Producers, PushCombine(p) PROVE PushReady'
    BY <1>3, Combined DEF PushCombine, Move
  <1>4. ASSUME NEW p \in Producers, PushLoad(p) \/ PushCas(p) \/ PushReturn(p) PROVE PushReady'
    BY <1>4 DEF PushLoad, PushCas, PushReturn, Return, Move
  <1>5. ASSUME NEW p \in Producers, PushLink(p) PROVE PushReady'
    BY <1>5 DEF PushLink, Move, HandsApart, Owns, Pointers
  <1>6. ASSUME NEW c \in Consumers,
               CallPop(c) \/ PopLoad(c) \/ PopRead(c) \/ PopCombine(c) \/ PopCas(c)
               \/ PopEmpty(c) \/ PopReturn(c)
        PROVE  PushReady'
    BY <1>6 DEF CallPop, PopLoad, PopRead, PopCombine, PopCas, PopEmpty, PopReturn, Return, Move
  <1> QED
    BY <1>1, <1>2, <1>3, <1>4, <1>5, <1>6 DEF Next, Push, Pop

\* A new number is larger than those whose flags are set.
LEMMA NumbersStep ==
  ASSUME ThreadInv, NEW d, NEW s, StackIs(d, s), [Next]_vars
  PROVE  Numbered' /\ AssertionsHold'
  <1> USE ConstantsAreApart DEF ThreadInv, TypeOK, ClientTypeOK, Numbered, AssertionsHold,
        heap, client, versions
  <1>1. ASSUME UNCHANGED <<memory, data, flags, broken>> PROVE Numbered' /\ AssertionsHold'
    BY <1>1
  <1>2. ASSUME NEW p \in Producers, CallPush(p) PROVE Numbered' /\ AssertionsHold'
    <2>1. PICK n \in Nodes : Make(n)
      BY <1>2 DEF CallPush, Allocatable
    <2>2. count \notin flags
      OBVIOUS
    <2>3. Numbered'
      BY <2>1, <2>2 DEF Make
    <2>4. AssertionsHold'
      BY <2>1, <2>2 DEF Make
    <2> QED
      BY <2>3, <2>4
  <1>3. ASSUME NEW c \in Consumers, PopReturn(c) PROVE Numbered' /\ AssertionsHold'
    <2>1. node[c] \in Nodes /\ memory[node[c]] = "live"
      BY <1>3 DEF PopReturn, Return, Move, HandsApart, Owns, Pointers
    <2> QED
      BY <1>3, <2>1 DEF PopReturn, Consume
  <1> QED
    BY <1>1, <1>2, <1>3
       DEF Next, Push, Pop, PushCombine, PushLoad, PushLink, PushCas, PushReturn, CallPop,
           PopLoad, PopRead, PopCombine, PopCas, PopEmpty, Count, vars

\* A step that leaves the nodes on the stack, _top and their next alone.
LEMMA StackKept ==
  ASSUME NEW d, NEW s, Linked(d, s), UNCHANGED top,
         \A i \in 1..d : next'[s[i]] = next[s[i]]
  PROVE  Linked(d, s)'
  BY DEF Linked

\* The exchanges that succeed.
PushSwing(p) ==
    PushCas(p) /\ TopSwung(p) /\ Move(p, "pushCas", "pushed")
PopSwing(c) ==
    PopCas(c) /\ TopSwung(c) /\ Move(c, "popCas", "got")
    /\ node' = [node EXCEPT ![c] = seen[c].ptr]

\* push puts its node on top.
LEMMA PushStacks ==
  ASSUME ThreadInv, NEW d, NEW s, StackIs(d, s), NEW p \in Producers, PushSwing(p)
  PROVE  \E r : r = [i \in 1..d + 1 |-> IF i = d + 1 THEN node[p] ELSE s[i]]
                /\ StackIs(d + 1, r)'
  <1> USE ConstantsAreApart DEF ThreadInv, TypeOK, ClientTypeOK, Places, PushPlaces, ReadPlaces,
        Pushing, PushSwing, Move
  <1>1. PICK n, r : n = node[p] /\ r = [i \in 1..d + 1 |-> IF i = d + 1 THEN n ELSE s[i]]
    OBVIOUS
  <1>2. d \in Nat /\ s \in [1..d -> Nodes]
    BY DEF StackIs, Linked
  <1>3. n \in Nodes /\ memory[n] = "live" /\ \A i \in 1..d : s[i] # n
    BY <1>1 DEF StackIs, Stacked, HandsApart, Owns, Pointers
  <1>4. top'.ptr = n /\ next[n] = top.ptr
    BY <1>1 DEF TopSwung, PushReady
  <1>5. UNCHANGED <<memory, next, node, seen, new>>
    BY DEF PushCas, heap
  <1>6. d + 1 \in Nat /\ r \in [1..d + 1 -> Nodes]
    BY <1>1, <1>2, <1>3
  <1>7. /\ r[d + 1] = n /\ \A i \in 1..d : r[i] = s[i]
        /\ \A i \in 1..d + 1 : i \in 1..d \/ i = d + 1
    BY <1>1, <1>2
  <1>8. Linked(d + 1, r)'
    <2>1. \A i, j \in 1..d + 1 : r[i] = r[j] => i = j
      <3>1. \A i, j \in 1..d : s[i] = s[j] => i = j
        BY DEF StackIs, Linked
      <3> QED
        BY <1>3, <1>7, <3>1
    <2>2. \A i \in 1..d + 1 : next[r[i]] = IF i = 1 THEN Null ELSE r[i - 1]
      <3> TAKE i \in 1..d + 1
      <3>1. CASE i \in 1..d
        BY <1>2, <1>7, <3>1 DEF StackIs, Linked
      <3>2. CASE i = d + 1
        <4>1. d # 0 => d \in 1..d /\ r[d] = s[d]
          BY <1>2, <1>7
        <4>2. next[r[i]] = IF d = 0 THEN Null ELSE s[d]
          BY <1>4, <1>7, <3>2 DEF StackIs, Linked
        <4> QED
          BY <1>2, <3>2, <4>1, <4>2
      <3> QED
        BY <1>7, <3>1, <3>2
    <2> QED
      BY <1>2, <1>4, <1>5, <1>6, <1>7, <2>1, <2>2 DEF Linked
  <1>9. Stacked(d + 1, r)'
    BY <1>1, <1>3, <1>5, <1>7 DEF StackIs, Stacked, HandsApart, Owns
  <1>10. SeenRight(d + 1, r)'
    <2>1. \A c \in Consumers : pc[c] \in ReadPlaces => seen[c].ptr # n
      BY <1>1 DEF StackIs, SeenRight
    <2>2. \A c \in Consumers : pc'[c] \in ReadPlaces => pc[c] = pc'[c]
      OBVIOUS
    <2>3. \A t \in Threads : Pushing(t)' => Pushing(t)
      OBVIOUS
    <2>4. SeenRight(d, s)
      BY DEF StackIs
    <2> HIDE DEF Pushing
    <2>5. ASSUME NEW c \in Consumers, pc[c] \in ReadPlaces
          PROVE  /\ Reuse => \E i \in 1..d + 1 : seen[c].ptr = r[i]
                 /\ \A i \in 1..d + 1 :
                       seen[c].ptr = r[i] /\ pc[c] # "popRead" => new[c].ptr = next[r[i]]
      <3>1. \A i \in 1..d : i \in 1..d + 1
        BY <1>2
      <3> QED
        BY <1>7, <2>1, <2>4, <2>5, <3>1 DEF SeenRight
    <2> QED
      BY <1>5, <2>2, <2>3, <2>4, <2>5 DEF SeenRight
  <1> QED
    BY <1>1, <1>8, <1>9, <1>10 DEF StackIs

\* pop takes the node on top.
LEMMA PopUnstacks ==
  ASSUME AbaHarmless, ThreadInv, NEW d, NEW s, StackIs(d, s), NEW c \in Consumers, PopSwing(c)
  PROVE  /\ d \in 1..d /\ node'[c] = s[d]
         /\ StackIs(d - 1, [i \in 1..d - 1 |-> s[i]])'
  <1> USE ConstantsAreApart DEF ThreadInv, TypeOK, ClientTypeOK, Places, PushPlaces, ReadPlaces,
        Pushing, PopSwing, Move
  <1> DEFINE r == [i \in 1..d - 1 |-> s[i]]
  <1>1. d \in Nat /\ s \in [1..d -> Nodes]
    BY DEF StackIs, Linked
  <1>2. /\ d \in 1..d /\ seen[c].ptr = s[d] /\ seen[c].ptr # Null
        /\ top'.ptr = IF d = 1 THEN Null ELSE s[d - 1]
    BY TopNode DEF TopSwung, StackIs, SeenRight
  <1>3. UNCHANGED <<memory, next, seen, new>>
    BY DEF PopCas, heap
  <1>4. d - 1 \in Nat /\ r \in [1..d - 1 -> Nodes]
    BY <1>1, <1>2
  <1>5. \A i \in 1..d - 1 : i \in 1..d /\ i # d /\ r[i] = s[i]
    BY <1>1, <1>2
  <1>6. node'[c] = s[d]
    BY <1>2
  <1> HIDE DEF r
  <1>7. Linked(d - 1, r)'
    <2>1. \A i, j \in 1..d - 1 : r[i] = r[j] => i = j
      BY <1>5 DEF StackIs, Linked
    <2>2. \A i \in 1..d - 1 : next[r[i]] = IF i = 1 THEN Null ELSE r[i - 1]
      BY <1>1, <1>5 DEF StackIs, Linked
    <2>3. top'.ptr = IF d - 1 = 0 THEN Null ELSE r[d - 1]
      BY <1>1, <1>2, <1>5
    <2> QED
      BY <1>3, <1>4, <2>1, <2>2, <2>3 DEF Linked
  <1>8. Stacked(d - 1, r)'
    <2>1. \A i \in 1..d - 1 : s[i] # s[d]
      BY <1>2, <1>5 DEF StackIs, Linked
    <2> QED
      BY <1>2, <1>3, <1>5, <2>1 DEF StackIs, Stacked
  <1>9. SeenRight(d - 1, r)'
    <2>1. ASSUME NEW b \in Consumers, pc'[b] \in ReadPlaces
          PROVE  b # c /\ pc[b] = pc'[b] /\ ~Reuse
      BY <2>1 DEF AbaHarmless
    <2> QED
      BY <1>3, <1>5, <2>1 DEF StackIs, SeenRight
  <1> QED
    BY <1>2, <1>6, <1>7, <1>8, <1>9 DEF StackIs, r

\* No other step changes what is on the stack.
LEMMA StackStays ==
  ASSUME AbaHarmless, ThreadInv, NEW d, NEW s, StackIs(d, s), [Next]_vars,
         \A p \in Producers : ~PushSwing(p), \A c \in Consumers : ~PopSwing(c)
  PROVE  StackIs(d, s)'
  <1> USE ConstantsAreApart DEF ThreadInv, TypeOK, ClientTypeOK, Places, PushPlaces, ReadPlaces,
        Pushing, heap, client, versions
  <1>0. d \in Nat /\ s \in [1..d -> Nodes]
    BY DEF StackIs, Linked
  <1>1. ASSUME UNCHANGED vars PROVE StackIs(d, s)'
    BY <1>1 DEF vars, StackIs, Linked, Stacked, SeenRight
  <1>2. ASSUME NEW p \in Producers, CallPush(p) PROVE StackIs(d, s)'
    <2>1. PICK n \in Nodes : /\ memory[n] # "live" /\ (memory[n] = "fresh" \/ Reuse)
                             /\ memory' = [memory EXCEPT ![n] = "live"]
                             /\ next' = [next EXCEPT ![n] = Null]
                             /\ node' = [node EXCEPT ![p] = n]
      BY <1>2 DEF CallPush, Make, Allocatable
    <2>2. \A i \in 1..d : s[i] # n
      BY <2>1 DEF StackIs, Stacked
    <2>3. Linked(d, s)'
      BY <1>0, <1>2, <2>1, <2>2, StackKept DEF StackIs, CallPush
    <2>4. Stacked(d, s)'
      BY <1>0, <1>2, <2>1, <2>2 DEF StackIs, Stacked, CallPush, Move
    <2>5. SeenRight(d, s)'
      BY <1>0, <1>2, <2>1, <2>2 DEF StackIs, SeenRight, Stacked, CallPush, Move
    <2> QED
      BY <2>3, <2>4, <2>5 DEF StackIs
  <1>3. ASSUME NEW p \in Producers, PushCombine(p) \/ PushLoad(p) PROVE StackIs(d, s)'
    <2>1. Linked(d, s)' /\ Stacked(d, s)'
      BY <1>3 DEF PushCombine, PushLoad, Move, StackIs, Linked, Stacked
    <2>2. SeenRight(d, s)'
      BY <1>3 DEF PushCombine, PushLoad, Move, StackIs, SeenRight
    <2> QED
      BY <2>1, <2>2 DEF StackIs
  <1>4. ASSUME NEW p \in Producers, PushLink(p) PROVE StackIs(d, s)'
    <2>1. \A i \in 1..d : s[i] # node[p]
      BY <1>4 DEF PushLink, Move, StackIs, Stacked
    <2>2. Linked(d, s)'
      BY <1>0, <1>4, <2>1, StackKept DEF StackIs, PushLink
    <2> QED
      BY <1>0, <1>4, <2>1, <2>2 DEF PushLink, Move, StackIs, Stacked, SeenRight
  <1>5. ASSUME NEW p \in Producers, PushCas(p) PROVE StackIs(d, s)'
    <2>1. TopKept(p) /\ Move(p, "pushCas", "pushLoad")
      BY <1>5 DEF PushCas, PushSwing
    <2> QED
      BY <1>5, <2>1 DEF PushCas, TopKept, Move, StackIs, Linked, Stacked, SeenRight
  <1>6. ASSUME NEW p \in Producers, PushReturn(p) PROVE StackIs(d, s)'
    BY <1>6 DEF PushReturn, Return, Move, StackIs, Linked, Stacked, SeenRight
  <1>7. ASSUME NEW c \in Consumers, CallPop(c) PROVE StackIs(d, s)'
    BY <1>7 DEF CallPop, Move, StackIs, Linked, Stacked, SeenRight
  <1>8. ASSUME NEW c \in Consumers, PopLoad(c) PROVE StackIs(d, s)'
    <2>1. top.ptr # Null => /\ d \in 1..d /\ top.ptr = s[d] /\ memory[top.ptr] = "live"
                            /\ \A t \in Threads : Pushing(t) => node[t] # top.ptr
      <3>1. ASSUME top.ptr # Null PROVE d \in 1..d /\ top.ptr = s[d]
        BY <3>1, TopNode DEF StackIs
      <3> QED
        BY <3>1 DEF StackIs, Stacked
    <2>2. Linked(d, s)' /\ Stacked(d, s)'
      BY <1>8 DEF PopLoad, Move, StackIs, Linked, Stacked
    <2>3. SeenRight(d, s)'
      BY <1>0, <1>8, <2>1 DEF PopLoad, Move, StackIs, SeenRight
    <2> QED
      BY <2>2, <2>3 DEF StackIs
  <1>9. ASSUME NEW c \in Consumers, PopRead(c) PROVE StackIs(d, s)'
    <2>1. Linked(d, s)' /\ Stacked(d, s)'
      BY <1>9 DEF PopRead, Move, StackIs, Linked, Stacked
    <2>2. ASSUME NEW i \in 1..d, seen[c].ptr = s[i] PROVE new'[c].ptr = next[s[i]]
      BY <1>9, <2>2 DEF PopRead, StackIs, Stacked, Combine
    <2>3. SeenRight(d, s)'
      BY <1>9, <2>2 DEF PopRead, Move, StackIs, SeenRight
    <2> QED
      BY <2>1, <2>3 DEF StackIs
  <1>10. ASSUME NEW c \in Consumers, PopCombine(c) PROVE StackIs(d, s)'
    BY <1>10 DEF PopCombine, Combine, Move, StackIs, Linked, Stacked, SeenRight
  <1>11. ASSUME NEW c \in Consumers, PopCas(c) PROVE StackIs(d, s)'
    <2>1. TopKept(c) /\ Move(c, "popCas", "popLoad") /\ UNCHANGED node
      BY <1>11 DEF PopCas, PopSwing
    <2> QED
      BY <1>11, <2>1 DEF PopCas, TopKept, Move, StackIs, Linked, Stacked, SeenRight
  <1>12. ASSUME NEW c \in Consumers, PopEmpty(c) PROVE StackIs(d, s)'
    BY <1>12 DEF PopEmpty, Return, Move, StackIs, Linked, Stacked, SeenRight
  <1>13. ASSUME NEW c \in Consumers, PopReturn(c) PROVE StackIs(d, s)'
    <2>1. node[c] \in Nodes /\ \A i \in 1..d : s[i] # node[c]
      BY <1>13 DEF PopReturn, Return, Move, StackIs, Stacked, Pointers
    <2> QED
      BY <1>0, <1>13, <2>1
         DEF PopReturn, Return, Consume, Move, StackIs, Linked, Stacked, SeenRight
  <1> QED
    BY <1>1, <1>2, <1>3, <1>4, <1>5, <1>6, <1>7, <1>8, <1>9, <1>10, <1>11, <1>12, <1>13
       DEF Next, Push, Pop

\* At first the stack is empty.
LEMMA InitIInv == Init => IInv
  <1> SUFFICES ASSUME Init PROVE IInv
    OBVIOUS
  <1> USE ConstantsAreApart DEF Init, ClientInit, NullWord, Words, Pointers
  <1>1. TypeOK
    <2>1. memory \in [Nodes -> {"fresh", "live", "deleted"}] /\ broken \in BOOLEAN
      BY Zenon
    <2>2. data \in [Nodes -> Nat] /\ count \in Nat \ {0} /\ flags \subseteq 1..count - 1
          /\ done \in [Threads -> Nat] /\ spurious \in 0..MaxSpurious
      OBVIOUS
    <2>3. ClientTypeOK
      BY <2>1, <2>2, Zenon DEF ClientTypeOK
    <2> QED
      BY <2>3 DEF TypeOK, PushPlaces, ReadPlaces
  <1>2. Places /\ HandsApart /\ PushReady /\ Numbered /\ AssertionsHold
    BY DEF Places, HandsApart, PushReady, Numbered, AssertionsHold, Owns, Pushing, PushPlaces,
           ReadPlaces
  <1>3. StackIs(0, [i \in 1..0 |-> Null])
    BY DEF StackIs, Linked, Stacked, SeenRight, ReadPlaces
  <1> QED
    BY <1>1, <1>2, <1>3 DEF IInv, ThreadInv

\* Every step keeps the invariant.
LEMMA NextIInv == AbaHarmless /\ IInv /\ [Next]_vars => IInv'
  <1> SUFFICES ASSUME AbaHarmless, ThreadInv, NEW d, NEW s, StackIs(d, s), [Next]_vars
               PROVE  IInv'
    BY DEF IInv
  <1>1. ThreadInv'
    BY TypeStep, HandsStep, ReadyStep, NumbersStep DEF ThreadInv
  <1>2. \E e, r : StackIs(e, r)'
    <2>1. CASE \E p \in Producers : PushSwing(p)
      BY <2>1, PushStacks
    <2>2. CASE \E c \in Consumers : PopSwing(c)
      BY <2>2, PopUnstacks
    <2> QED
      BY <2>1, <2>2, StackStays
  <1> QED
    BY <1>1, <1>2 DEF IInv

\* The inductive invariant holds in every reachable state.
THEOREM Safety == ASSUME AbaHarmless PROVE Spec => []IInv
  BY InitIInv, NextIInv, PTL DEF Spec

\* The state has its type, and no null pointer is dereferenced (push and pop of
\* lockfree_stack.h).
THEOREM TypeCorrect == ASSUME AbaHarmless PROVE Spec => []TypeOK
  <1>1. IInv => TypeOK
    BY DEF IInv, ThreadInv
  <1> QED
    BY <1>1, Safety, PTL

-----------------------------------------------------------------------------
\* The order of the naturals, as a relation.
Less == {ij \in Nat \X Nat : ij[1] < ij[2]}

\* A set of naturals has a least element.
LEMMA LeastNatural ==
  ASSUME NEW S \in SUBSET Nat, S # {}
  PROVE  \E k \in S : \A j \in S : ~(j < k)
  <1>1. OpToRel(<, Nat) = Less
    BY Zenon DEF OpToRel, Less
  <1>2. IsWellFoundedOn(Less, Nat)
    BY <1>1, NatLessThanWellFounded, Zenon
  <1>3. PICK k \in S : \A j \in S : <<j, k>> \notin Less
    BY <1>2, WFMin
  <1>4. ASSUME NEW j \in S, j < k PROVE FALSE
    <2>1. <<j, k>> \in Nat \X Nat
      OBVIOUS
    <2>2. <<j, k>> \in Less
      BY <1>4, <2>1 DEF Less
    <2> QED
      BY <1>3, <2>2
  <1> QED
    BY <1>3, <1>4

\* The definition of Walk.
WalkEq(f) ==
    f = [k \in 0..Cardinality(Nodes) |->
            IF k = 0 THEN top.ptr ELSE IF f[k - 1] = Null THEN Null ELSE next[f[k - 1]]]

\* There are finitely many nodes.
LEMMA NodesAreCounted == IsFiniteSet(Nodes) /\ Cardinality(Nodes) \in Nat
  BY ClientAssumption, FS_CardinalityType

\* There is one function that follows next.
LEMMA OneWalk ==
  ASSUME NEW f, NEW g, WalkEq(f), WalkEq(g)
  PROVE  f = g
  <1> DEFINE N == Cardinality(Nodes)
             D == {k \in 0..N : f[k] # g[k]}
  <1>1. N \in Nat
    BY NodesAreCounted
  <1> HIDE DEF N
  <1>2. /\ f = [k \in 0..N |-> IF k = 0 THEN top.ptr
                               ELSE IF f[k - 1] = Null THEN Null ELSE next[f[k - 1]]]
        /\ g = [k \in 0..N |-> IF k = 0 THEN top.ptr
                               ELSE IF g[k - 1] = Null THEN Null ELSE next[g[k - 1]]]
    BY DEF WalkEq, N
  <1>3. ASSUME D # {} PROVE FALSE
    <2>0. D \in SUBSET Nat
      BY <1>1
    <2>1. PICK k \in D : \A j \in D : ~(j < k)
      <3> HIDE DEF D
      <3> QED
        BY <1>3, <2>0, LeastNatural
    <2>2. k # 0
      BY <1>1, <1>2, <2>1
    <2>3. k - 1 \in 0..N /\ f[k - 1] = g[k - 1]
      BY <1>1, <2>1, <2>2
    <2>4. f[k] = g[k]
      BY <1>1, <1>2, <2>1, <2>2, <2>3
    <2> QED
      BY <2>1, <2>4
  <1>4. \A k \in 0..N : f[k] = g[k]
    BY <1>3
  <1> QED
    BY <1>2, <1>4

\* A stack holds no more nodes than there are.
LEMMA DepthIsBounded ==
  ASSUME NEW d, NEW s, Linked(d, s)
  PROVE  d \in 0..Cardinality(Nodes)
  <1>1. d \in Nat /\ s \in Injection(1..d, Nodes)
    BY DEF Linked, Injection, IsInjective
  <1>2. Cardinality(1..d) <= Cardinality(Nodes)
    BY <1>1, NodesAreCounted, FS_Injection
  <1>3. Cardinality(1..d) = d
    BY <1>1, FS_Interval
  <1> QED
    BY <1>1, <1>2, <1>3, NodesAreCounted

\* Walk meets the nodes of the stack from the top, then Null.
LEMMA WalkMeetsStack ==
  ASSUME NEW d, NEW s, Linked(d, s)
  PROVE  \A k \in 0..Cardinality(Nodes) : Walk[k] = IF k < d THEN s[d - k] ELSE Null
  <1> DEFINE N == Cardinality(Nodes)
             w == [k \in 0..N |-> IF k < d THEN s[d - k] ELSE Null]
  <1>1. N \in Nat /\ d \in Nat /\ s \in [1..d -> Nodes]
    BY NodesAreCounted DEF Linked
  <1>2. WalkEq(w)
    <2>1. ASSUME NEW k \in 0..N
          PROVE  w[k] = IF k = 0 THEN top.ptr
                        ELSE IF w[k - 1] = Null THEN Null ELSE next[w[k - 1]]
      <3>1. CASE k = 0
        BY <1>1, <3>1 DEF Linked
      <3>2. CASE k # 0 /\ ~(k - 1 < d)
        BY <1>1, <3>2
      <3>3. CASE k # 0 /\ k - 1 < d
        <4>1. d - (k - 1) \in 1..d /\ w[k - 1] = s[d - (k - 1)] /\ w[k - 1] # Null
          BY <1>1, <3>3, CombinedAssumption
        <4>2. next[w[k - 1]] = IF d - (k - 1) = 1 THEN Null ELSE s[d - (k - 1) - 1]
          BY <4>1 DEF Linked
        <4>3. d - (k - 1) - 1 = d - k
          BY <1>1
        <4> QED
          BY <1>1, <3>3, <4>1, <4>2, <4>3
      <3> QED
        BY <3>1, <3>2, <3>3
    <2> QED
      BY <2>1 DEF WalkEq
  <1>3. Walk = CHOOSE f : WalkEq(f)
    BY DEF Walk, WalkEq
  <1>4. WalkEq(Walk)
    BY <1>2, <1>3
  <1>5. Walk = w
    BY <1>2, <1>4, OneWalk
  <1> QED
    BY <1>5

\* Chain lists the nodes of the stack from the top.
LEMMA ChainIsStack ==
  ASSUME NEW d, NEW s, Linked(d, s)
  PROVE  Chain = [k \in 1..d |-> s[d - k + 1]]
  <1>1. d \in 0..Cardinality(Nodes) /\ s \in [1..d -> Nodes] /\ Cardinality(Nodes) \in Nat
    BY DepthIsBounded, NodesAreCounted DEF Linked
  <1>2. {k \in 0..Cardinality(Nodes) : Walk[k] # Null} = 0..d - 1
    BY <1>1, WalkMeetsStack, CombinedAssumption
  <1>3. Cardinality(0..d - 1) = d
    BY <1>1, FS_Interval
  <1>4. ASSUME NEW k \in 1..d PROVE Walk[k - 1] = s[d - k + 1]
    <2>1. k - 1 \in 0..Cardinality(Nodes) /\ k - 1 < d /\ d - (k - 1) = d - k + 1
      BY <1>1
    <2> QED
      BY <2>1, WalkMeetsStack
  <1> QED
    BY <1>2, <1>3, <1>4 DEF Chain

\* What the run stack checks: the list from _top ends, and its nodes are live and
\* nobody else's; no assertion of the consumers fails (push and pop of
\* lockfree_stack.h, the consumers of benchmark/main_lockfree.cpp).
THEOREM StackStaysIntact == ASSUME AbaHarmless PROVE Spec => []StackIntact
  <1>1. ASSUME ThreadInv, NEW d, NEW s, StackIs(d, s) PROVE StackIntact
    <2>1. Chain = [k \in 1..d |-> s[d - k + 1]] /\ d \in 0..Cardinality(Nodes)
      BY <1>1, ChainIsStack, DepthIsBounded DEF StackIs
    <2>2. ASSUME NEW n \in {Chain[k] : k \in DOMAIN Chain}
          PROVE  memory[n] = "live" /\ \A t \in Threads : node[t] = n => pc[t] = "pushed"
      <3>1. PICK k \in 1..d : n = s[d - k + 1]
        BY <2>1, <2>2
      <3>2. d - k + 1 \in 1..d
        BY <2>1, NodesAreCounted
      <3> QED
        BY <1>1, <3>1, <3>2 DEF StackIs, Stacked
    <2>3. Walk[Cardinality(Nodes)] = Null
      BY <1>1, <2>1, WalkMeetsStack, NodesAreCounted DEF StackIs
    <2> QED
      BY <1>1, <2>2, <2>3 DEF ThreadInv, StackIntact
  <1>2. IInv => StackIntact
    BY <1>1 DEF IInv
  <1> QED
    BY <1>2, Safety, PTL
-----------------------------------------------------------------------------
(***************************************************************************)
(* Under the same assumption a LockfreeStack implements LinearStack: push  *)
(* and pop are linearizable.  A push takes effect when its exchange        *)
(* succeeds, and so does a pop that gets a node; a pop that gets none      *)
(* takes effect when it loads a null _top.                                 *)
(***************************************************************************)

\* What LinearStack sees of a state.
ItemsSeen   == [k \in DOMAIN Chain |-> data[Chain[k]]]
PhaseSeen   == [t \in Threads |-> Phase(t)]
HandedSeen  == [c \in Consumers |-> IF pc[c] = "got" THEN data[node[c]] ELSE 0]
PushingSeen == [p \in Producers |-> IF pc[p] \in {"idle", "pushed"} THEN 0 ELSE data[node[p]]]

\* The items are the data of the nodes on the stack, from the top.
ItemsAre == \A d, s : Linked(d, s) => ItemsSeen = [k \in 1..d |-> data[s[d - k + 1]]]

\* So they are in every state and in the next one.
LEMMA ItemsAreAlways == ItemsAre /\ ItemsAre'
  <1>1. ItemsAre
    <2> SUFFICES ASSUME NEW d, NEW s, Linked(d, s)
                 PROVE  ItemsSeen = [k \in 1..d |-> data[s[d - k + 1]]]
      BY DEF ItemsAre
    <2>1. Chain = [k \in 1..d |-> s[d - k + 1]]
      BY ChainIsStack
    <2> QED
      BY <2>1 DEF ItemsSeen
  <1> QED
    BY <1>1, PTL

\* The phase a place belongs to.
PhaseAt(place) ==
    IF place = "idle" THEN "idle"
    ELSE IF place \in {"pushed", "empty", "got"} THEN "committed" ELSE "called"

\* A step of thread t moves it from the phase of x to the phase of y.
LEMMA Moves ==
  ASSUME TypeOK, NEW t \in Threads, NEW x, NEW y, Move(t, x, y)
  PROVE  /\ PhaseSeen[t] = PhaseAt(x)
         /\ PhaseSeen' = [PhaseSeen EXCEPT ![t] = PhaseAt(y)]
  BY DEF TypeOK, Move, PhaseSeen, Phase, PhaseAt

\* All that LinearStack sees.
View == <<ItemsSeen, PhaseSeen, HandedSeen, PushingSeen>>

\* A step in which no exchange succeeds, and no live node gets another number,
\* shows the same items.
LEMMA ItemsStay ==
  ASSUME AbaHarmless, ThreadInv, NEW d, NEW s, StackIs(d, s), [Next]_vars,
         \A p \in Producers : ~PushSwing(p), \A c \in Consumers : ~PopSwing(c),
         \A n \in Nodes : memory[n] = "live" => data'[n] = data[n]
  PROVE  ItemsSeen' = ItemsSeen
  <1>1. StackIs(d, s)'
    BY StackStays
  <1>2. ItemsSeen = [k \in 1..d |-> data[s[d - k + 1]]]
    BY ItemsAreAlways DEF ItemsAre, StackIs
  <1>3. ItemsSeen' = [k \in 1..d |-> data'[s[d - k + 1]]]
    BY <1>1, ItemsAreAlways DEF ItemsAre, StackIs
  <1>4. ASSUME NEW k \in 1..d PROVE data'[s[d - k + 1]] = data[s[d - k + 1]]
    <2>1. d \in Nat /\ s \in [1..d -> Nodes]
      BY DEF StackIs, Linked
    <2>2. d - k + 1 \in 1..d
      BY <2>1
    <2> QED
      BY <2>1, <2>2 DEF StackIs, Stacked
  <1> QED
    BY <1>2, <1>3, <1>4

\* Steps a thread takes inside its call, before it commits.
LEMMA InnerSteps ==
  ASSUME AbaHarmless, ThreadInv, NEW d, NEW s, StackIs(d, s), [Next]_vars,
         NEW t \in Threads, NEW x, NEW y, Move(t, x, y), UNCHANGED <<data, node>>,
         x \in {"pushCombine", "pushLoad", "pushLink", "pushCas",
                "popLoad", "popRead", "popCombine", "popCas"},
         y \in {"pushLoad", "pushLink", "pushCas", "popLoad", "popRead", "popCombine", "popCas"},
         \A p \in Producers : ~PushSwing(p), \A c \in Consumers : ~PopSwing(c)
  PROVE  UNCHANGED View
  <1>1. ItemsSeen' = ItemsSeen
    BY ItemsStay
  <1>2. PhaseSeen' = PhaseSeen
    <2>1. PhaseAt(x) = "called" /\ PhaseAt(y) = "called"
      BY DEF PhaseAt
    <2>2. PhaseSeen[t] = "called" /\ PhaseSeen' = [PhaseSeen EXCEPT ![t] = "called"]
      BY <2>1, Moves DEF ThreadInv
    <2> QED
      BY <2>2 DEF PhaseSeen
  <1>3. HandedSeen' = HandedSeen
    BY DEF ThreadInv, TypeOK, Move, HandedSeen
  <1>4. PushingSeen' = PushingSeen
    BY DEF ThreadInv, TypeOK, Move, PushingSeen
  <1> QED
    BY <1>1, <1>2, <1>3, <1>4 DEF View

\* A push is called with a node that nobody else has.
LEMMA CallPushRefines ==
  ASSUME AbaHarmless, ThreadInv, NEW d, NEW s, StackIs(d, s), [Next]_vars,
         NEW p \in Producers, CallPush(p)
  PROVE  Lifo!CallPush(p)
  <1>1. PICK n \in Nodes : /\ memory[n] # "live" /\ node' = [node EXCEPT ![p] = n]
                           /\ data' = [data EXCEPT ![n] = count]
    BY DEF CallPush, Make, Allocatable
  <1>2. p \in Threads /\ Move(p, "idle", "pushCombine")
    BY DEF CallPush, Threads
  <1>3. PhaseSeen[p] = "idle" /\ PhaseSeen' = [PhaseSeen EXCEPT ![p] = "called"]
    BY <1>2, Moves DEF ThreadInv, PhaseAt
  <1>4. ItemsSeen' = ItemsSeen
    <2>1. \A q \in Producers : ~PushSwing(q)
      BY <1>2 DEF ThreadInv, TypeOK, PushSwing, Move
    <2>2. \A c \in Consumers : ~PopSwing(c)
      BY <1>2 DEF ThreadInv, TypeOK, PopSwing, Move
    <2> QED
      BY <1>1, <2>1, <2>2, ItemsStay DEF ThreadInv, TypeOK, ClientTypeOK
  <1>5. HandedSeen' = HandedSeen
    BY <1>1, <1>2, ConstantsAreApart
       DEF ThreadInv, TypeOK, ClientTypeOK, Places, Move, HandsApart, Owns, HandedSeen, Pointers
  <1>6. PushingSeen' = [PushingSeen EXCEPT ![p] = count] /\ count \in Nat
    <2>1. ASSUME NEW q \in Producers, q # p, pc[q] \notin {"idle", "pushed"}
          PROVE  node[q] \in Nodes /\ node[q] # n
      BY <1>1, <2>1, ConstantsAreApart
         DEF ThreadInv, TypeOK, Places, HandsApart, Owns, Pushing, PushPlaces, Pointers
    <2>2. node'[p] = n /\ data'[n] = count /\ pc'[p] = "pushCombine" /\ count \in Nat
      BY <1>1, <1>2, ConstantsAreApart DEF ThreadInv, TypeOK, ClientTypeOK, Move
    <2>3. \A q \in Producers : q # p => pc'[q] = pc[q] /\ node'[q] = node[q]
      BY <1>1, <1>2, ConstantsAreApart DEF ThreadInv, TypeOK, Move
    <2>4. \A m \in Nodes : m # n => data'[m] = data[m]
      BY <1>1 DEF ThreadInv, TypeOK, ClientTypeOK
    <2> QED
      BY <2>1, <2>2, <2>3, <2>4 DEF PushingSeen
  <1>7. PushingSeen'[p] = count
    BY <1>6 DEF PushingSeen
  <1> QED
    BY <1>3, <1>4, <1>5, <1>6, <1>7
       DEF Lifo!CallPush, Lifo!Move, ItemsSeen, PhaseSeen, HandedSeen, PushingSeen

\* What the operators of Sequences make of a function on 1..d.
LEMMA SeqFacts ==
  ASSUME NEW d \in Nat, NEW q \in [1..d -> Nat], NEW x \in Nat
  PROVE  /\ <<x>> \o q = [k \in 1..d + 1 |-> IF k = 1 THEN x ELSE q[k - 1]]
         /\ d # 0 => /\ q # <<>> /\ Head(q) = q[1]
                     /\ Tail(q) = [k \in 1..d - 1 |-> q[k + 1]]
         /\ d = 0 => q = <<>>
  <1>1. q \in Seq(Nat) /\ Len(q) = d
    OBVIOUS
  <1>2. <<x>> \o q = [k \in 1..d + 1 |-> IF k = 1 THEN x ELSE q[k - 1]]
    <2>1. <<x>> \in Seq(Nat) /\ Len(<<x>>) = 1 /\ <<x>>[1] = x
      OBVIOUS
    <2>2. /\ <<x>> \o q \in Seq(Nat) /\ Len(<<x>> \o q) = d + 1
          /\ \A k \in 1..d + 1 : (<<x>> \o q)[k] = IF k <= 1 THEN <<x>>[k] ELSE q[k - 1]
      BY <1>1, <2>1, ConcatProperties
    <2>3. <<x>> \o q \in [1..d + 1 -> Nat]
      BY <2>2, LenProperties
    <2>4. \A k \in 1..d + 1 : (<<x>> \o q)[k] = IF k = 1 THEN x ELSE q[k - 1]
      BY <2>1, <2>2
    <2> QED
      BY <2>3, <2>4
  <1>3. d # 0 => q # <<>> /\ Head(q) = q[1]
    BY <1>1
  <1>4. d # 0 => Tail(q) = [k \in 1..d - 1 |-> q[k + 1]]
    <2> SUFFICES ASSUME d # 0 PROVE Tail(q) = [k \in 1..d - 1 |-> q[k + 1]]
      OBVIOUS
    <2>1. /\ Tail(q) \in Seq(Nat) /\ Len(Tail(q)) = d - 1
          /\ \A k \in 1..d - 1 : Tail(q)[k] = q[k + 1]
      BY <1>1, <1>3, HeadTailProperties
    <2>2. Tail(q) \in [1..d - 1 -> Nat]
      BY <2>1, LenProperties
    <2> QED
      BY <2>1, <2>2
  <1>5. d = 0 => q = <<>>
    BY <1>1
  <1> QED
    BY <1>2, <1>3, <1>4, <1>5

\* A push's exchange puts its item on top.
LEMMA CommitPushRefines ==
  ASSUME ThreadInv, NEW d, NEW s, StackIs(d, s), NEW p \in Producers, PushSwing(p)
  PROVE  Lifo!CommitPush(p)
  <1>1. PICK r : /\ r = [i \in 1..d + 1 |-> IF i = d + 1 THEN node[p] ELSE s[i]]
                 /\ StackIs(d + 1, r)'
    BY PushStacks
  <1>2. /\ p \in Threads /\ Move(p, "pushCas", "pushed")
        /\ UNCHANGED <<data, node>>
    BY DEF PushSwing, PushCas, heap, Threads
  <1>3. PhaseSeen[p] = "called" /\ PhaseSeen' = [PhaseSeen EXCEPT ![p] = "committed"]
    BY <1>2, Moves DEF ThreadInv, PhaseAt
  <1>4. HandedSeen' = HandedSeen
    BY <1>2, ConstantsAreApart DEF ThreadInv, TypeOK, Places, Move, HandedSeen
  <1>5. PushingSeen' = [PushingSeen EXCEPT ![p] = 0] /\ PushingSeen[p] = data[node[p]]
    BY <1>2, ConstantsAreApart DEF ThreadInv, TypeOK, Move, PushingSeen
  <1>6. /\ d \in Nat /\ s \in [1..d -> Nodes] /\ node[p] \in Nodes /\ data \in [Nodes -> Nat]
    BY <1>2 DEF StackIs, Linked, ThreadInv, TypeOK, ClientTypeOK, PushPlaces, Move, Pointers
  <1>7. ItemsSeen = [k \in 1..d |-> data[s[d - k + 1]]]
    BY ItemsAreAlways DEF ItemsAre, StackIs
  <1>8. ItemsSeen' = [k \in 1..d + 1 |-> data[r[d + 1 - k + 1]]]
    <2>1. PICK e : e = d + 1 /\ Linked(e, r)'
      BY <1>1 DEF StackIs
    <2>2. ItemsSeen' = [k \in 1..e |-> data'[r[e - k + 1]]]
      BY <2>1, ItemsAreAlways DEF ItemsAre
    <2> QED
      BY <1>2, <1>6, <2>1, <2>2
  <1>9. ItemsSeen \in [1..d -> Nat] /\ data[node[p]] \in Nat
    <2>1. \A k \in 1..d : d - k + 1 \in 1..d
      BY <1>6
    <2> QED
      BY <1>6, <1>7, <2>1
  <1>10. ItemsSeen' = [k \in 1..d + 1 |-> IF k = 1 THEN data[node[p]] ELSE ItemsSeen[k - 1]]
    <2>1. ASSUME NEW k \in 1..d + 1
          PROVE  data[r[d + 1 - k + 1]] = IF k = 1 THEN data[node[p]] ELSE ItemsSeen[k - 1]
      <3>1. CASE k = 1
        BY <1>1, <1>6, <3>1
      <3>2. CASE k # 1
        <4>1. k - 1 \in 1..d /\ d + 1 - k + 1 \in 1..d /\ d - (k - 1) + 1 = d + 1 - k + 1
          BY <1>6, <3>2
        <4>2. r[d + 1 - k + 1] = s[d + 1 - k + 1]
          BY <1>1, <1>6, <4>1
        <4> QED
          BY <1>7, <3>2, <4>1, <4>2
      <3> QED
        BY <3>1, <3>2
    <2> QED
      BY <1>8, <2>1
  <1>11. ItemsSeen' = <<data[node[p]]>> \o ItemsSeen
    BY <1>6, <1>9, <1>10, SeqFacts
  <1> QED
    BY <1>3, <1>4, <1>5, <1>11
       DEF Lifo!CommitPush, Lifo!Move, ItemsSeen, PhaseSeen, HandedSeen, PushingSeen

\* A pop's exchange takes the item on top.
LEMMA CommitPopRefines ==
  ASSUME AbaHarmless, ThreadInv, NEW d, NEW s, StackIs(d, s), NEW c \in Consumers, PopSwing(c)
  PROVE  Lifo!CommitPop(c)
  <1>1. d \in 1..d /\ node'[c] = s[d] /\ StackIs(d - 1, [i \in 1..d - 1 |-> s[i]])'
    BY PopUnstacks
  <1>2. c \in Threads /\ Move(c, "popCas", "got") /\ UNCHANGED data
        /\ node' = [node EXCEPT ![c] = seen[c].ptr]
    BY DEF PopSwing, PopCas, heap, Threads
  <1>3. PhaseSeen[c] = "called" /\ PhaseSeen' = [PhaseSeen EXCEPT ![c] = "committed"]
    BY <1>2, Moves DEF ThreadInv, PhaseAt
  <1>4. HandedSeen' = [HandedSeen EXCEPT ![c] = data[s[d]]]
    BY <1>1, <1>2, ConstantsAreApart DEF ThreadInv, TypeOK, Move, HandedSeen
  <1>5. PushingSeen' = PushingSeen
    BY <1>2, ConstantsAreApart DEF ThreadInv, TypeOK, Move, PushingSeen
  <1>6. /\ d \in Nat \ {0} /\ s \in [1..d -> Nodes] /\ data \in [Nodes -> Nat]
    BY <1>1 DEF StackIs, Linked, ThreadInv, TypeOK, ClientTypeOK
  <1>7. ItemsSeen = [k \in 1..d |-> data[s[d - k + 1]]]
    BY ItemsAreAlways DEF ItemsAre, StackIs
  <1>8. PICK r : r = [i \in 1..d - 1 |-> s[i]]
    OBVIOUS
  <1>9. ItemsSeen' = [k \in 1..d - 1 |-> data[r[d - 1 - k + 1]]]
    <2>1. PICK e : e = d - 1 /\ Linked(e, r)'
      BY <1>1, <1>8 DEF StackIs
    <2> QED
      BY <1>2, <2>1, ItemsAreAlways DEF ItemsAre
  <1>10. ItemsSeen \in [1..d -> Nat] /\ ItemsSeen[1] = data[s[d]]
    <2>1. \A k \in 1..d : d - k + 1 \in 1..d
      BY <1>6
    <2>2. 1 \in 1..d /\ d - 1 + 1 = d
      BY <1>6
    <2> QED
      BY <1>6, <1>7, <2>1, <2>2
  <1>11. ItemsSeen' = [k \in 1..d - 1 |-> ItemsSeen[k + 1]]
    <2>1. ASSUME NEW k \in 1..d - 1 PROVE data[r[d - 1 - k + 1]] = ItemsSeen[k + 1]
      <3>1. k + 1 \in 1..d /\ d - 1 - k + 1 \in 1..d - 1 /\ d - (k + 1) + 1 = d - 1 - k + 1
        BY <1>6
      <3> QED
        BY <1>7, <1>8, <3>1
    <2> QED
      BY <1>9, <2>1
  <1>12. ItemsSeen # <<>> /\ Head(ItemsSeen) = data[s[d]] /\ ItemsSeen' = Tail(ItemsSeen)
    BY <1>6, <1>10, <1>11, SeqFacts
  <1> QED
    BY <1>3, <1>4, <1>5, <1>12
       DEF Lifo!CommitPop, Lifo!Move, ItemsSeen, PhaseSeen, HandedSeen, PushingSeen

\* A thread that is at none of the exchanges lets none succeed.
LEMMA NoSwing ==
  ASSUME ThreadInv, NEW t \in Threads, NEW x, NEW y, Move(t, x, y), y \notin {"pushed", "got"}
  PROVE  /\ \A p \in Producers : ~PushSwing(p)
         /\ \A c \in Consumers : ~PopSwing(c)
  BY ConstantsAreApart DEF ThreadInv, TypeOK, PushSwing, PopSwing, Move

\* A pop that finds the stack empty.
LEMMA EmptyPopRefines ==
  ASSUME AbaHarmless, ThreadInv, NEW d, NEW s, StackIs(d, s), [Next]_vars,
         NEW c \in Consumers, PopLoad(c), top.ptr = Null
  PROVE  Lifo!CommitPop(c)
  <1>1. c \in Threads /\ Move(c, "popLoad", "empty") /\ UNCHANGED <<data, node>>
    BY DEF PopLoad, heap, Threads
  <1>2. PhaseSeen[c] = "called" /\ PhaseSeen' = [PhaseSeen EXCEPT ![c] = "committed"]
    BY <1>1, Moves DEF ThreadInv, PhaseAt
  <1>3. ItemsSeen' = ItemsSeen
    BY <1>1, NoSwing, ItemsStay
  <1>4. HandedSeen' = HandedSeen
    BY <1>1, ConstantsAreApart DEF ThreadInv, TypeOK, Move, HandedSeen
  <1>5. PushingSeen' = PushingSeen
    BY <1>1, ConstantsAreApart DEF ThreadInv, TypeOK, Move, PushingSeen
  <1>6. d = 0
    BY CombinedAssumption DEF StackIs, Linked
  <1>7. ItemsSeen = [k \in 1..0 |-> data[s[0 - k + 1]]]
    BY <1>6, ItemsAreAlways DEF ItemsAre, StackIs
  <1>8. ItemsSeen \in [1..0 -> Nat]
    BY <1>7
  <1>9. ItemsSeen = <<>>
    BY <1>8, SeqFacts
  <1> QED
    BY <1>2, <1>3, <1>4, <1>5, <1>9
       DEF Lifo!CommitPop, Lifo!Move, ItemsSeen, PhaseSeen, HandedSeen, PushingSeen

\* A pop is called.
LEMMA CallPopRefines ==
  ASSUME AbaHarmless, ThreadInv, NEW d, NEW s, StackIs(d, s), [Next]_vars,
         NEW c \in Consumers, CallPop(c)
  PROVE  Lifo!CallPop(c)
  <1>1. c \in Threads /\ Move(c, "idle", "popLoad") /\ UNCHANGED <<data, node>>
    BY DEF CallPop, heap, Threads
  <1>2. PhaseSeen[c] = "idle" /\ PhaseSeen' = [PhaseSeen EXCEPT ![c] = "called"]
    BY <1>1, Moves DEF ThreadInv, PhaseAt
  <1>3. ItemsSeen' = ItemsSeen
    BY <1>1, NoSwing, ItemsStay
  <1>4. HandedSeen' = HandedSeen
    BY <1>1, ConstantsAreApart DEF ThreadInv, TypeOK, Move, HandedSeen
  <1>5. PushingSeen' = PushingSeen
    BY <1>1, ConstantsAreApart DEF ThreadInv, TypeOK, Move, PushingSeen
  <1> QED
    BY <1>2, <1>3, <1>4, <1>5
       DEF Lifo!CallPop, Lifo!Move, ItemsSeen, PhaseSeen, HandedSeen, PushingSeen

\* A push returns.
LEMMA ReturnPushRefines ==
  ASSUME AbaHarmless, ThreadInv, NEW d, NEW s, StackIs(d, s), [Next]_vars,
         NEW p \in Producers, PushReturn(p)
  PROVE  Lifo!ReturnPush(p)
  <1>1. /\ p \in Threads /\ Move(p, "pushed", "idle") /\ UNCHANGED data
        /\ node' = [node EXCEPT ![p] = Null]
    BY DEF PushReturn, Return, heap, Threads
  <1>2. PhaseSeen[p] = "committed" /\ PhaseSeen' = [PhaseSeen EXCEPT ![p] = "idle"]
    BY <1>1, Moves DEF ThreadInv, PhaseAt
  <1>3. ItemsSeen' = ItemsSeen
    BY <1>1, NoSwing, ItemsStay
  <1>4. HandedSeen' = HandedSeen
    BY <1>1, ConstantsAreApart DEF ThreadInv, TypeOK, Move, HandedSeen
  <1>5. PushingSeen' = PushingSeen
    BY <1>1, ConstantsAreApart DEF ThreadInv, TypeOK, Move, PushingSeen
  <1> QED
    BY <1>2, <1>3, <1>4, <1>5
       DEF Lifo!ReturnPush, Lifo!Move, ItemsSeen, PhaseSeen, HandedSeen, PushingSeen

\* A pop returns, with a node or without.
LEMMA ReturnPopRefines ==
  ASSUME AbaHarmless, ThreadInv, NEW d, NEW s, StackIs(d, s), [Next]_vars,
         NEW c \in Consumers, PopEmpty(c) \/ PopReturn(c)
  PROVE  Lifo!ReturnPop(c)
  <1>1. PICK x \in {"empty", "got"} : /\ c \in Threads /\ Move(c, x, "idle") /\ UNCHANGED data
                                      /\ node' = [node EXCEPT ![c] = Null]
    BY DEF PopEmpty, PopReturn, Return, Consume, heap, Threads
  <1>2. PhaseSeen[c] = "committed" /\ PhaseSeen' = [PhaseSeen EXCEPT ![c] = "idle"]
    BY <1>1, Moves DEF ThreadInv, PhaseAt
  <1>3. ItemsSeen' = ItemsSeen
    BY <1>1, NoSwing, ItemsStay
  <1>4. HandedSeen' = [HandedSeen EXCEPT ![c] = 0]
    BY <1>1, ConstantsAreApart DEF ThreadInv, TypeOK, Move, HandedSeen
  <1>5. PushingSeen' = PushingSeen
    BY <1>1, ConstantsAreApart DEF ThreadInv, TypeOK, Move, PushingSeen
  <1> QED
    BY <1>2, <1>3, <1>4, <1>5
       DEF Lifo!ReturnPop, Lifo!Move, ItemsSeen, PhaseSeen, HandedSeen, PushingSeen

\* Every step is a step of LinearStack or one that it does not see.
LEMMA StepRefines ==
  ASSUME AbaHarmless, ThreadInv, NEW d, NEW s, StackIs(d, s), [Next]_vars
  PROVE  [Lifo!Next]_(Lifo!vars)
  <1> DEFINE Refined == [Lifo!Next]_(Lifo!vars)
  <1> Producers \subseteq Threads /\ Consumers \subseteq Threads
    BY DEF Threads
  <1>0. ASSUME UNCHANGED View PROVE Refined
    BY <1>0 DEF View, Lifo!vars, ItemsSeen, PhaseSeen, HandedSeen, PushingSeen
  <1>1. ASSUME UNCHANGED vars PROVE Refined
    <2>1. ItemsSeen' = ItemsSeen
      <3>1. \A p \in Producers : ~PushSwing(p)
        BY <1>1 DEF vars, PushSwing, Move, ThreadInv, TypeOK
      <3>2. \A c \in Consumers : ~PopSwing(c)
        BY <1>1 DEF vars, PopSwing, Move, ThreadInv, TypeOK
      <3> QED
        BY <1>1, <3>1, <3>2, ItemsStay DEF vars, heap
    <2>2. UNCHANGED <<PhaseSeen, HandedSeen, PushingSeen>>
      BY <1>1 DEF vars, heap, PhaseSeen, Phase, HandedSeen, PushingSeen
    <2> QED
      BY <1>0, <2>1, <2>2 DEF View
  <1>2. ASSUME NEW p \in Producers, Push(p) PROVE Refined
    <2>1. CASE CallPush(p)
      BY <2>1, CallPushRefines DEF Lifo!Next
    <2>2. CASE PushSwing(p)
      BY <2>2, CommitPushRefines DEF Lifo!Next
    <2>3. CASE PushReturn(p)
      BY <2>3, ReturnPushRefines DEF Lifo!Next
    <2>4. CASE PushCombine(p)
      <3>1. Move(p, "pushCombine", "pushLoad") /\ UNCHANGED <<data, node>>
        BY <2>4 DEF PushCombine, heap
      <3> QED
        BY <1>0, <3>1, NoSwing, InnerSteps
    <2>5. CASE PushLoad(p)
      <3>1. Move(p, "pushLoad", "pushLink") /\ UNCHANGED <<data, node>>
        BY <2>5 DEF PushLoad, heap
      <3> QED
        BY <1>0, <3>1, NoSwing, InnerSteps
    <2>6. CASE PushLink(p)
      <3>1. Move(p, "pushLink", "pushCas") /\ UNCHANGED <<data, node>>
        BY <2>6 DEF PushLink, heap
      <3> QED
        BY <1>0, <3>1, NoSwing, InnerSteps
    <2>7. CASE PushCas(p) /\ ~PushSwing(p)
      <3>1. Move(p, "pushCas", "pushLoad") /\ UNCHANGED <<data, node>>
        BY <2>7 DEF PushCas, PushSwing, heap
      <3> QED
        BY <1>0, <3>1, NoSwing, InnerSteps
    <2> QED
      BY <1>2, <2>1, <2>2, <2>3, <2>4, <2>5, <2>6, <2>7 DEF Push
  <1>3. ASSUME NEW c \in Consumers, Pop(c) PROVE Refined
    <2>1. CASE CallPop(c)
      BY <2>1, CallPopRefines DEF Lifo!Next
    <2>2. CASE PopLoad(c) /\ top.ptr = Null
      BY <2>2, EmptyPopRefines DEF Lifo!Next
    <2>3. CASE PopSwing(c)
      BY <2>3, CommitPopRefines DEF Lifo!Next
    <2>4. CASE PopEmpty(c) \/ PopReturn(c)
      BY <2>4, ReturnPopRefines DEF Lifo!Next
    <2>5. CASE PopLoad(c) /\ top.ptr # Null
      <3>1. Move(c, "popLoad", "popRead") /\ UNCHANGED <<data, node>>
        BY <2>5 DEF PopLoad, heap
      <3> QED
        BY <1>0, <3>1, NoSwing, InnerSteps
    <2>6. CASE PopRead(c)
      <3>1. Move(c, "popRead", "popCombine") /\ UNCHANGED <<data, node>>
        BY <2>6 DEF PopRead, heap
      <3> QED
        BY <1>0, <3>1, NoSwing, InnerSteps
    <2>7. CASE PopCombine(c)
      <3>1. Move(c, "popCombine", "popCas") /\ UNCHANGED <<data, node>>
        BY <2>7 DEF PopCombine, heap
      <3> QED
        BY <1>0, <3>1, NoSwing, InnerSteps
    <2>8. CASE PopCas(c) /\ ~PopSwing(c)
      <3>1. Move(c, "popCas", "popLoad") /\ UNCHANGED <<data, node>>
        BY <2>8 DEF PopCas, PopSwing, heap
      <3> QED
        BY <1>0, <3>1, NoSwing, InnerSteps
    <2> QED
      BY <1>3, <2>1, <2>2, <2>3, <2>4, <2>5, <2>6, <2>7, <2>8 DEF Pop
  <1> QED
    BY <1>1, <1>2, <1>3 DEF Next

\* The empty stack has no items.
LEMMA InitRefines == Init => Lifo!Init
  <1> SUFFICES ASSUME Init PROVE Lifo!Init
    OBVIOUS
  <1>1. PICK d, s : Linked(d, s)
    BY InitIInv DEF IInv, StackIs
  <1>2. d = 0
    BY <1>1, CombinedAssumption DEF Linked, Init, NullWord
  <1>3. ItemsSeen = [k \in 1..0 |-> data[s[0 - k + 1]]]
    BY <1>1, <1>2, ItemsAreAlways DEF ItemsAre
  <1>4. ItemsSeen \in [1..0 -> Nat]
    BY <1>3
  <1>5. ItemsSeen = <<>>
    BY <1>4, SeqFacts
  <1>6. /\ PhaseSeen = [t \in Threads |-> "idle"] /\ HandedSeen = [c \in Consumers |-> 0]
        /\ PushingSeen = [p \in Producers |-> 0]
    BY ConstantsAreApart DEF Init, PhaseSeen, Phase, HandedSeen, PushingSeen
  <1> QED
    BY <1>5, <1>6 DEF Lifo!Init, ItemsSeen, PhaseSeen, HandedSeen, PushingSeen, Threads

\* push and pop of lockfree_stack.h are linearizable operations on a stack.
THEOREM Linearizable == ASSUME AbaHarmless PROVE Spec => LifoSpec
  <1>1. IInv /\ [Next]_vars => [Lifo!Next]_(Lifo!vars)
    BY StepRefines DEF IInv
  <1> QED
    BY <1>1, InitRefines, Safety, PTL DEF Spec, LifoSpec, Lifo!Spec
=============================================================================
