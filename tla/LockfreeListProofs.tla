-------------------------- MODULE LockfreeListProofs --------------------------
(***************************************************************************)
(* LockfreeList for any number of consumers, nodes, items and failures:    *)
(* the list stays intact, and put and take are linearizable.  It is not so *)
(* for all threads.  With two producers and a consumer, put may link its   *)
(* node to one that take has returned meanwhile, and the node is lost: the *)
(* run list_lost.  Harmless says which threads do no such harm.            *)
(*                                                                         *)
(* The inductive invariant numbers the nodes in the order in which they    *)
(* were linked: s[h] is the dummy, s[d] the last, and _tail points to s[t].*)
(* Words read a while ago are right, or their exchange will fail.          *)
(***************************************************************************)
EXTENDS LockfreeList, WellFoundedInduction, FiniteSetTheorems, SequenceTheorems, TLAPS

OneProducer == \A p, q \in Producers : p = q

\* What keeps a put from linking its node to one that has left the list: nobody
\* else puts, or nobody takes.  And what keeps a word of _head that a take has
\* read from being right by accident: a node that was taken does not return, or
\* nobody else takes.
Harmless ==
    /\ OneProducer \/ Consumers = {}
    /\ ~Reuse \/ \A c, d \in Consumers : c = d

\* Producers put, consumers take.
Places ==
    /\ \A p \in Producers : pc[p] \in PutPlaces \cup {"idle"}
    /\ \A c \in Consumers : pc[c] \in TakePlaces \cup {"idle"}

\* Thread t's node is not linked yet, or has been taken out: t has it for itself.
Unlinked(t) == pc[t] \in {"putLoad", "putNext", "putHelp", "putLink"}
Holding(t)  == pc[t] \in {"takeStore", "taken"}
Owns(t)     == Unlinked(t) \/ Holding(t)

\* Thread t has linked its node.
Linking(t)  == pc[t] \in {"putSwing", "put"}

\* Where put knows a word of _tail, and take one of _head.
TailKnown(t) == pc[t] \in {"putNext", "putHelp", "putLink", "putSwing"}
HeadKnown(t) == pc[t] \in {"takeTail", "takeNext", "takeCheck", "takeHelp", "takeCopy", "takeCas"}

\* Nobody shares a node, and one's node is live.
HandsApart ==
    /\ \A t \in Threads : Owns(t) => node[t] \in Nodes /\ memory[node[t]] = "live"
    /\ \A t, u \in Threads : Owns(t) /\ Owns(u) /\ node[t] = node[u] => t = u
    /\ \A t \in Threads : ~Owns(t) /\ ~Linking(t) => node[t] = Null
    /\ \A t \in Threads : Linking(t) => node[t] \in Nodes
    /\ \A t \in Threads : TailKnown(t) => seenTail[t].ptr \in Nodes
    /\ \A t \in Threads : HeadKnown(t) => seenHead[t].ptr \in Nodes

\* A node that is not linked yet has no next.
Ending == \A p \in Producers : Unlinked(p) => next[node[p]] = Null

\* The nodes whose number nobody has got yet: all but the dummy and those taken.
Carries(n) ==
    /\ memory[n] = "live" /\ n # head.ptr
    /\ \A c \in Consumers : Holding(c) => node[c] # n

\* Every number that a node carries or a consumer has got is its own, and its
\* flag is set.
Numbered ==
    /\ \A n \in Nodes : Carries(n) => data[n] \in flags
    /\ \A m, n \in Nodes : Carries(m) /\ Carries(n) /\ data[m] = data[n] => m = n
    /\ \A c \in Consumers : Holding(c) => copied[c] \in flags
    /\ \A b, c \in Consumers : Holding(b) /\ Holding(c) /\ copied[b] = copied[c] => b = c
    /\ \A c \in Consumers, n \in Nodes : Holding(c) /\ Carries(n) => copied[c] # data[n]
    /\ \A c \in Consumers : pc[c] = "taken" => data[node[c]] = copied[c]

\* The list is s[h] to s[d], each linked to the next; _head points to the first,
\* and _tail to s[t].
Linked(h, t, d, s) ==
    /\ h \in Nat /\ d \in Nat /\ t \in h..d
    /\ s \in [h..d -> Nodes]
    /\ \A i, j \in h..d : s[i] = s[j] => i = j
    /\ head.ptr = s[h] /\ tail.ptr = s[t]
    /\ \A i \in h..d : next[s[i]] = IF i = d THEN Null ELSE s[i + 1]

\* The nodes on the list are live and in no thread's hands, and there are no
\* others but those.
Kept(h, d, s) ==
    /\ \A i \in h..d :
          /\ memory[s[i]] = "live"
          /\ \A u \in Threads : node[u] = s[i] => Linking(u)
    /\ \A n \in Nodes : memory[n] = "live" =>
          \/ \E i \in h..d : n = s[i]
          \/ \E u \in Threads : Owns(u) /\ node[u] = n

\* A node that a take has seen at _head is not, and will not be, behind it.
HeadRight(c, h, d, s) ==
    /\ memory[seenHead[c].ptr] # "fresh"
    /\ \A u \in Threads : Unlinked(u) => node[u] # seenHead[c].ptr
    /\ \A i \in h + 1..d : s[i] # seenHead[c].ptr
    /\ Reuse => seenHead[c] = head

HeadSeen(h, d, s) == \A c \in Consumers : HeadKnown(c) => HeadRight(c, h, d, s)

\* If it is still there, what was read of it and of _tail is still right.
NextRight(c, h, t, s) ==
    /\ pc[c] = "takeCheck" =>
          IF seenNext[c] = Null THEN c \in sawEmpty ELSE seenNext[c] = next[s[h]]
    /\ pc[c] \in {"takeHelp", "takeCopy", "takeCas"} => seenNext[c] = next[s[h]]
    /\ pc[c] = "takeCas" => copied[c] = data[seenNext[c]]
    /\ pc[c] \in {"takeNext", "takeCheck"} /\ seenTail[c].ptr # s[h] => t # h
    /\ pc[c] \in {"takeCopy", "takeCas"} => t # h

NextSeen(h, t, s) ==
    \A c \in Consumers : HeadKnown(c) /\ seenHead[c].ptr = s[h] => NextRight(c, h, t, s)

HelpSeen == \A c \in Consumers : pc[c] = "takeHelp" => seenTail[c].ptr = seenHead[c].ptr

\* The consumers in take know when the list is empty.
EmptySeen(h, d) ==
    \A c \in Consumers :
        /\ h = d /\ pc[c] # "idle" /\ ~Holding(c) => c \in sawEmpty
        /\ pc[c] = "empty" => c \in sawEmpty

\* One producer finds _tail at the last node, unless it has just linked another.
OnePut(t, d, s) ==
    OneProducer => \A p \in Producers :
        /\ pc[p] \in {"idle", "putLoad", "put"} => t = d
        /\ pc[p] \in {"putNext", "putLink"} => t = d /\ tail = seenTail[p]
        /\ pc[p] # "putHelp"
        /\ pc[p] = "putSwing" => node[p] = s[d] /\ (t = d \/ (t = d - 1 /\ tail = seenTail[p]))

\* Without consumers what was read of the list stays right.
ManyPut(h, d, s) ==
    Consumers = {} => \A p \in Producers :
        /\ TailKnown(p) => \E i \in h..d : seenTail[p].ptr = s[i]
        /\ pc[p] = "putHelp" => seenNext[p] = next[seenTail[p].ptr]
        /\ pc[p] = "putSwing" => node[p] = next[seenTail[p].ptr]

ListIs(h, t, d, s) ==
    /\ Linked(h, t, d, s) /\ Kept(h, d, s)
    /\ HeadSeen(h, d, s) /\ NextSeen(h, t, s) /\ EmptySeen(h, d)
    /\ OnePut(t, d, s) /\ ManyPut(h, d, s)

\* The inductive invariant, until the destructor has run.
ThreadInv ==
    TypeOK /\ Places /\ HandsApart /\ Ending /\ Numbered /\ HelpSeen /\ AssertionsHold

\* Each flag that is set is that of an item on the list or of a node in hand.
UnlinkedOnes == {p \in Producers : Unlinked(p)}
HoldingOnes  == {c \in Consumers : Holding(c)}

Counted(h, d) ==
    Cardinality(flags) = (d - h) + Cardinality(UnlinkedOnes) + Cardinality(HoldingOnes)

Running ==
    /\ ThreadInv
    /\ \E h, t, d, s : ListIs(h, t, d, s) /\ Counted(h, d)

\* The destructor has deleted all the nodes, and written nothing else.
Destroyed ==
    /\ TypeOK /\ AssertionsHold /\ Finished
    /\ \A n \in Nodes : memory[n] # "live"
    /\ \A u \in Threads : node[u] = Null
    /\ \E h, t, d, s : Linked(h, t, d, s) /\ Counted(h, d)

IInv == Running \/ Destroyed
-----------------------------------------------------------------------------
\* What the constants are assumed to be.
LEMMA ConstantsAreApart ==
  /\ Null \notin Nodes /\ Versions \in Nat \ {0} /\ MaxSpurious \in Nat /\ Dummy \in Nodes
  /\ Threads = Producers \cup Consumers /\ Producers \cap Consumers = {}
  BY CombinedAssumption, ClientAssumption, DummyAssumption DEF Threads

\* combine makes a word, and its counter stays in its range.
LEMMA Combined ==
  ASSUME NEW n \in Pointers, NEW v \in 0..Versions - 1
  PROVE  /\ Combine(n, v) \in Words /\ Combine(n, v).ptr = n
         /\ NextVersion(v) \in 0..Versions - 1
  BY ConstantsAreApart DEF Combine, NextVersion, Words

\* A null word is a word.
LEMMA NullIsAWord == NullWord \in Words /\ 0 \in 0..Versions - 1 /\ Null \in Pointers
  BY ConstantsAreApart DEF NullWord, Words, Pointers

\* Swinging _tail leaves a pointer there.
LEMMA TailSwings ==
  ASSUME tail \in Words, tail.ptr # Null, version \in 0..Versions - 1,
         NEW t, NEW n \in Nodes, SwingTail(t, n)
  PROVE  tail' \in Words /\ tail'.ptr # Null /\ version' \in 0..Versions - 1
  BY Combined, ConstantsAreApart DEF SwingTail, Pointers

\* Whatever is loaded from a node's next field is a pointer.
LEMMA LoadedIsAPointer ==
  ASSUME TypeOK, NEW n \in Nodes
  PROVE  Loaded(n) \subseteq Pointers
  BY DEF TypeOK, Loaded

\* The types, and who is where.
LEMMA TypeStep ==
  ASSUME TypeOK, Places, HandsApart, [Next]_vars
  PROVE  TypeOK' /\ Places'
  <1> USE ConstantsAreApart DEF TypeOK, ClientTypeOK, Places, PutPlaces, TakePlaces,
        heap, client, list, locals
  <1>0. NullWord \in Words /\ 0 \in 0..Versions - 1 /\ Null \in Pointers
    BY NullIsAWord
  <1>1. ASSUME UNCHANGED vars PROVE TypeOK' /\ Places'
    BY <1>1 DEF vars
  <1>2. ASSUME NEW p \in Producers, CallPut(p) PROVE TypeOK' /\ Places'
    <2>1. PICK n \in Nodes : Make(n) /\ node' = [node EXCEPT ![p] = n]
                                  /\ next' = [next EXCEPT ![n] = Null]
      BY <1>2 DEF CallPut, Allocatable
    <2>2. ClientTypeOK'
      <3>1. flags' \subseteq 1..count' - 1
        BY <2>1 DEF Make
      <3>2. broken' \in BOOLEAN
        BY <2>1, Zenon DEF Make
      <3>3. memory' \in [Nodes -> {"fresh", "live", "deleted"}]
        BY <2>1, Zenon DEF Make
      <3>4. data' \in [Nodes -> Nat] /\ count' \in Nat \ {0}
        BY <2>1 DEF Make
      <3>5. done' = done /\ spurious' = spurious
        BY <1>2, <2>1 DEF CallPut, Make
      <3> QED
        BY <3>1, <3>2, <3>3, <3>4, <3>5, Zenon
    <2>3. Places'
      BY <1>2 DEF CallPut, Move
    <2>4. n # Null /\ n \in Pointers
      BY DEF Pointers
    <2> QED
      BY <1>0, <1>2, <2>1, <2>2, <2>3, <2>4 DEF CallPut, Move
  <1>3. ASSUME NEW p \in Producers, PutLoad(p) PROVE TypeOK' /\ Places'
    BY <1>3 DEF PutLoad, Move
  <1>4. ASSUME NEW p \in Producers, PutNext(p) PROVE TypeOK' /\ Places'
    <2>1. PICK n \in Pointers : /\ seenNext' = [seenNext EXCEPT ![p] = n]
                                /\ Move(p, "putNext", IF n = Null THEN "putLink" ELSE "putHelp")
      <3>1. seenTail[p].ptr \in Nodes
        BY <1>4 DEF PutNext, HandsApart, TailKnown
      <3>2. Loaded(seenTail[p].ptr) \subseteq Pointers
        BY <3>1, LoadedIsAPointer
      <3> QED
        BY <1>4, <3>2 DEF PutNext
    <2> QED
      BY <1>4, <2>1 DEF PutNext, Move
  <1>5. ASSUME NEW p \in Producers, PutHelp(p) PROVE TypeOK' /\ Places'
    <2>1. seenNext[p] \in Nodes
      BY <1>5 DEF PutHelp, Move, Pointers
    <2> QED
      BY <1>5, <2>1, TailSwings DEF PutHelp, Move
  <1>6. ASSUME NEW p \in Producers, PutLink(p) PROVE TypeOK' /\ Places'
    <2>1. version' \in 0..Versions - 1
      BY <1>6, Combined, <1>0 DEF PutLink
    <2>2. next' \in [Nodes -> Pointers]
      BY <1>6 DEF PutLink
    <2> QED
      BY <1>6, <2>1, <2>2 DEF PutLink, FailsForNothing, Move
  <1>7. ASSUME NEW p \in Producers, PutSwing(p) PROVE TypeOK' /\ Places'
    <2>1. node[p] \in Nodes
      BY <1>7 DEF PutSwing, Move, HandsApart, Linking
    <2> QED
      BY <1>7, <2>1, TailSwings DEF PutSwing, Move
  <1>8. ASSUME NEW p \in Producers, PutReturn(p) PROVE TypeOK' /\ Places'
    BY <1>0, <1>8 DEF PutReturn, Forget, Count, Move
  <1>9. ASSUME NEW c \in Consumers, CallTake(c) PROVE TypeOK' /\ Places'
    BY <1>9 DEF CallTake, Move
  <1>10. ASSUME NEW c \in Consumers, TakeHead(c) PROVE TypeOK' /\ Places'
    BY <1>10 DEF TakeHead, Move
  <1>11. ASSUME NEW c \in Consumers, TakeTail(c) PROVE TypeOK' /\ Places'
    BY <1>11 DEF TakeTail, Move
  <1>12. ASSUME NEW c \in Consumers, TakeNext(c) PROVE TypeOK' /\ Places'
    <2>1. PICK n \in Pointers : seenNext' = [seenNext EXCEPT ![c] = n]
      <3>1. seenHead[c].ptr \in Nodes
        BY <1>12 DEF TakeNext, Move, HandsApart, HeadKnown
      <3>2. Loaded(seenHead[c].ptr) \subseteq Pointers
        BY <3>1, LoadedIsAPointer
      <3> QED
        BY <1>12, <3>2 DEF TakeNext
    <2> QED
      BY <1>12, <2>1 DEF TakeNext, Move
  <1>13. ASSUME NEW c \in Consumers, TakeCheck(c) PROVE TypeOK' /\ Places'
    BY <1>13 DEF TakeCheck, Move
  <1>14. ASSUME NEW c \in Consumers, TakeHelp(c) PROVE TypeOK' /\ Places'
    <2>1. seenNext[c] \in Nodes
      BY <1>14 DEF TakeHelp, Move, Pointers
    <2> QED
      BY <1>14, <2>1, TailSwings DEF TakeHelp, Move
  <1>15. ASSUME NEW c \in Consumers, TakeCopy(c) PROVE TypeOK' /\ Places'
    <2>1. seenNext[c] \in Nodes
      BY <1>15 DEF TakeCopy, Move, Pointers
    <2>2. PICK d \in Nat : copied' = [copied EXCEPT ![c] = d]
      <3>1. data[seenNext[c]] \in Nat /\ 0..count - 1 \subseteq Nat
        BY <2>1
      <3>2. PICK d \in IF memory[seenNext[c]] = "live" THEN {data[seenNext[c]]} ELSE 0..count - 1 :
               copied' = [copied EXCEPT ![c] = d]
        BY <1>15 DEF TakeCopy
      <3>3. d \in Nat
        BY <3>1, <3>2
      <3> QED
        BY <3>2, <3>3
    <2> QED
      BY <1>15, <2>2 DEF TakeCopy, Move
  <1>16. ASSUME NEW c \in Consumers, TakeCas(c) PROVE TypeOK' /\ Places'
    <2>1. seenNext[c] \in Nodes /\ seenHead[c].ptr \in Nodes /\ pc[c] = "takeCas"
      BY <1>16 DEF TakeCas, Move, Pointers, HandsApart, HeadKnown
    <2>2. Combine(seenNext[c], version) \in Words /\ Combine(seenNext[c], version).ptr # Null
      BY <2>1, Combined DEF Pointers
    <2>3. version' \in 0..Versions - 1
      BY <1>16, Combined, <1>0 DEF TakeCas
    <2>4. head' \in Words /\ head'.ptr # Null
      BY <1>16, <2>2 DEF TakeCas
    <2>5. node' \in [Threads -> Pointers] /\ sawEmpty' \subseteq Consumers
      BY <1>16, <2>1 DEF TakeCas, SeeingEmpty, Pointers
    <2>6. spurious' \in 0..MaxSpurious
      BY <1>16 DEF TakeCas, FailsForNothing
    <2>7. pc' = [pc EXCEPT ![c] = "takeStore"] \/ pc' = [pc EXCEPT ![c] = "takeHead"]
      BY <1>16 DEF TakeCas, Move
    <2> QED
      BY <1>16, <2>3, <2>4, <2>5, <2>6, <2>7 DEF TakeCas
  <1>17. ASSUME NEW c \in Consumers, TakeStore(c) PROVE TypeOK' /\ Places'
    BY <1>0, <1>17 DEF TakeStore, Move
  <1>18. ASSUME NEW c \in Consumers, TakeEmpty(c) PROVE TypeOK' /\ Places'
    BY <1>0, <1>18 DEF TakeEmpty, Forget, Move
  <1>19. ASSUME NEW c \in Consumers, TakeReturn(c) PROVE TypeOK' /\ Places'
    <2>1. node[c] \in Nodes
      BY <1>19 DEF TakeReturn, Move, HandsApart, Owns, Holding
    <2>2. ClientTypeOK'
      <3>1. broken' \in BOOLEAN
        BY <1>19, Zenon DEF TakeReturn, Consume
      <3>2. memory' \in [Nodes -> {"fresh", "live", "deleted"}]
        BY <1>19, Zenon DEF TakeReturn, Consume
      <3>3. flags' \subseteq 1..count' - 1
        BY <1>19 DEF TakeReturn, Consume
      <3>4. done' \in [Threads -> Nat]
        BY <1>19 DEF TakeReturn, Count
      <3>5. data' = data /\ count' = count /\ spurious' = spurious
        BY <1>19 DEF TakeReturn, Consume
      <3> QED
        BY <3>1, <3>2, <3>3, <3>4, <3>5, Zenon
    <2> QED
      BY <1>0, <1>19, <2>2 DEF TakeReturn, Forget, Move
  <1>20. ASSUME Destroy PROVE TypeOK' /\ Places'
    <2>1. memory' \in [Nodes -> {"fresh", "live", "deleted"}]
      BY <1>20, Zenon DEF Destroy
    <2> QED
      BY <1>20, <2>1 DEF Destroy
  <1> QED
    BY <1>1, <1>2, <1>3, <1>4, <1>5, <1>6, <1>7, <1>8, <1>9, <1>10, <1>11, <1>12, <1>13,
       <1>14, <1>15, <1>16, <1>17, <1>18, <1>19, <1>20 DEF Next, Put, Take

\* The node that a take gets was the first on the list, in nobody's hands.
LEMMA TakesFirst ==
  ASSUME NEW h, NEW t, NEW d, NEW s, ListIs(h, t, d, s),
         NEW c \in Consumers, pc[c] = "takeCas", head = seenHead[c]
  PROVE  /\ h \in Nat /\ h \in h..d /\ seenHead[c].ptr = s[h] /\ s[h] \in Nodes
         /\ memory[s[h]] = "live" /\ \A u \in Threads : node[u] = s[h] => Linking(u)
  <1>1. h \in Nat /\ h \in h..d /\ s \in [h..d -> Nodes] /\ head.ptr = s[h]
    BY DEF ListIs, Linked
  <1> QED
    BY <1>1 DEF ListIs, Kept

\* Nobody gets a node that somebody has.
LEMMA HandsStep ==
  ASSUME ThreadInv, NEW h, NEW t, NEW d, NEW s, ListIs(h, t, d, s), [Next]_vars
  PROVE  ~Finished => HandsApart'
  <1> USE ConstantsAreApart DEF ThreadInv, TypeOK, ClientTypeOK, Places, PutPlaces, TakePlaces,
        HandsApart, Owns, Unlinked, Holding, Linking, TailKnown, HeadKnown, heap, client, list,
        locals, Move
  <1>1. ASSUME UNCHANGED vars PROVE HandsApart'
    BY <1>1 DEF vars
  <1>2. ASSUME NEW p \in Producers, CallPut(p) PROVE HandsApart'
    <2>1. PICK n \in Nodes : /\ memory[n] # "live"
                             /\ memory' = [memory EXCEPT ![n] = "live"]
                             /\ node' = [node EXCEPT ![p] = n]
      BY <1>2 DEF CallPut, Make, Allocatable
    <2> QED
      BY <1>2, <2>1 DEF CallPut
  <1>3. ASSUME NEW p \in Producers, PutLoad(p) PROVE HandsApart'
    <2>1. tail.ptr \in Nodes
      BY DEF Words, Pointers
    <2> QED
      BY <1>3, <2>1 DEF PutLoad
  <1>4. ASSUME NEW p \in Producers, PutNext(p) \/ PutHelp(p) \/ PutSwing(p) PROVE HandsApart'
    BY <1>4 DEF PutNext, PutHelp, PutSwing
  <1>5. ASSUME NEW p \in Producers, PutLink(p) PROVE HandsApart'
    BY <1>5 DEF PutLink
  <1>6. ASSUME NEW p \in Producers, PutReturn(p) PROVE HandsApart'
    BY <1>6 DEF PutReturn, Forget
  <1>7. ASSUME NEW c \in Consumers, CallTake(c) \/ TakeTail(c) \/ TakeNext(c) \/ TakeCheck(c)
                                    \/ TakeHelp(c) \/ TakeCopy(c) \/ TakeStore(c)
        PROVE  HandsApart'
    <2>1. CASE CallTake(c)
      BY <2>1 DEF CallTake
    <2>2. CASE TakeTail(c) \/ TakeNext(c)
      BY <2>2 DEF TakeTail, TakeNext
    <2>3. CASE TakeHelp(c) \/ TakeCopy(c) \/ TakeStore(c)
      BY <2>3 DEF TakeHelp, TakeCopy, TakeStore
    <2>4. CASE TakeCheck(c)
      BY <2>4 DEF TakeCheck
    <2> QED
      BY <1>7, <2>1, <2>2, <2>3, <2>4
  <1>8. ASSUME NEW c \in Consumers, TakeHead(c) PROVE HandsApart'
    <2>1. head.ptr \in Nodes
      BY DEF Words, Pointers
    <2> QED
      BY <1>8, <2>1 DEF TakeHead
  <1>9. ASSUME NEW c \in Consumers, TakeCas(c) PROVE HandsApart'
    <2>1. CASE head = seenHead[c] /\ pc' = [pc EXCEPT ![c] = "takeStore"]
                /\ node' = [node EXCEPT ![c] = seenHead[c].ptr]
      <3>1. /\ seenHead[c].ptr \in Nodes /\ memory[seenHead[c].ptr] = "live"
            /\ \A u \in Threads : node[u] = seenHead[c].ptr => Linking(u)
        BY <1>9, <2>1, TakesFirst DEF TakeCas
      <3> QED
        BY <1>9, <2>1, <3>1 DEF TakeCas
    <2>2. CASE pc' = [pc EXCEPT ![c] = "takeHead"] /\ UNCHANGED node
      BY <1>9, <2>2 DEF TakeCas
    <2> QED
      BY <1>9, <2>1, <2>2 DEF TakeCas
  <1>10. ASSUME NEW c \in Consumers, TakeEmpty(c) PROVE HandsApart'
    BY <1>10 DEF TakeEmpty, Forget
  <1>11. ASSUME NEW c \in Consumers, TakeReturn(c) PROVE HandsApart'
    BY <1>11 DEF TakeReturn, Forget, Consume
  <1> QED
    BY <1>1, <1>2, <1>3, <1>4, <1>5, <1>6, <1>7, <1>8, <1>9, <1>10, <1>11
       DEF Next, Put, Take, Destroy

\* Every number is its own.
LEMMA NumbersStep ==
  ASSUME ThreadInv, NEW h, NEW t, NEW d, NEW s, ListIs(h, t, d, s), [Next]_vars
  PROVE  ~Finished => Numbered' /\ AssertionsHold'
  <1> USE ConstantsAreApart DEF ThreadInv, TypeOK, ClientTypeOK, Places, PutPlaces, TakePlaces,
        Numbered, AssertionsHold, Carries, Holding, heap, client, list, locals, Move
  <1>1. ASSUME UNCHANGED <<heap, flags, broken, head, copied>>,
               \A c \in Consumers : /\ Holding(c)' = Holding(c) /\ (pc'[c] = "taken") = (pc[c] = "taken")
                                    /\ Holding(c) => node'[c] = node[c]
        PROVE  Numbered' /\ AssertionsHold'
    BY <1>1
  <1>2. ASSUME NEW p \in Producers, CallPut(p) PROVE Numbered' /\ AssertionsHold'
    <2>1. PICK n \in Nodes : /\ memory[n] # "live" /\ Make(n)
                             /\ node' = [node EXCEPT ![p] = n]
      BY <1>2 DEF CallPut, Allocatable
    <2>2. count \notin flags
      OBVIOUS
    <2>3. \A c \in Consumers : Holding(c) => node[c] # n /\ node'[c] = node[c]
      BY <1>2, <2>1 DEF HandsApart, Owns
    <2>4. Numbered'
      BY <1>2, <2>1, <2>2, <2>3 DEF Make, CallPut
    <2>5. AssertionsHold'
      BY <2>1, <2>2 DEF Make
    <2> QED
      BY <2>4, <2>5
  <1>3. ASSUME NEW c \in Consumers, TakeCopy(c) PROVE Numbered' /\ AssertionsHold'
    BY <1>3 DEF TakeCopy
  <1>4. ASSUME NEW c \in Consumers, TakeCas(c) PROVE Numbered' /\ AssertionsHold'
    <2>1. CASE head = seenHead[c] /\ pc' = [pc EXCEPT ![c] = "takeStore"]
                /\ node' = [node EXCEPT ![c] = seenHead[c].ptr]
                /\ head' = Combine(seenNext[c], version)
      <3> DEFINE x == seenHead[c].ptr
                 y == seenNext[c]
      <3>1. x \in Nodes /\ y \in Nodes /\ x = head.ptr /\ Carries(y) /\ copied[c] = data[y]
            /\ head'.ptr = y
        <4>1. pc[c] = "takeCas" /\ h \in Nat /\ h \in h..d /\ x = s[h]
              /\ s[h] \in Nodes
          BY <1>4, <2>1, TakesFirst DEF TakeCas
        <4>2. y = next[s[h]] /\ copied[c] = data[y] /\ y # Null
          BY <1>4, <4>1 DEF TakeCas, ListIs, NextSeen, NextRight, HeadKnown
        <4>3. h + 1 \in h..d /\ y = s[h + 1] /\ s[h + 1] # s[h] /\ y \in Nodes
          BY <4>1, <4>2 DEF ListIs, Linked
        <4>4. memory[y] = "live" /\ \A u \in Threads : node[u] = y => Linking(u)
          BY <4>3 DEF ListIs, Kept
        <4>5. head.ptr = s[h]
          BY DEF ListIs, Linked
        <4>6. Carries(y)
          BY <4>3, <4>4, <4>5 DEF Linking
        <4> QED
          BY <2>1, <4>1, <4>2, <4>3, <4>5, <4>6 DEF Combine
      <3> HIDE DEF x, y
      <3>2. UNCHANGED <<memory, data, flags, broken, copied>>
        BY <1>4 DEF TakeCas
      <3>3. \A n \in Nodes : Carries(n)' => Carries(n) /\ n # y
        <4>1. ASSUME NEW n \in Nodes, Carries(n)' PROVE Carries(n) /\ n # y
          <5>1. n # x
            BY <2>1, <4>1 DEF x
          <5>2. \A b \in Consumers : Holding(b) => Holding(b)' /\ (b # c => node'[b] = node[b])
            BY <1>4, <2>1 DEF TakeCas
          <5>3. ~Holding(c)
            BY <1>4 DEF TakeCas
          <5> QED
            BY <3>1, <3>2, <4>1, <5>1, <5>2, <5>3
        <4> QED
          BY <4>1
      <3>4. \A b \in Consumers : Holding(b)' => b = c \/ Holding(b)
        BY <2>1
      <3>5. \A b \in Consumers : pc'[b] = "taken" => pc[b] = "taken" /\ node'[b] = node[b]
        BY <2>1
      <3> HIDE DEF Carries, Holding
      <3> QED
        BY <3>1, <3>2, <3>3, <3>4, <3>5
    <2>2. CASE pc' = [pc EXCEPT ![c] = "takeHead"] /\ UNCHANGED <<head, node>>
      BY <1>1, <1>4, <2>2 DEF TakeCas
    <2> QED
      BY <1>4, <2>1, <2>2 DEF TakeCas
  <1>5. ASSUME NEW c \in Consumers, TakeStore(c) PROVE Numbered' /\ AssertionsHold'
    <2>1. node[c] \in Nodes /\ ~Carries(node[c])
      BY <1>5 DEF TakeStore, HandsApart, Owns
    <2>2. \A b \in Consumers : pc[b] = "taken" => node[b] # node[c]
      BY <1>5 DEF TakeStore, HandsApart, Owns
    <2>3. data' = [data EXCEPT ![node[c]] = copied[c]]
      BY <1>5 DEF TakeStore
    <2>4. \A n \in Nodes : Carries(n)' = Carries(n)
      BY <1>5 DEF TakeStore
    <2>5. \A b \in Consumers : Holding(b)' = Holding(b)
      BY <1>5 DEF TakeStore
    <2>6. UNCHANGED <<flags, broken, copied, node>>
      BY <1>5 DEF TakeStore
    <2>7. \A b \in Consumers : pc'[b] = "taken" => pc[b] = "taken" \/ b = c
      BY <1>5 DEF TakeStore
    <2> HIDE DEF Carries, Holding
    <2> QED
      BY <2>1, <2>2, <2>3, <2>4, <2>5, <2>6, <2>7
  <1>6. ASSUME NEW c \in Consumers, TakeReturn(c) PROVE Numbered' /\ AssertionsHold'
    <2>1. /\ node[c] \in Nodes /\ data[node[c]] = copied[c] /\ Holding(c)
          /\ \A b \in Consumers : Holding(b) /\ node[b] = node[c] => b = c
      BY <1>6 DEF TakeReturn, HandsApart, Owns
    <2>2. copied[c] \in flags /\ flags' = flags \ {copied[c]}
      BY <1>6, <2>1 DEF TakeReturn, Consume
    <2>3. AssertionsHold'
      BY <1>6, <2>1, <2>2 DEF TakeReturn, Consume
    <2>4. \A n \in Nodes : Carries(n)' => Carries(n) /\ data'[n] = data[n]
      <3>1. ASSUME NEW n \in Nodes, Carries(n)' PROVE Carries(n)
        <4>1. n # node[c] /\ memory[n] = "live" /\ n # head.ptr
          BY <1>6, <2>1, <3>1 DEF TakeReturn, Consume
        <4>2. ASSUME NEW b \in Consumers, Holding(b) PROVE node[b] # n
          BY <1>6, <3>1, <4>1, <4>2 DEF TakeReturn, Forget
        <4> QED
          BY <4>1, <4>2
      <3> QED
        BY <1>6, <3>1 DEF TakeReturn, Consume
    <2>5. \A b \in Consumers : Holding(b)' => b # c /\ Holding(b) /\ copied'[b] = copied[b]
      BY <1>6 DEF TakeReturn, Forget
    <2>6. \A b \in Consumers : pc'[b] = "taken" => pc[b] = "taken" /\ data'[node'[b]] = data[node[b]]
                                                   /\ copied'[b] = copied[b]
      BY <1>6 DEF TakeReturn, Forget, Consume
    <2> HIDE DEF Carries, Holding
    <2>7. Numbered'
      BY <2>1, <2>2, <2>4, <2>5, <2>6
    <2> QED
      BY <2>3, <2>7
  <1>7. ASSUME NEW c \in Consumers, TakeEmpty(c) PROVE Numbered' /\ AssertionsHold'
    BY <1>7 DEF TakeEmpty, Forget
  <1>8. ASSUME NEW c \in Consumers, CallTake(c) \/ TakeHead(c) \/ TakeTail(c) \/ TakeNext(c)
                                    \/ TakeCheck(c) \/ TakeHelp(c)
        PROVE  Numbered' /\ AssertionsHold'
    BY <1>1, <1>8 DEF CallTake, TakeHead, TakeTail, TakeNext, TakeCheck, TakeHelp
  <1>9. ASSUME NEW p \in Producers, PutLoad(p) \/ PutNext(p) \/ PutHelp(p) \/ PutLink(p) \/ PutSwing(p)
        PROVE  Numbered' /\ AssertionsHold'
    BY <1>1, <1>9 DEF PutLoad, PutNext, PutHelp, PutLink, PutSwing
  <1>10. ASSUME NEW p \in Producers, PutReturn(p) PROVE Numbered' /\ AssertionsHold'
    BY <1>10 DEF PutReturn, Forget
  <1>11. ASSUME UNCHANGED vars PROVE Numbered' /\ AssertionsHold'
    BY <1>1, <1>11 DEF vars
  <1> QED
    BY <1>2, <1>3, <1>4, <1>5, <1>6, <1>7, <1>8, <1>9, <1>10, <1>11 DEF Next, Put, Take, Destroy

-----------------------------------------------------------------------------
\* The order of the naturals, as a relation.
Less == {ij \in Nat \X Nat : ij[1] < ij[2]}

\* A set of naturals has a least element.
LEMMA LeastNatural ==
  ASSUME NEW S \in SUBSET Nat, S # {}
  PROVE  \E k \in S : \A j \in S : ~(j < k)
  <1>1. OpToRel(<, Nat) = Less
    BY Zenon DEF OpToRel, Less
  <1>2. IsWellFoundedOn(Less, Nat)
    BY <1>1, NatLessThanWellFounded, Zenon
  <1>3. PICK k \in S : \A j \in S : <<j, k>> \notin Less
    BY <1>2, WFMin
  <1>4. ASSUME NEW j \in S, j < k PROVE FALSE
    <2>1. <<j, k>> \in Nat \X Nat
      OBVIOUS
    <2>2. <<j, k>> \in Less
      BY <1>4, <2>1 DEF Less
    <2> QED
      BY <1>3, <2>2
  <1> QED
    BY <1>3, <1>4

\* The definition of Walk.
WalkEq(f) ==
    f = [k \in 0..Cardinality(Nodes) |->
            IF k = 0 THEN next[head.ptr] ELSE IF f[k - 1] = Null THEN Null ELSE next[f[k - 1]]]

\* There are finitely many nodes.
LEMMA NodesAreCounted == IsFiniteSet(Nodes) /\ Cardinality(Nodes) \in Nat
  BY ClientAssumption, FS_CardinalityType

\* There is one function that follows next.
LEMMA OneWalk ==
  ASSUME NEW f, NEW g, WalkEq(f), WalkEq(g)
  PROVE  f = g
  <1> DEFINE N == Cardinality(Nodes)
             D == {k \in 0..N : f[k] # g[k]}
  <1>1. N \in Nat
    BY NodesAreCounted
  <1> HIDE DEF N
  <1>2. /\ f = [k \in 0..N |-> IF k = 0 THEN next[head.ptr]
                               ELSE IF f[k - 1] = Null THEN Null ELSE next[f[k - 1]]]
        /\ g = [k \in 0..N |-> IF k = 0 THEN next[head.ptr]
                               ELSE IF g[k - 1] = Null THEN Null ELSE next[g[k - 1]]]
    BY DEF WalkEq, N
  <1>3. ASSUME D # {} PROVE FALSE
    <2>0. D \in SUBSET Nat
      BY <1>1
    <2>1. PICK k \in D : \A j \in D : ~(j < k)
      <3> HIDE DEF D
      <3> QED
        BY <1>3, <2>0, LeastNatural
    <2>2. k # 0
      BY <1>1, <1>2, <2>1
    <2>3. k - 1 \in 0..N /\ f[k - 1] = g[k - 1]
      BY <1>1, <2>1, <2>2
    <2>4. f[k] = g[k]
      BY <1>1, <1>2, <2>1, <2>2, <2>3
    <2> QED
      BY <2>1, <2>4
  <1>4. \A k \in 0..N : f[k] = g[k]
    BY <1>3
  <1> QED
    BY <1>2, <1>4

\* A list has a node that holds no item, and no more nodes than there are.
LEMMA LengthIsBounded ==
  ASSUME NEW h, NEW t, NEW d, NEW s, Linked(h, t, d, s)
  PROVE  d - h \in Nat /\ d - h < Cardinality(Nodes)
  <1>1. h \in Nat /\ d \in Nat /\ h <= d /\ s \in Injection(h..d, Nodes)
    BY DEF Linked, Injection, IsInjective
  <1>2. Cardinality(h..d) <= Cardinality(Nodes)
    BY <1>1, NodesAreCounted, FS_Injection
  <1>3. Cardinality(h..d) = d - h + 1
    BY <1>1, FS_Interval
  <1> QED
    BY <1>1, <1>2, <1>3, NodesAreCounted

\* Walk meets the nodes after the dummy, then Null.
LEMMA WalkMeetsList ==
  ASSUME NEW h, NEW t, NEW d, NEW s, Linked(h, t, d, s)
  PROVE  \A k \in 0..Cardinality(Nodes) : Walk[k] = IF k < d - h THEN s[h + k + 1] ELSE Null
  <1> DEFINE N == Cardinality(Nodes)
             w == [k \in 0..N |-> IF k < d - h THEN s[h + k + 1] ELSE Null]
  <1>1. N \in Nat /\ h \in Nat /\ d \in Nat /\ h <= d /\ s \in [h..d -> Nodes]
    BY NodesAreCounted DEF Linked
  <1>2. WalkEq(w)
    <2>1. ASSUME NEW k \in 0..N
          PROVE  w[k] = IF k = 0 THEN next[head.ptr]
                        ELSE IF w[k - 1] = Null THEN Null ELSE next[w[k - 1]]
      <3>1. CASE k = 0
        <4>1. h \in h..d /\ head.ptr = s[h]
          BY <1>1 DEF Linked
        <4>2. next[head.ptr] = IF h = d THEN Null ELSE s[h + 1]
          BY <4>1 DEF Linked
        <4>3. (0 < d - h <=> h # d) /\ h + 0 + 1 = h + 1 /\ 0 \in 0..N
          BY <1>1
        <4>4. w[0] = IF h # d THEN s[h + 1] ELSE Null
          BY <4>3
        <4> QED
          BY <3>1, <4>2, <4>4
      <3>2. CASE k # 0 /\ ~(k - 1 < d - h)
        BY <1>1, <3>2
      <3>3. CASE k # 0 /\ k - 1 < d - h
        <4>1. h + k \in h..d /\ w[k - 1] = s[h + k] /\ w[k - 1] # Null
          BY <1>1, <3>3, CombinedAssumption
        <4>2. next[w[k - 1]] = IF h + k = d THEN Null ELSE s[h + k + 1]
          BY <4>1 DEF Linked
        <4> QED
          BY <1>1, <3>3, <4>1, <4>2
      <3> QED
        BY <3>1, <3>2, <3>3
    <2> QED
      BY <2>1 DEF WalkEq
  <1>3. Walk = CHOOSE f : WalkEq(f)
    BY DEF Walk, WalkEq
  <1>4. WalkEq(Walk)
    BY <1>2, <1>3
  <1>5. Walk = w
    BY <1>2, <1>4, OneWalk
  <1> QED
    BY <1>5

\* Chain lists the nodes after the dummy.
LEMMA ChainIsList ==
  ASSUME NEW h, NEW t, NEW d, NEW s, Linked(h, t, d, s)
  PROVE  Chain = [k \in 1..d - h |-> s[h + k]]
  <1>1. /\ d - h \in Nat /\ d - h < Cardinality(Nodes) /\ Cardinality(Nodes) \in Nat
        /\ h \in Nat /\ d \in Nat /\ s \in [h..d -> Nodes]
    BY LengthIsBounded, NodesAreCounted DEF Linked
  <1>2. {k \in 0..Cardinality(Nodes) : Walk[k] # Null} = 0..d - h - 1
    BY <1>1, WalkMeetsList, CombinedAssumption
  <1>3. Cardinality(0..d - h - 1) = d - h
    <2>1. PICK l \in Nat : l = d - h
      BY <1>1
    <2>2. Cardinality(0..l - 1) = l
      BY <2>1, FS_Interval
    <2> QED
      BY <2>1, <2>2
  <1>4. ASSUME NEW k \in 1..d - h PROVE Walk[k - 1] = s[h + k]
    <2>1. k - 1 \in 0..Cardinality(Nodes) /\ k - 1 < d - h /\ h + (k - 1) + 1 = h + k
      BY <1>1
    <2> QED
      BY <2>1, WalkMeetsList
  <1> QED
    BY <1>2, <1>3, <1>4 DEF Chain

\* The list's length, and the nodes met from _head on.
LEMMA ChainFacts ==
  ASSUME NEW h, NEW t, NEW d, NEW s, Linked(h, t, d, s)
  PROVE  /\ Len(Chain) = d - h
         /\ Chain = <<>> <=> h = d
         /\ Listed = {s[i] : i \in h..d}
         /\ h # d => Chain[Len(Chain)] = s[d]
  <1>1. /\ d - h \in Nat /\ h \in Nat /\ d \in Nat /\ h <= d /\ s \in [h..d -> Nodes]
        /\ head.ptr = s[h]
    BY LengthIsBounded DEF Linked
  <1>2. Chain = [k \in 1..d - h |-> s[h + k]]
    BY ChainIsList
  <1>3. Chain \in Seq(Nodes) /\ Len(Chain) = d - h
    <2>1. \A k \in 1..d - h : h + k \in h..d
      BY <1>1
    <2>2. Chain \in [1..d - h -> Nodes]
      BY <1>1, <1>2, <2>1
    <2> QED
      BY <1>1, <2>2
  <1>4. Chain = <<>> <=> h = d
    BY <1>1, <1>3
  <1>5. DOMAIN Chain = 1..d - h
    BY <1>2
  <1>6. Listed = {s[i] : i \in h..d}
    <2>1. ASSUME NEW n \in Listed PROVE n \in {s[i] : i \in h..d}
      <3>1. CASE n = head.ptr
        BY <1>1, <3>1
      <3>2. CASE \E k \in 1..d - h : n = Chain[k]
        BY <1>1, <1>2, <3>2
      <3> QED
        BY <1>5, <2>1, <3>1, <3>2 DEF Listed
    <2>2. ASSUME NEW i \in h..d PROVE s[i] \in Listed
      <3>1. CASE i = h
        BY <1>1, <3>1 DEF Listed
      <3>2. CASE i # h
        <4>1. i - h \in 1..d - h /\ h + (i - h) = i
          BY <1>1, <3>2
        <4>2. Chain[i - h] = s[i]
          BY <1>2, <4>1
        <4> QED
          BY <1>5, <4>1, <4>2 DEF Listed
      <3> QED
        BY <3>1, <3>2
    <2> QED
      BY <2>1, <2>2
  <1>7. h # d => Chain[Len(Chain)] = s[d]
    BY <1>1, <1>2, <1>3
  <1> QED
    BY <1>3, <1>4, <1>6, <1>7

-----------------------------------------------------------------------------
\* The exchanges that succeed.
PutLinks(p)  == PutLink(p) /\ pc' = [pc EXCEPT ![p] = "putSwing"]
TakesNode(c) == TakeCas(c) /\ pc' = [pc EXCEPT ![c] = "takeStore"]

\* The node to which put links its own is on the list; if it has no next, it is
\* the last.
LEMMA LastIsListed ==
  ASSUME Harmless, ThreadInv, NEW h, NEW t, NEW d, NEW s, ListIs(h, t, d, s),
         NEW p \in Producers, pc[p] = "putLink"
  PROVE  \E i \in h..d : seenTail[p].ptr = s[i] /\ memory[s[i]] = "live" /\ (next[s[i]] = Null => i = d)
  <1> USE DEF TailKnown
  <1>1. h \in Nat /\ d \in h..d /\ s \in [h..d -> Nodes]
    BY DEF ListIs, Linked
  <1>2. PICK i \in h..d : seenTail[p].ptr = s[i]
    <2>1. CASE OneProducer
      <3>1. t = d /\ tail = seenTail[p]
        BY <2>1 DEF ListIs, OnePut
      <3> QED
        BY <1>1, <3>1 DEF ListIs, Linked
    <2>2. CASE Consumers = {}
      BY <2>2 DEF ListIs, ManyPut
    <2> QED
      BY <2>1, <2>2 DEF Harmless
  <1>3. next[s[i]] = Null => i = d
    <2>1. i # d => s[i + 1] \in Nodes
      BY <1>1, <1>2
    <2> QED
      BY <1>2, <2>1, ConstantsAreApart DEF ListIs, Linked
  <1> QED
    BY <1>2, <1>3 DEF ListIs, Kept

\* put links its node to the last.
LEMMA ListGrows ==
  ASSUME Harmless, ThreadInv, NEW h, NEW t, NEW d, NEW s, ListIs(h, t, d, s),
         NEW p \in Producers, PutLinks(p)
  PROVE  \E r : /\ r = [i \in h..d + 1 |-> IF i = d + 1 THEN node[p] ELSE s[i]]
                /\ ListIs(h, t, d + 1, r)'
  <1> USE ConstantsAreApart DEF ThreadInv, TypeOK, ClientTypeOK, Places, PutPlaces, TakePlaces,
        Unlinked, Holding, Linking, Owns, TailKnown, HeadKnown, Move
  <1>1. PICK n, r : n = node[p] /\ r = [i \in h..d + 1 |-> IF i = d + 1 THEN n ELSE s[i]]
    OBVIOUS
  <1>2. h \in Nat /\ d \in Nat /\ h <= d /\ t \in h..d /\ d \in h..d /\ s \in [h..d -> Nodes]
    BY DEF ListIs, Linked
  <1>3. /\ pc[p] = "putLink" /\ pc' = [pc EXCEPT ![p] = "putSwing"]
        /\ UNCHANGED <<memory, data, head, tail, node, seenHead, seenTail, seenNext, copied, sawEmpty>>
    BY DEF PutLinks, PutLink, heap, locals
  <1>4. seenTail[p].ptr = s[d] /\ next' = [next EXCEPT ![s[d]] = n]
    BY <1>1, <1>3, LastIsListed DEF PutLinks, PutLink
  <1>5. /\ n \in Nodes /\ memory[n] = "live" /\ \A i \in h..d : s[i] # n
        /\ \A u \in Threads : Owns(u) /\ node[u] = n => u = p
    BY <1>1, <1>3 DEF ListIs, Kept, HandsApart
  <1>6. /\ r[d + 1] = n /\ \A i \in h..d : r[i] = s[i]
        /\ \A i \in h..d + 1 : i \in h..d \/ i = d + 1
        /\ r \in [h..d + 1 -> Nodes]
        /\ h..d \subseteq h..d + 1 /\ d + 1 \in h..d + 1
    BY <1>1, <1>2, <1>5
  <1>7. \A i \in h..d : i # d => s[i] # s[d]
    BY <1>2 DEF ListIs, Linked
  <1>8. Linked(h, t, d + 1, r)'
    <2>1. \A i, j \in h..d + 1 : r[i] = r[j] => i = j
      <3>1. \A i, j \in h..d : s[i] = s[j] => i = j
        BY DEF ListIs, Linked
      <3> QED
        BY <1>5, <1>6, <3>1
    <2>2. \A i \in h..d + 1 : next'[r[i]] = IF i = d + 1 THEN Null ELSE r[i + 1]
      <3> TAKE i \in h..d + 1
      <3>1. CASE i = d + 1
        <4>1. next[n] = Null /\ n # s[d]
          BY <1>1, <1>2, <1>3, <1>5 DEF Ending
        <4> QED
          BY <1>2, <1>4, <1>5, <1>6, <3>1, <4>1
      <3>2. CASE i = d
        BY <1>2, <1>4, <1>6, <3>2
      <3>3. CASE i \in h..d /\ i # d
        <4>1. i + 1 \in h..d /\ i # d + 1
          BY <1>2, <3>3
        <4>2. next[s[i]] = s[i + 1]
          BY <3>3 DEF ListIs, Linked
        <4> QED
          BY <1>2, <1>4, <1>6, <1>7, <3>3, <4>1, <4>2
      <3> QED
        BY <1>6, <3>1, <3>2, <3>3
    <2>3. head'.ptr = r[h] /\ tail'.ptr = r[t] /\ t \in h..d + 1 /\ d + 1 \in Nat
      BY <1>2, <1>3, <1>6 DEF ListIs, Linked
    <2> QED
      BY <1>2, <1>6, <2>1, <2>2, <2>3 DEF Linked
  <1>9. Kept(h, d + 1, r)'
    <2>1. ASSUME NEW i \in h..d + 1 PROVE memory[r[i]] = "live"
      <3>1. CASE i \in h..d
        BY <1>6, <3>1 DEF ListIs, Kept
      <3> QED
        BY <1>5, <1>6, <3>1
    <2>2. ASSUME NEW i \in h..d + 1, NEW u \in Threads, node[u] = r[i] PROVE Linking(u)'
      <3>1. CASE i \in h..d
        BY <1>3, <1>6, <2>2, <3>1 DEF ListIs, Kept
      <3>2. CASE r[i] = n
        BY <1>1, <1>3, <1>5, <2>2, <3>2 DEF HandsApart
      <3> QED
        BY <1>6, <3>1, <3>2
    <2>3. ASSUME NEW m \in Nodes, memory[m] = "live"
          PROVE  \/ \E i \in h..d + 1 : m = r[i]
                 \/ \E u \in Threads : Owns(u)' /\ node[u] = m
      <3>1. CASE \E i \in h..d : m = s[i]
        BY <1>6, <3>1
      <3>2. CASE m = n
        BY <1>6, <3>2
      <3>3. CASE m # n /\ \E u \in Threads : Owns(u) /\ node[u] = m
        BY <1>1, <1>3, <3>3
      <3> QED
        BY <2>3, <3>1, <3>2, <3>3 DEF ListIs, Kept
    <2> QED
      BY <1>3, <2>1, <2>2, <2>3 DEF Kept
  <1>10. HeadSeen(h, d + 1, r)'
    <2>1. ASSUME NEW c \in Consumers, HeadKnown(c) PROVE seenHead[c].ptr # n
      BY <1>1, <1>3, <2>1 DEF ListIs, HeadSeen, HeadRight
    <2>2. \A i \in h + 1..d + 1 : i \in h + 1..d \/ i = d + 1
      BY <1>2
    <2>3. \A i \in h + 1..d : i \in h..d
      BY <1>2
    <2>4. \A c \in Consumers : HeadKnown(c)' => HeadKnown(c)
      BY <1>3
    <2>5. \A u \in Threads : Unlinked(u)' => Unlinked(u)
      BY <1>3
    <2> HIDE DEF Unlinked, HeadKnown
    <2> QED
      BY <1>3, <1>6, <2>1, <2>2, <2>3, <2>4, <2>5 DEF ListIs, HeadSeen, HeadRight
  <1>11. NextSeen(h, t, r)'
    <2>1. r[h] = s[h] /\ (next'[s[h]] = next[s[h]] \/ (next[s[h]] = Null /\ h = d))
      BY <1>2, <1>4, <1>6, <1>7 DEF ListIs, Linked
    <2>2. \A c \in Consumers : pc'[c] = pc[c]
      BY <1>3
    <2> QED
      BY <1>3, <2>1, <2>2 DEF ListIs, NextSeen, NextRight
  <1>12. EmptySeen(h, d + 1)'
    BY <1>2, <1>3 DEF ListIs, EmptySeen
  <1>13. OnePut(t, d + 1, r)'
    <2>1. ASSUME OneProducer PROVE t = d /\ tail = seenTail[p] /\ \A q \in Producers : q = p
      BY <1>3, <2>1 DEF ListIs, OnePut, OneProducer
    <2>2. d + 1 - 1 = d
      BY <1>2
    <2> QED
      BY <1>1, <1>2, <1>3, <1>6, <2>1, <2>2 DEF OnePut
  <1>14. ManyPut(h, d + 1, r)'
    <2> SUFFICES ASSUME Consumers = {}, NEW q \in Producers
                 PROVE  /\ TailKnown(q)' => \E i \in h..d + 1 : seenTail[q].ptr = r[i]
                        /\ pc'[q] = "putHelp" => seenNext[q] = next'[seenTail[q].ptr]
                        /\ pc'[q] = "putSwing" => node[q] = next'[seenTail[q].ptr]
      BY <1>3 DEF ManyPut
    <2>0. TailKnown(q)' => TailKnown(q)
      BY <1>3
    <2>1. TailKnown(q) => \E i \in h..d : seenTail[q].ptr = s[i]
      BY DEF ListIs, ManyPut
    <2>2. TailKnown(q) => \E i \in h..d + 1 : seenTail[q].ptr = r[i]
      BY <1>6, <2>1
    <2>3. next[s[d]] = Null
      BY <1>2 DEF ListIs, Linked
    <2>4. pc'[q] = "putHelp" => seenNext[q] = next'[seenTail[q].ptr]
      <3>1. ASSUME pc'[q] = "putHelp" PROVE pc[q] = "putHelp" /\ seenNext[q] # Null
        BY <1>3, <3>1
      <3>2. pc[q] = "putHelp" => seenNext[q] = next[seenTail[q].ptr]
        BY DEF ListIs, ManyPut
      <3> QED
        BY <1>4, <2>0, <2>1, <2>3, <3>1, <3>2
    <2>5. pc'[q] = "putSwing" => node[q] = next'[seenTail[q].ptr]
      <3>1. CASE q = p
        BY <1>1, <1>2, <1>4, <3>1
      <3>2. CASE q # p /\ pc'[q] = "putSwing"
        <4>1. pc[q] = "putSwing" /\ node[q] \in Nodes
          BY <1>3, <3>2 DEF HandsApart
        <4>2. node[q] = next[seenTail[q].ptr]
          BY <4>1 DEF ListIs, ManyPut
        <4>3. next'[seenTail[q].ptr] = next[seenTail[q].ptr]
          BY <1>4, <2>1, <2>3, <4>1, <4>2
        <4> QED
          BY <4>2, <4>3
      <3> QED
        BY <3>1, <3>2
    <2> QED
      BY <2>0, <2>2, <2>4, <2>5
  <1> QED
    BY <1>1, <1>8, <1>9, <1>10, <1>11, <1>12, <1>13, <1>14 DEF ListIs

\* take makes the second node the dummy.
LEMMA ListShrinks ==
  ASSUME Harmless, ThreadInv, NEW h, NEW t, NEW d, NEW s, ListIs(h, t, d, s),
         NEW c \in Consumers, TakesNode(c)
  PROVE  /\ h + 1 \in h..d /\ seenHead[c].ptr = s[h] /\ seenNext[c] = s[h + 1]
         /\ copied[c] = data[s[h + 1]]
         /\ \E r : r = [i \in h + 1..d |-> s[i]] /\ ListIs(h + 1, t, d, r)'
  <1> USE ConstantsAreApart DEF ThreadInv, TypeOK, ClientTypeOK, Places, PutPlaces, TakePlaces,
        Unlinked, Holding, Linking, Owns, TailKnown, HeadKnown, Move
  <1>1. PICK r : r = [i \in h + 1..d |-> s[i]]
    OBVIOUS
  <1>2. h \in Nat /\ d \in Nat /\ h <= d /\ t \in h..d /\ s \in [h..d -> Nodes]
        /\ head.ptr = s[h] /\ h \in h..d
    BY DEF ListIs, Linked
  <1>3. /\ pc[c] = "takeCas" /\ pc' = [pc EXCEPT ![c] = "takeStore"]
        /\ head = seenHead[c] /\ head' = Combine(seenNext[c], version)
        /\ node' = [node EXCEPT ![c] = seenHead[c].ptr]
        /\ sawEmpty' = (sawEmpty \cup SeeingEmpty(seenNext[c])) \ {c}
        /\ UNCHANGED <<memory, data, tail, next, seenHead, seenTail, seenNext, copied>>
    BY DEF TakesNode, TakeCas, heap
  <1>4. /\ seenNext[c] = next[s[h]] /\ t # h /\ copied[c] = data[seenNext[c]] /\ seenNext[c] # Null
    BY <1>2, <1>3 DEF ListIs, NextSeen, NextRight
  <1>5. h + 1 \in h..d /\ seenNext[c] = s[h + 1] /\ h # d /\ h + 1 <= d /\ t \in h + 1..d
    BY <1>2, <1>4 DEF ListIs, Linked
  <1>6. /\ r \in [h + 1..d -> Nodes] /\ \A i \in h + 1..d : r[i] = s[i] /\ i \in h..d /\ i # h
        /\ \A i \in h..d : i \in h + 1..d \/ i = h
    BY <1>1, <1>2
  <1>7. \A i \in h + 1..d : s[i] # s[h]
    BY <1>2, <1>6 DEF ListIs, Linked
  <1>8. Linked(h + 1, t, d, r)'
    <2>1. \A i, j \in h + 1..d : r[i] = r[j] => i = j
      BY <1>6 DEF ListIs, Linked
    <2>2. \A i \in h + 1..d : next[r[i]] = IF i = d THEN Null ELSE r[i + 1]
      <3> TAKE i \in h + 1..d
      <3>1. i # d => i + 1 \in h + 1..d
        BY <1>2
      <3> QED
        BY <1>6, <3>1 DEF ListIs, Linked
    <2>3. head'.ptr = r[h + 1] /\ tail'.ptr = r[t]
      BY <1>2, <1>3, <1>5, <1>6 DEF ListIs, Linked, Combine
    <2> QED
      BY <1>2, <1>3, <1>5, <1>6, <2>1, <2>2, <2>3 DEF Linked
  <1>9. Kept(h + 1, d, r)'
    <2>1. ASSUME NEW i \in h + 1..d
          PROVE  memory'[r[i]] = "live" /\ \A u \in Threads : node'[u] = r[i] => Linking(u)'
      <3>1. r[i] = s[i] /\ i \in h..d /\ s[i] # s[h]
        BY <1>6, <1>7
      <3>2. memory[s[i]] = "live" /\ \A u \in Threads : node[u] = s[i] => Linking(u)
        BY <3>1 DEF ListIs, Kept
      <3> QED
        BY <1>2, <1>3, <3>1, <3>2
    <2>2. ASSUME NEW n \in Nodes, memory'[n] = "live"
          PROVE  \/ \E i \in h + 1..d : n = r[i]
                 \/ \E u \in Threads : Owns(u)' /\ node'[u] = n
      <3>1. CASE n = s[h]
        BY <1>2, <1>3, <3>1
      <3>2. CASE \E i \in h + 1..d : n = s[i]
        BY <1>6, <3>2
      <3>3. CASE \E u \in Threads : Owns(u) /\ node[u] = n
        BY <1>3, <3>3
      <3>4. (\E i \in h..d : n = s[i]) \/ \E u \in Threads : Owns(u) /\ node[u] = n
        BY <1>3, <2>2 DEF ListIs, Kept
      <3> QED
        BY <1>6, <3>1, <3>2, <3>3, <3>4
    <2> QED
      BY <2>1, <2>2 DEF Kept
  <1>10. \A b \in Consumers : HeadKnown(b)' => HeadKnown(b) /\ b # c /\ ~Reuse /\ pc'[b] = pc[b]
    BY <1>3 DEF Harmless
  <1>11. HeadSeen(h + 1, d, r)'
    <2>1. \A i \in h + 1 + 1..d : i \in h + 1..d
      BY <1>2
    <2>2. \A u \in Threads : Unlinked(u)' => Unlinked(u) /\ node'[u] = node[u]
      BY <1>3
    <2>3. ASSUME NEW b \in Consumers, HeadKnown(b)'
          PROVE  /\ memory[seenHead[b].ptr] # "fresh"
                 /\ \A u \in Threads : Unlinked(u)' => node'[u] # seenHead[b].ptr
                 /\ \A i \in h + 1 + 1..d : r[i] # seenHead[b].ptr
                 /\ ~Reuse
      <3> HIDE DEF Unlinked, HeadKnown
      <3>1. HeadKnown(b) /\ ~Reuse
        BY <1>10, <2>3
      <3>2. HeadSeen(h, d, s)
        BY DEF ListIs
      <3>3. \A i \in h + 1..d : s[i] # seenHead[b].ptr
        BY <3>1, <3>2 DEF HeadSeen, HeadRight
      <3>4. memory[seenHead[b].ptr] # "fresh" /\ \A u \in Threads : Unlinked(u) => node[u] # seenHead[b].ptr
        BY <3>1, <3>2 DEF HeadSeen, HeadRight
      <3> QED
        BY <1>6, <2>1, <2>2, <3>1, <3>3, <3>4
    <2> HIDE DEF HeadKnown, Unlinked
    <2> QED
      BY <1>3, <2>3 DEF HeadSeen, HeadRight
  <1>12. NextSeen(h + 1, t, r)'
    <2>1. ASSUME NEW b \in Consumers, HeadKnown(b)' PROVE seenHead'[b].ptr # r[h + 1]
      <3>1. h + 1 \in h + 1..d
        BY <1>2, <1>5
      <3> QED
        BY <1>3, <1>6, <1>10, <2>1, <3>1 DEF ListIs, HeadSeen, HeadRight
    <2> HIDE DEF HeadKnown
    <2> QED
      BY <2>1 DEF NextSeen, NextRight
  <1>13. EmptySeen(h + 1, d)'
    <2>1. ASSUME NEW b \in Consumers, h + 1 = d, pc'[b] # "idle", ~Holding(b)'
          PROVE  b \in sawEmpty'
      <3>1. b # c /\ pc[b] # "idle" /\ ~Holding(b)
        BY <1>3, <2>1
      <3>2. next[s[h + 1]] = Null
        BY <1>5, <2>1 DEF ListIs, Linked
      <3> QED
        BY <1>3, <1>5, <3>1, <3>2 DEF SeeingEmpty
    <2>2. ASSUME NEW b \in Consumers, pc'[b] = "empty" PROVE b \in sawEmpty'
      BY <1>3, <2>2 DEF ListIs, EmptySeen
    <2> QED
      BY <2>1, <2>2 DEF EmptySeen
  <1>14. OnePut(t, d, r)'
    <2>1. \A p \in Producers : pc'[p] = pc[p] /\ node'[p] = node[p]
      BY <1>3
    <2>2. d \in h + 1..d
      BY <1>2, <1>5
    <2> QED
      BY <1>3, <1>6, <2>1, <2>2 DEF ListIs, OnePut
  <1>15. ManyPut(h + 1, d, r)'
    BY DEF ManyPut
  <1> QED
    BY <1>1, <1>2, <1>3, <1>4, <1>5, <1>8, <1>9, <1>11, <1>12, <1>13, <1>14, <1>15 DEF ListIs

\* Where SwingTail moves _tail if it does: along the list.
LEMMA TailAhead ==
  ASSUME Harmless, ThreadInv, NEW h, NEW t, NEW d, NEW s, ListIs(h, t, d, s),
         NEW u \in Threads, tail = seenTail[u],
         NEW n, (pc[u] \in {"putHelp", "takeHelp"} /\ n = seenNext[u]) \/ (pc[u] = "putSwing" /\ n = node[u])
  PROVE  \E v \in t..d : n = s[v] /\ v \in h..d
  <1> USE ConstantsAreApart DEF ThreadInv, TypeOK, Places, PutPlaces, TakePlaces, TailKnown, HeadKnown
  <1>1. h \in Nat /\ d \in Nat /\ t \in h..d /\ s \in [h..d -> Nodes] /\ tail.ptr = s[t]
        /\ h \in h..d /\ d \in t..d
    BY DEF ListIs, Linked
  <1>2. \A i \in h..d : next[s[i]] = IF i = d THEN Null ELSE s[i + 1]
    BY DEF ListIs, Linked
  <1>3. \A i, j \in h..d : s[i] = s[j] => i = j
    BY DEF ListIs, Linked
  <1>4. ASSUME n = next[s[t]], n # Null PROVE \E v \in t..d : n = s[v] /\ v \in h..d
    <2>1. t # d /\ n = s[t + 1] /\ t + 1 \in t..d /\ t + 1 \in h..d
      BY <1>1, <1>2, <1>4
    <2> QED
      BY <2>1
  <1>5. CASE pc[u] = "takeHelp"
    <2>1. u \in Consumers /\ seenTail[u].ptr = seenHead[u].ptr
      BY <1>5 DEF HelpSeen
    <2>2. s[t] = seenHead[u].ptr
      BY <1>1, <2>1
    <2>3. t = h
      <3>1. t \notin h + 1..d
        BY <1>5, <2>1, <2>2 DEF ListIs, HeadSeen, HeadRight
      <3> QED
        BY <1>1, <3>1
    <2>4. n = next[s[h]] /\ n # Null
      BY <1>5, <2>1, <2>2, <2>3 DEF ListIs, NextSeen, NextRight
    <2> QED
      BY <1>4, <2>3, <2>4
  <1>6. CASE pc[u] # "takeHelp" /\ Consumers = {}
    <2>1. u \in Producers
      BY <1>6
    <2>2. PICK i \in h..d : seenTail[u].ptr = s[i]
      BY <1>6, <2>1 DEF ListIs, ManyPut
    <2>3. i = t
      BY <1>1, <1>3, <2>2
    <2>4. n = next[s[t]] /\ n # Null
      <3>1. n = next[seenTail[u].ptr]
        BY <1>6, <2>1 DEF ListIs, ManyPut
      <3>2. n # Null
        BY <1>6 DEF HandsApart, Linking
      <3> QED
        BY <2>2, <2>3, <3>1, <3>2
    <2> QED
      BY <1>4, <2>4
  <1>7. CASE pc[u] # "takeHelp" /\ OneProducer
    <2>1. u \in Producers /\ pc[u] = "putSwing" /\ n = s[d]
      BY <1>7 DEF ListIs, OnePut
    <2>2. d \in h..d
      BY <1>1
    <2> QED
      BY <1>1, <2>1, <2>2
  <1> QED
    BY <1>5, <1>6, <1>7 DEF Harmless

\* Swinging _tail moves it along the list, if at all.
LEMMA TailMoves ==
  ASSUME Harmless, ThreadInv, NEW h, NEW t, NEW d, NEW s, ListIs(h, t, d, s),
         NEW u \in Threads, NEW n, SwingTail(u, n),
         (pc[u] \in {"putHelp", "takeHelp"} /\ n = seenNext[u]) \/ (pc[u] = "putSwing" /\ n = node[u])
  PROVE  \E v \in t..d : /\ v \in h..d /\ tail'.ptr = s[v]
                         /\ tail = seenTail[u] => n = s[v]
                         /\ tail # seenTail[u] => v = t /\ tail' = tail
  <1>1. t \in h..d /\ tail.ptr = s[t] /\ t \in t..d
    BY DEF ListIs, Linked
  <1>2. CASE tail # seenTail[u]
    BY <1>1, <1>2 DEF SwingTail
  <1>3. CASE tail = seenTail[u]
    <2>1. PICK v \in t..d : n = s[v] /\ v \in h..d
      BY <1>3, TailAhead
    <2> QED
      BY <1>3, <2>1 DEF SwingTail, Combine
  <1> QED
    BY <1>2, <1>3

\* A step that leaves the nodes on the list, _head and their next alone.
LEMMA ListKept ==
  ASSUME NEW h, NEW t, NEW d, NEW s, Linked(h, t, d, s), UNCHANGED head,
         NEW v \in h..d, tail'.ptr = s[v],
         \A i \in h..d : next'[s[i]] = next[s[i]]
  PROVE  Linked(h, v, d, s)'
  BY DEF Linked

\* The steps of put that link nothing.
LEMMA PutStays ==
  ASSUME Harmless, ThreadInv, NEW h, NEW t, NEW d, NEW s, ListIs(h, t, d, s),
         NEW p \in Producers, Put(p), ~PutLinks(p)
  PROVE  \E v \in t..d : ListIs(h, v, d, s)'
  <1> USE ConstantsAreApart DEF ThreadInv, TypeOK, ClientTypeOK, Places, PutPlaces, TakePlaces,
        Unlinked, Holding, Linking, Owns, TailKnown, HeadKnown, heap, client, list, locals, Move
  <1>0. /\ h \in Nat /\ d \in Nat /\ t \in h..d /\ t \in t..d /\ h \in h..d /\ d \in h..d
        /\ s \in [h..d -> Nodes] /\ head.ptr = s[h] /\ tail.ptr = s[t]
    BY DEF ListIs, Linked
  <1>1. ASSUME CallPut(p) PROVE ListIs(h, t, d, s)'
    <2>1. PICK n \in Nodes : /\ memory[n] # "live" /\ (memory[n] = "fresh" \/ Reuse)
                             /\ memory' = [memory EXCEPT ![n] = "live"]
                             /\ data' = [data EXCEPT ![n] = count]
                             /\ next' = [next EXCEPT ![n] = Null]
                             /\ node' = [node EXCEPT ![p] = n]
      BY <1>1 DEF CallPut, Make, Allocatable
    <2>2. \A i \in h..d : s[i] # n
      BY <2>1 DEF ListIs, Kept
    <2>3. /\ pc[p] = "idle" /\ pc' = [pc EXCEPT ![p] = "putLoad"]
          /\ UNCHANGED <<head, tail, seenHead, seenTail, seenNext, copied, sawEmpty>>
      BY <1>1 DEF CallPut
    <2>4. Linked(h, t, d, s)'
      BY <1>0, <2>1, <2>2, <2>3, ListKept DEF ListIs
    <2>5. Kept(h, d, s)'
      <3>1. \A i \in h..d : memory'[s[i]] = "live" /\ \A u \in Threads : node'[u] = s[i] => Linking(u)'
        BY <1>0, <2>1, <2>2, <2>3 DEF ListIs, Kept, HandsApart
      <3>2. ASSUME NEW m \in Nodes, memory'[m] = "live"
            PROVE  (\E i \in h..d : m = s[i]) \/ \E u \in Threads : Owns(u)' /\ node'[u] = m
        <4>1. CASE m = n
          BY <2>1, <2>3, <4>1
        <4>2. CASE m # n
          <5>1. memory[m] = "live"
            BY <2>1, <3>2, <4>2
          <5>2. CASE \E u \in Threads : Owns(u) /\ node[u] = m
            BY <2>1, <2>3, <5>2
          <5> QED
            BY <5>1, <5>2 DEF ListIs, Kept
        <4> QED
          BY <4>1, <4>2
      <3> QED
        BY <3>1, <3>2 DEF Kept
    <2>6. HeadSeen(h, d, s)'
      <3>1. ASSUME NEW c \in Consumers, HeadKnown(c)
            PROVE  /\ memory'[seenHead[c].ptr] # "fresh" /\ n # seenHead[c].ptr
        <4>1. memory[seenHead[c].ptr] # "fresh" /\ (Reuse => seenHead[c] = head)
          BY <3>1 DEF ListIs, HeadSeen, HeadRight
        <4>2. memory[s[h]] = "live"
          BY <1>0 DEF ListIs, Kept
        <4>3. seenHead[c].ptr \in Nodes
          BY <3>1 DEF HandsApart
        <4> QED
          BY <1>0, <2>1, <4>1, <4>2, <4>3
      <3>2. \A c \in Consumers : HeadKnown(c)' = HeadKnown(c)
        BY <2>3
      <3>3. \A u \in Threads : Unlinked(u)' => u = p \/ (Unlinked(u) /\ node'[u] = node[u])
        BY <2>1, <2>3
      <3>4. node'[p] = n
        BY <2>1
      <3> HIDE DEF HeadKnown, Unlinked
      <3> QED
        BY <2>3, <3>1, <3>2, <3>3, <3>4 DEF ListIs, HeadSeen, HeadRight
    <2>7. NextSeen(h, t, s)'
      <3>1. next'[s[h]] = next[s[h]]
        BY <1>0, <2>1, <2>2
      <3>2. ASSUME NEW c \in Consumers, pc[c] = "takeCas", seenHead[c].ptr = s[h]
            PROVE  data'[seenNext[c]] = data[seenNext[c]]
        <4>1. seenNext[c] = next[s[h]] /\ seenNext[c] # Null
          BY <3>2 DEF ListIs, NextSeen, NextRight
        <4>2. h + 1 \in h..d /\ seenNext[c] = s[h + 1]
          BY <1>0, <4>1 DEF ListIs, Linked
        <4> QED
          BY <1>0, <2>1, <2>2, <4>2
      <3>3. \A c \in Consumers : pc'[c] = pc[c]
        BY <2>3
      <3> QED
        BY <2>3, <3>1, <3>2, <3>3 DEF ListIs, NextSeen, NextRight
    <2>8. EmptySeen(h, d)'
      BY <2>3 DEF ListIs, EmptySeen
    <2>9. OnePut(t, d, s)'
      <3>1. OneProducer => t = d /\ \A q \in Producers : q = p
        BY <2>3 DEF ListIs, OnePut, OneProducer
      <3>2. pc'[p] = "putLoad"
        BY <2>3
      <3> QED
        BY <3>1, <3>2 DEF OnePut
    <2>10. ManyPut(h, d, s)'
      <3> SUFFICES ASSUME Consumers = {}, NEW q \in Producers, TailKnown(q)'
                   PROVE  /\ \E i \in h..d : seenTail[q].ptr = s[i]
                          /\ pc'[q] = "putHelp" => seenNext[q] = next'[seenTail[q].ptr]
                          /\ pc'[q] = "putSwing" => node'[q] = next'[seenTail[q].ptr]
        BY <2>3 DEF ManyPut
      <3>1. q # p /\ pc'[q] = pc[q] /\ node'[q] = node[q]
        BY <2>1, <2>3
      <3>2. /\ \E i \in h..d : seenTail[q].ptr = s[i]
            /\ pc[q] = "putHelp" => seenNext[q] = next[seenTail[q].ptr]
            /\ pc[q] = "putSwing" => node[q] = next[seenTail[q].ptr]
        BY <3>1 DEF ListIs, ManyPut
      <3>3. next'[seenTail[q].ptr] = next[seenTail[q].ptr]
        BY <1>0, <2>1, <2>2, <3>2
      <3> QED
        BY <3>1, <3>2, <3>3
    <2> QED
      BY <2>4, <2>5, <2>6, <2>7, <2>8, <2>9, <2>10 DEF ListIs
  <1>2. ASSUME PutLoad(p) PROVE ListIs(h, t, d, s)'
    <2>1. /\ pc[p] = "putLoad" /\ pc' = [pc EXCEPT ![p] = "putNext"]
          /\ seenTail' = [seenTail EXCEPT ![p] = tail]
          /\ UNCHANGED <<memory, data, head, tail, next, node, seenHead, seenNext, copied, sawEmpty>>
      BY <1>2 DEF PutLoad
    <2>2. Linked(h, t, d, s)'
      BY <1>0, <2>1, ListKept DEF ListIs
    <2>3. Kept(h, d, s)'
      BY <2>1 DEF ListIs, Kept
    <2>4. HeadSeen(h, d, s)'
      BY <2>1 DEF ListIs, HeadSeen, HeadRight
    <2>5. NextSeen(h, t, s)' /\ EmptySeen(h, d)'
      BY <2>1 DEF ListIs, NextSeen, NextRight, EmptySeen
    <2>6. OnePut(t, d, s)'
      BY <2>1 DEF ListIs, OnePut, OneProducer
    <2>7. ManyPut(h, d, s)'
      BY <1>0, <2>1 DEF ListIs, ManyPut
    <2> QED
      BY <2>2, <2>3, <2>4, <2>5, <2>6, <2>7 DEF ListIs
  <1>3. ASSUME PutNext(p) PROVE ListIs(h, t, d, s)'
    <2>1. PICK n \in Loaded(seenTail[p].ptr) : seenNext' = [seenNext EXCEPT ![p] = n]
               /\ pc' = [pc EXCEPT ![p] = IF n = Null THEN "putLink" ELSE "putHelp"]
      BY <1>3 DEF PutNext
    <2>2. /\ pc[p] = "putNext"
          /\ UNCHANGED <<memory, data, head, tail, next, node, seenHead, seenTail, copied, sawEmpty>>
      BY <1>3 DEF PutNext
    <2>3. \E i \in h..d : seenTail[p].ptr = s[i] /\ memory[s[i]] = "live" /\ (OneProducer => i = d)
      <3>1. CASE OneProducer
        BY <1>0, <2>2, <3>1 DEF ListIs, OnePut, Kept, Linked
      <3>2. CASE ~OneProducer
        BY <2>2, <3>2 DEF Harmless, ListIs, ManyPut, Kept
      <3> QED
        BY <3>1, <3>2
    <2>4. n = next[seenTail[p].ptr] /\ (OneProducer => n = Null)
      BY <1>0, <2>1, <2>3 DEF Loaded, ListIs, Linked
    <2>5. Linked(h, t, d, s)'
      BY <1>0, <2>2, ListKept DEF ListIs
    <2>6. Kept(h, d, s)'
      BY <2>1, <2>2 DEF ListIs, Kept
    <2>7. HeadSeen(h, d, s)'
      BY <2>1, <2>2 DEF ListIs, HeadSeen, HeadRight
    <2>8. NextSeen(h, t, s)' /\ EmptySeen(h, d)'
      BY <2>1, <2>2 DEF ListIs, NextSeen, NextRight, EmptySeen
    <2>9. OnePut(t, d, s)'
      BY <2>1, <2>2, <2>4 DEF ListIs, OnePut, OneProducer
    <2>10. ManyPut(h, d, s)'
      BY <2>1, <2>2, <2>4 DEF ListIs, ManyPut
    <2> QED
      BY <2>5, <2>6, <2>7, <2>8, <2>9, <2>10 DEF ListIs
  <1>4. ASSUME PutHelp(p) \/ PutSwing(p) PROVE \E v \in t..d : ListIs(h, v, d, s)'
    <2>1. PICK n : /\ SwingTail(p, n)
                   /\ \/ pc[p] = "putHelp" /\ pc' = [pc EXCEPT ![p] = "putLoad"] /\ n = seenNext[p]
                      \/ pc[p] = "putSwing" /\ pc' = [pc EXCEPT ![p] = "put"] /\ n = node[p]
      BY <1>4 DEF PutHelp, PutSwing
    <2>2. UNCHANGED <<memory, data, head, next, node, seenHead, seenTail, seenNext, copied, sawEmpty>>
      BY <1>4 DEF PutHelp, PutSwing
    <2>3. PICK v \in t..d : /\ v \in h..d /\ tail'.ptr = s[v]
                            /\ tail = seenTail[p] => n = s[v]
                            /\ tail # seenTail[p] => v = t
      <3>1. p \in Threads
        OBVIOUS
      <3> QED
        BY <2>1, <3>1, TailMoves
    <2>4. Linked(h, v, d, s)'
      BY <1>0, <2>2, <2>3, ListKept DEF ListIs
    <2>5. Kept(h, d, s)'
      BY <2>1, <2>2 DEF ListIs, Kept
    <2>6. HeadSeen(h, d, s)'
      BY <2>1, <2>2 DEF ListIs, HeadSeen, HeadRight
    <2>7. NextSeen(h, v, s)' /\ EmptySeen(h, d)'
      <3>1. t # h => v # h
        BY <1>0, <2>3
      <3>2. \A c \in Consumers : pc'[c] = pc[c]
        BY <2>1
      <3> QED
        BY <2>2, <3>1, <3>2 DEF ListIs, NextSeen, NextRight, EmptySeen
    <2>8. OnePut(v, d, s)'
      <3> SUFFICES ASSUME OneProducer PROVE pc'[p] = "put" /\ v = d
        BY DEF OnePut, OneProducer
      <3>1. pc[p] = "putSwing" /\ pc'[p] = "put" /\ n = s[d]
        BY <2>1 DEF ListIs, OnePut
      <3>2. CASE tail = seenTail[p]
        <4>1. s[v] = s[d]
          BY <2>3, <3>1, <3>2
        <4> QED
          BY <1>0, <2>3, <3>1, <4>1 DEF ListIs, Linked
      <3>3. CASE tail # seenTail[p]
        BY <2>3, <3>1, <3>3 DEF ListIs, OnePut
      <3> QED
        BY <3>1, <3>2, <3>3
    <2>9. ManyPut(h, d, s)'
      BY <2>1, <2>2 DEF ListIs, ManyPut
    <2> QED
      BY <2>4, <2>5, <2>6, <2>7, <2>8, <2>9 DEF ListIs
  <1>5. ASSUME PutLink(p) PROVE ListIs(h, t, d, s)'
    <2>1. /\ pc[p] = "putLink" /\ pc' = [pc EXCEPT ![p] = "putLoad"]
          /\ UNCHANGED <<memory, data, head, tail, next, node, seenHead, seenTail, seenNext, copied, sawEmpty>>
      BY <1>5 DEF PutLink, PutLinks
    <2>2. Linked(h, t, d, s)'
      BY <1>0, <2>1, ListKept DEF ListIs
    <2>3. Kept(h, d, s)'
      BY <2>1 DEF ListIs, Kept
    <2>4. HeadSeen(h, d, s)'
      BY <2>1 DEF ListIs, HeadSeen, HeadRight
    <2>5. NextSeen(h, t, s)' /\ EmptySeen(h, d)'
      BY <2>1 DEF ListIs, NextSeen, NextRight, EmptySeen
    <2>6. OnePut(t, d, s)'
      BY <2>1 DEF ListIs, OnePut, OneProducer
    <2>7. ManyPut(h, d, s)'
      BY <2>1 DEF ListIs, ManyPut
    <2> QED
      BY <2>2, <2>3, <2>4, <2>5, <2>6, <2>7 DEF ListIs
  <1>6. ASSUME PutReturn(p) PROVE ListIs(h, t, d, s)'
    <2>1. /\ pc[p] = "put" /\ pc' = [pc EXCEPT ![p] = "idle"] /\ Forget(p)
          /\ UNCHANGED <<memory, data, head, tail, next, sawEmpty>>
      BY <1>6 DEF PutReturn
    <2>2. Linked(h, t, d, s)'
      BY <1>0, <2>1, ListKept DEF ListIs
    <2>3. Kept(h, d, s)'
      <3>1. \A u \in Threads : (node'[u] = node[u] /\ pc'[u] = pc[u]) \/ (u = p /\ node'[u] = Null)
        BY <2>1 DEF Forget
      <3>2. \A u \in Threads : Owns(u) => Owns(u)' /\ node'[u] = node[u]
        BY <2>1 DEF Forget
      <3>3. \A u \in Threads, i \in h..d : node'[u] = s[i] => Linking(u)'
        <4>1. \A i \in h..d : s[i] # Null
          BY <1>0
        <4> QED
          BY <3>1, <4>1 DEF ListIs, Kept
      <3> HIDE DEF Owns, Linking
      <3> QED
        BY <2>1, <3>2, <3>3 DEF ListIs, Kept
    <2>4. \A c \in Consumers : /\ pc'[c] = pc[c] /\ seenHead'[c] = seenHead[c] /\ copied'[c] = copied[c]
                               /\ seenTail'[c] = seenTail[c] /\ seenNext'[c] = seenNext[c]
      BY <2>1 DEF Forget
    <2>5. \A u \in Threads : Unlinked(u)' => Unlinked(u) /\ node'[u] = node[u]
      BY <2>1 DEF Forget
    <2>6. HeadSeen(h, d, s)'
      <3> HIDE DEF Unlinked
      <3> QED
        BY <2>1, <2>4, <2>5 DEF ListIs, HeadSeen, HeadRight
    <2>7. NextSeen(h, t, s)' /\ EmptySeen(h, d)'
      BY <2>1, <2>4 DEF ListIs, NextSeen, NextRight, EmptySeen
    <2>8. OnePut(t, d, s)'
      BY <2>1 DEF ListIs, OnePut, OneProducer
    <2>9. ManyPut(h, d, s)'
      BY <2>1 DEF ListIs, ManyPut, Forget
    <2> QED
      BY <2>2, <2>3, <2>6, <2>7, <2>8, <2>9 DEF ListIs
  <1> QED
    BY <1>0, <1>1, <1>2, <1>3, <1>4, <1>5, <1>6 DEF Put

\* A step inside a call of take, to place x, that writes to the consumer's local
\* variables only and leaves in them what is right.
Inside(c, x, h, t, d, s) ==
    /\ UNCHANGED <<memory, data, head, tail, next, node>>
    /\ pc[c] \notin {"takeStore", "taken"} /\ pc' = [pc EXCEPT ![c] = x]
    /\ \A u \in Threads : u # c => /\ seenHead'[u] = seenHead[u] /\ seenTail'[u] = seenTail[u]
                                   /\ seenNext'[u] = seenNext[u] /\ copied'[u] = copied[u]
    /\ \A b \in Consumers : b # c /\ b \in sawEmpty => b \in sawEmpty'
    /\ HeadKnown(c)' => HeadRight(c, h, d, s)'
    /\ HeadKnown(c)' /\ seenHead'[c].ptr = s[h] => NextRight(c, h, t, s)'
    /\ (h = d /\ x # "idle") \/ x = "empty" => c \in sawEmpty'

\* Such a step keeps the list.
LEMMA InsideTake ==
  ASSUME ThreadInv, NEW h, NEW t, NEW d, NEW s, ListIs(h, t, d, s), NEW c \in Consumers,
         NEW x \in (TakePlaces \ {"takeStore", "taken"}) \cup {"idle"}, Inside(c, x, h, t, d, s)
  PROVE  ListIs(h, t, d, s)'
  <1>a. /\ UNCHANGED <<memory, data, head, tail, next, node>>
        /\ pc[c] \notin {"takeStore", "taken"} /\ pc' = [pc EXCEPT ![c] = x]
        /\ \A u \in Threads : u # c => /\ seenHead'[u] = seenHead[u] /\ seenTail'[u] = seenTail[u]
                                       /\ seenNext'[u] = seenNext[u] /\ copied'[u] = copied[u]
        /\ \A b \in Consumers : b # c /\ b \in sawEmpty => b \in sawEmpty'
    BY DEF Inside
  <1>b. /\ HeadKnown(c)' => HeadRight(c, h, d, s)'
        /\ HeadKnown(c)' /\ seenHead'[c].ptr = s[h] => NextRight(c, h, t, s)'
        /\ (h = d /\ x # "idle") \/ x = "empty" => c \in sawEmpty'
    BY DEF Inside
  <1> USE ConstantsAreApart DEF ThreadInv, TypeOK, ClientTypeOK, Places, PutPlaces, TakePlaces,
        Unlinked, Holding, Linking, Owns, TailKnown, HeadKnown, heap, client, list, locals, Move
  <1>0. /\ h \in Nat /\ d \in Nat /\ t \in h..d /\ t \in t..d /\ h \in h..d /\ d \in h..d
        /\ s \in [h..d -> Nodes] /\ head.ptr = s[h] /\ tail.ptr = s[t]
        /\ next[s[h]] = IF h = d THEN Null ELSE s[h + 1]
        /\ memory[s[h]] = "live"
    BY DEF ListIs, Linked, Kept
  <1>1. Linked(h, t, d, s)'
    BY <1>0, <1>a, ListKept DEF ListIs
  <1>2. \A u \in Threads : /\ Unlinked(u)' = Unlinked(u) /\ Owns(u)' = Owns(u)
                           /\ Linking(u)' = Linking(u) /\ TailKnown(u)' = TailKnown(u)
                           /\ u # c => pc'[u] = pc[u] /\ HeadKnown(u)' = HeadKnown(u)
    BY <1>a
  <1>3. Kept(h, d, s)'
    <2> HIDE DEF Owns, Linking
    <2> QED
      BY <1>a, <1>2 DEF ListIs, Kept
  <1>4. HeadSeen(h, d, s)'
    <2> SUFFICES ASSUME NEW b \in Consumers, HeadKnown(b)'
                 PROVE  HeadRight(b, h, d, s)'
      BY DEF HeadSeen
    <2>1. CASE b = c
      BY <1>b, <2>1
    <2>2. CASE b # c
      <3>1. HeadKnown(b) /\ seenHead'[b] = seenHead[b]
        BY <1>a, <1>2, <2>2
      <3>2. HeadRight(b, h, d, s)
        BY <3>1 DEF ListIs, HeadSeen
      <3>3. \A u \in Threads : Unlinked(u)' = Unlinked(u)
        BY <1>2
      <3> HIDE DEF Unlinked, HeadKnown
      <3> QED
        BY <1>a, <3>1, <3>2, <3>3 DEF HeadRight
    <2> QED
      BY <2>1, <2>2
  <1>5. NextSeen(h, t, s)'
    <2> SUFFICES ASSUME NEW b \in Consumers, HeadKnown(b)', seenHead'[b].ptr = s[h]
                 PROVE  NextRight(b, h, t, s)'
      BY DEF NextSeen
    <2>1. CASE b = c
      BY <1>b, <2>1
    <2>2. CASE b # c
      <3>1. /\ HeadKnown(b) /\ pc'[b] = pc[b] /\ seenHead'[b] = seenHead[b] /\ seenTail'[b] = seenTail[b]
            /\ seenNext'[b] = seenNext[b] /\ copied'[b] = copied[b] /\ (b \in sawEmpty => b \in sawEmpty')
        BY <1>a, <1>2, <2>2
      <3> HIDE DEF HeadKnown
      <3> QED
        BY <1>a, <3>1 DEF ListIs, NextSeen, NextRight
    <2> QED
      BY <2>1, <2>2
  <1>6. EmptySeen(h, d)'
    <2>1. ASSUME NEW b \in Consumers, b # c
          PROVE  /\ h = d /\ pc'[b] # "idle" /\ ~Holding(b)' => b \in sawEmpty'
                 /\ pc'[b] = "empty" => b \in sawEmpty'
      BY <1>a, <2>1 DEF ListIs, EmptySeen
    <2>2. pc'[c] = x
      BY <1>a
    <2> QED
      BY <1>b, <2>1, <2>2 DEF EmptySeen
  <1>7. \A p \in Producers : /\ pc'[p] = pc[p] /\ seenTail'[p] = seenTail[p]
                             /\ seenNext'[p] = seenNext[p]
    BY <1>a
  <1>8. OnePut(t, d, s)'
    BY <1>a, <1>7 DEF ListIs, OnePut
  <1>9. ManyPut(h, d, s)'
    BY DEF ManyPut
  <1> QED
    BY <1>1, <1>3, <1>4, <1>5, <1>6, <1>8, <1>9 DEF ListIs

\* The steps of take that take nothing.
LEMMA TakeStays ==
  ASSUME Harmless, ThreadInv, NEW h, NEW t, NEW d, NEW s, ListIs(h, t, d, s),
         NEW c \in Consumers, Take(c), ~TakesNode(c)
  PROVE  \E v \in t..d : ListIs(h, v, d, s)'
  <1> USE ConstantsAreApart DEF ThreadInv, TypeOK, ClientTypeOK, Places, PutPlaces, TakePlaces,
        Unlinked, Holding, Linking, Owns, TailKnown, HeadKnown, heap, client, list, locals, Move
  <1>0. /\ h \in Nat /\ d \in Nat /\ t \in h..d /\ t \in t..d /\ h \in h..d /\ d \in h..d
        /\ s \in [h..d -> Nodes] /\ head.ptr = s[h] /\ tail.ptr = s[t]
        /\ next[s[h]] = IF h = d THEN Null ELSE s[h + 1]
        /\ memory[s[h]] = "live"
    BY DEF ListIs, Linked, Kept
  <1>1. \A i \in h + 1..d : s[i] # s[h]
    <2>1. \A i \in h + 1..d : i \in h..d /\ i # h
      BY <1>0
    <2> QED
      BY <1>0, <2>1 DEF ListIs, Linked
  <1>2. ~Holding(c) /\ pc[c] # "idle" /\ h = d => c \in sawEmpty
    BY DEF ListIs, EmptySeen
  <1>3. HeadKnown(c) => HeadRight(c, h, d, s)
    BY DEF ListIs, HeadSeen
  <1>4. HeadKnown(c) /\ seenHead[c].ptr = s[h] => NextRight(c, h, t, s)
    BY DEF ListIs, NextSeen
  <1>5. ASSUME CallTake(c) PROVE ListIs(h, t, d, s)'
    <2>1. h = d => c \in sawEmpty'
      <3>1. Chain = <<>> <=> h = d
        BY ChainFacts DEF ListIs
      <3> QED
        BY <1>5, <3>1 DEF CallTake
    <2>2. pc' = [pc EXCEPT ![c] = "takeHead"] /\ pc[c] = "idle"
      BY <1>5 DEF CallTake
    <2> QED
      BY <1>5, <2>1, <2>2, InsideTake DEF Inside, CallTake
  <1>6. ASSUME TakeHead(c) PROVE ListIs(h, t, d, s)'
    <2>1. pc' = [pc EXCEPT ![c] = "takeTail"] /\ pc[c] = "takeHead" /\ seenHead' = [seenHead EXCEPT ![c] = head]
      BY <1>6 DEF TakeHead
    <2>2. HeadRight(c, h, d, s)'
      <3>1. \A u \in Threads : Unlinked(u)' => node'[u] # s[h]
        BY <1>0, <1>6, <2>1 DEF TakeHead, ListIs, Kept
      <3>2. seenHead'[c] = head
        BY <2>1
      <3> QED
        BY <1>0, <1>1, <1>6, <3>1, <3>2 DEF HeadRight, TakeHead
    <2>3. NextRight(c, h, t, s)'
      BY <2>1 DEF NextRight
    <2>4. \A u \in Threads : u # c => seenHead'[u] = seenHead[u]
      BY <2>1
    <2>5. UNCHANGED <<heap, list, node, seenTail, seenNext, copied, sawEmpty>>
      BY <1>6 DEF TakeHead
    <2>6. \A u \in Threads : u # c => /\ seenHead'[u] = seenHead[u] /\ seenTail'[u] = seenTail[u]
                                      /\ seenNext'[u] = seenNext[u] /\ copied'[u] = copied[u]
      BY <2>4, <2>5
    <2>7. h = d => c \in sawEmpty'
      BY <1>2, <2>1, <2>5
    <2>8. UNCHANGED <<memory, data, head, tail, next, node, sawEmpty>> /\ ~Holding(c)
      BY <2>1, <2>5
    <2>9. Inside(c, "takeTail", h, t, d, s)
      BY <2>1, <2>2, <2>3, <2>6, <2>7, <2>8 DEF Inside
    <2> QED
      BY <2>9, InsideTake
  <1>7. ASSUME TakeTail(c) PROVE ListIs(h, t, d, s)'
    <2>1. pc' = [pc EXCEPT ![c] = "takeNext"] /\ pc[c] = "takeTail" /\ seenTail' = [seenTail EXCEPT ![c] = tail]
      BY <1>7 DEF TakeTail
    <2>2. HeadRight(c, h, d, s)'
      BY <1>3, <1>7, <2>1 DEF TakeTail, HeadRight
    <2>3. NextRight(c, h, t, s)'
      BY <1>0, <2>1 DEF NextRight
    <2>4. \A u \in Threads : u # c => seenTail'[u] = seenTail[u]
      BY <2>1
    <2>5. UNCHANGED <<heap, list, node, seenHead, seenNext, copied, sawEmpty>>
      BY <1>7 DEF TakeTail
    <2>6. \A u \in Threads : u # c => /\ seenHead'[u] = seenHead[u] /\ seenTail'[u] = seenTail[u]
                                      /\ seenNext'[u] = seenNext[u] /\ copied'[u] = copied[u]
      BY <2>4, <2>5
    <2>7. h = d => c \in sawEmpty'
      BY <1>2, <2>1, <2>5
    <2>8. UNCHANGED <<memory, data, head, tail, next, node, sawEmpty>> /\ ~Holding(c)
      BY <2>1, <2>5
    <2>9. Inside(c, "takeNext", h, t, d, s)
      BY <2>1, <2>2, <2>3, <2>6, <2>7, <2>8 DEF Inside
    <2> QED
      BY <2>9, InsideTake
  <1>8. ASSUME TakeNext(c) PROVE ListIs(h, t, d, s)'
    <2>1. PICK n \in Loaded(seenHead[c].ptr) : seenNext' = [seenNext EXCEPT ![c] = n]
      BY <1>8 DEF TakeNext
    <2>2. pc' = [pc EXCEPT ![c] = "takeCheck"] /\ pc[c] = "takeNext"
      BY <1>8 DEF TakeNext
    <2>3. HeadRight(c, h, d, s)'
      BY <1>3, <1>8, <2>2 DEF TakeNext, HeadRight
    <2>4. seenHead[c].ptr = s[h] => NextRight(c, h, t, s)'
      <3> SUFFICES ASSUME seenHead[c].ptr = s[h] PROVE NextRight(c, h, t, s)'
        OBVIOUS
      <3>1. seenNext'[c] = next[s[h]]
        BY <1>0, <2>1 DEF Loaded
      <3>2. next[s[h]] = Null => c \in sawEmpty
        <4>1. h # d => s[h + 1] \in Nodes
          BY <1>0
        <4> QED
          BY <1>0, <1>2, <2>2, <4>1
      <3>3. seenTail[c].ptr # s[h] => t # h
        BY <1>4, <2>2 DEF NextRight
      <3> QED
        BY <1>8, <2>2, <3>1, <3>2, <3>3 DEF NextRight, TakeNext
    <2> QED
      BY <1>2, <1>8, <2>1, <2>2, <2>3, <2>4, InsideTake DEF Inside, TakeNext
  <1>9. ASSUME TakeCheck(c) PROVE ListIs(h, t, d, s)'
    <2>1. UNCHANGED <<heap, client, spurious, list, locals, sawEmpty>> /\ pc[c] = "takeCheck"
      BY <1>9 DEF TakeCheck
    <2>2. PICK x \in {"takeHead", "empty", "takeHelp", "takeCopy"} :
             /\ pc' = [pc EXCEPT ![c] = x]
             /\ x # "takeHead" => seenHead[c] = head
             /\ x = "empty" => seenNext[c] = Null
             /\ x = "takeHelp" => seenHead[c].ptr = seenTail[c].ptr /\ seenNext[c] # Null
             /\ x = "takeCopy" => seenHead[c].ptr # seenTail[c].ptr /\ seenNext[c] # Null
      BY <1>9 DEF TakeCheck
    <2>3. HeadKnown(c)' => HeadRight(c, h, d, s)'
      BY <1>3, <2>1, <2>2 DEF HeadRight
    <2>4. HeadKnown(c)' /\ seenHead[c].ptr = s[h] => NextRight(c, h, t, s)'
      BY <1>4, <2>1, <2>2 DEF NextRight
    <2>5. x = "empty" => c \in sawEmpty
      BY <1>0, <1>4, <2>1, <2>2 DEF NextRight
    <2> QED
      BY <1>2, <2>1, <2>2, <2>3, <2>4, <2>5, InsideTake DEF Inside
  <1>10. ASSUME TakeCopy(c) PROVE ListIs(h, t, d, s)'
    <2>1. pc' = [pc EXCEPT ![c] = "takeCas"] /\ pc[c] = "takeCopy"
      BY <1>10 DEF TakeCopy
    <2>2. HeadRight(c, h, d, s)'
      BY <1>3, <1>10, <2>1 DEF TakeCopy, HeadRight
    <2>3. seenHead[c].ptr = s[h] => NextRight(c, h, t, s)'
      <3> SUFFICES ASSUME seenHead[c].ptr = s[h] PROVE NextRight(c, h, t, s)'
        OBVIOUS
      <3>1. seenNext[c] = next[s[h]] /\ seenNext[c] # Null /\ t # h
        BY <1>4, <2>1 DEF NextRight
      <3>2. h + 1 \in h..d /\ seenNext[c] = s[h + 1]
        BY <1>0, <3>1
      <3>3. memory[seenNext[c]] = "live"
        BY <3>2 DEF ListIs, Kept
      <3>4. copied'[c] = data[seenNext[c]]
        BY <1>10, <3>3 DEF TakeCopy
      <3> QED
        BY <1>10, <2>1, <3>1, <3>4 DEF NextRight, TakeCopy
    <2>4. \A u \in Threads : u # c => copied'[u] = copied[u]
      BY <1>10 DEF TakeCopy
    <2>5. UNCHANGED <<heap, list, node, seenHead, seenTail, seenNext, sawEmpty>>
      BY <1>10 DEF TakeCopy
    <2>6. \A u \in Threads : u # c => /\ seenHead'[u] = seenHead[u] /\ seenTail'[u] = seenTail[u]
                                      /\ seenNext'[u] = seenNext[u] /\ copied'[u] = copied[u]
      BY <2>4, <2>5
    <2>7. h = d => c \in sawEmpty'
      BY <1>2, <2>1, <2>5
    <2>8. UNCHANGED <<memory, data, head, tail, next, node, sawEmpty>> /\ ~Holding(c)
      BY <2>1, <2>5
    <2>9. Inside(c, "takeCas", h, t, d, s)
      BY <2>1, <2>2, <2>3, <2>5, <2>6, <2>7, <2>8 DEF Inside
    <2> QED
      BY <2>9, InsideTake
  <1>11. ASSUME TakeCas(c) PROVE ListIs(h, t, d, s)'
    <2>1. pc' = [pc EXCEPT ![c] = "takeHead"] /\ pc[c] = "takeCas" /\ UNCHANGED <<head, node, sawEmpty>>
      BY <1>11 DEF TakeCas, TakesNode
    <2> QED
      BY <1>2, <1>11, <2>1, InsideTake DEF Inside, TakeCas
  <1>12. ASSUME TakeEmpty(c) PROVE ListIs(h, t, d, s)'
    <2>1. pc' = [pc EXCEPT ![c] = "idle"] /\ pc[c] = "empty"
      BY <1>12 DEF TakeEmpty
    <2>2. node' = node
      BY <1>12, <2>1 DEF TakeEmpty, Forget, HandsApart
    <2> QED
      BY <1>2, <1>12, <2>1, <2>2, InsideTake DEF Inside, TakeEmpty, Forget
  <1>13. ASSUME TakeHelp(c) PROVE \E v \in t..d : ListIs(h, v, d, s)'
    <2>1. /\ pc[c] = "takeHelp" /\ pc' = [pc EXCEPT ![c] = "takeHead"] /\ SwingTail(c, seenNext[c])
          /\ UNCHANGED <<memory, data, head, next, node, seenHead, seenTail, seenNext, copied, sawEmpty>>
      BY <1>13 DEF TakeHelp
    <2>2. PICK v \in t..d : /\ v \in h..d /\ tail'.ptr = s[v]
                            /\ tail = seenTail[c] => seenNext[c] = s[v]
                            /\ tail # seenTail[c] => v = t /\ tail' = tail
      <3>1. c \in Threads
        OBVIOUS
      <3> QED
        BY <2>1, <3>1, TailMoves
    <2>3. tail = seenTail[c] => t = h /\ h # d /\ v = h + 1
      <3> SUFFICES ASSUME tail = seenTail[c] PROVE t = h /\ h # d /\ v = h + 1
        OBVIOUS
      <3>1. s[t] = seenHead[c].ptr /\ HeadKnown(c)
        BY <1>0, <2>1 DEF HelpSeen
      <3>2. t = h
        <4>1. t \notin h + 1..d
          BY <1>3, <3>1 DEF HeadRight
        <4> QED
          BY <1>0, <4>1
      <3>3. seenNext[c] = next[s[h]] /\ seenNext[c] # Null
        BY <1>4, <2>1, <3>1, <3>2 DEF NextRight
      <3>4. h # d /\ s[v] = s[h + 1] /\ h + 1 \in h..d
        <4>1. s[v] = next[s[h]]
          BY <2>2, <3>3
        <4> QED
          BY <1>0, <3>3, <4>1
      <3> QED
        BY <2>2, <3>2, <3>4 DEF ListIs, Linked
    <2>4. Linked(h, v, d, s)'
      BY <1>0, <2>1, <2>2, ListKept DEF ListIs
    <2>5. Kept(h, d, s)'
      BY <2>1 DEF ListIs, Kept
    <2>6. HeadSeen(h, d, s)'
      BY <2>1 DEF ListIs, HeadSeen, HeadRight
    <2>7. NextSeen(h, v, s)'
      <3>1. t # h => v # h
        BY <1>0, <2>2
      <3>2. \A b \in Consumers : HeadKnown(b)' => HeadKnown(b) /\ pc'[b] = pc[b]
        BY <2>1
      <3> HIDE DEF HeadKnown
      <3> QED
        BY <2>1, <3>1, <3>2 DEF ListIs, NextSeen, NextRight
    <2>8. EmptySeen(h, d)'
      BY <2>1 DEF ListIs, EmptySeen
    <2>9. OnePut(v, d, s)'
      <3> SUFFICES ASSUME OneProducer, NEW p \in Producers
                   PROVE  /\ pc[p] \in {"idle", "putLoad", "put"} => v = d
                          /\ pc[p] \in {"putNext", "putLink"} => v = d /\ tail' = seenTail[p]
                          /\ pc[p] # "putHelp"
                          /\ pc[p] = "putSwing" => node[p] = s[d] /\ (v = d \/ (v = d - 1 /\ tail' = seenTail[p]))
        BY <2>1 DEF OnePut
      <3>1. /\ pc[p] \in {"idle", "putLoad", "put"} => t = d
            /\ pc[p] \in {"putNext", "putLink"} => t = d /\ tail = seenTail[p]
            /\ pc[p] # "putHelp"
            /\ pc[p] = "putSwing" => node[p] = s[d] /\ (t = d \/ (t = d - 1 /\ tail = seenTail[p]))
        BY DEF ListIs, OnePut
      <3>2. CASE tail # seenTail[c]
        BY <2>2, <3>1, <3>2
      <3>3. CASE tail = seenTail[c]
        <4>1. t # d /\ (t = d - 1 => v = d)
          BY <1>0, <2>3, <3>3
        <4> QED
          BY <3>1, <4>1
      <3> QED
        BY <3>2, <3>3
    <2>10. ManyPut(h, d, s)'
      BY DEF ManyPut
    <2> QED
      BY <2>4, <2>5, <2>6, <2>7, <2>8, <2>9, <2>10 DEF ListIs
  <1>14. ASSUME TakeStore(c) PROVE ListIs(h, t, d, s)'
    <2>1. /\ pc[c] = "takeStore" /\ pc' = [pc EXCEPT ![c] = "taken"]
          /\ data' = [data EXCEPT ![node[c]] = copied[c]] /\ next' = [next EXCEPT ![node[c]] = Null]
          /\ UNCHANGED <<memory, head, tail, node, seenHead, seenTail, seenNext, copied, sawEmpty>>
      BY <1>14 DEF TakeStore
    <2>2. \A i \in h..d : s[i] # node[c]
      BY <2>1 DEF ListIs, Kept
    <2>3. Linked(h, t, d, s)'
      BY <1>0, <2>1, <2>2, ListKept DEF ListIs
    <2>4. Kept(h, d, s)'
      <3>1. \A u \in Threads : Owns(u)' = Owns(u) /\ Linking(u)' = Linking(u)
        BY <2>1
      <3> HIDE DEF Owns, Linking
      <3> QED
        BY <2>1, <3>1 DEF ListIs, Kept
    <2>5. HeadSeen(h, d, s)'
      BY <2>1 DEF ListIs, HeadSeen, HeadRight
    <2>6. NextSeen(h, t, s)'
      <3>1. next'[s[h]] = next[s[h]]
        BY <1>0, <2>1, <2>2
      <3>2. \A b \in Consumers : HeadKnown(b)' => HeadKnown(b) /\ pc'[b] = pc[b]
        BY <2>1
      <3>3. ASSUME NEW b \in Consumers, HeadKnown(b), pc[b] = "takeCas", seenHead[b].ptr = s[h]
            PROVE  data'[seenNext[b]] = data[seenNext[b]]
        <4>1. seenNext[b] = next[s[h]] /\ seenNext[b] # Null
          BY <3>3 DEF ListIs, NextSeen, NextRight
        <4>2. h + 1 \in h..d /\ seenNext[b] = s[h + 1]
          BY <1>0, <4>1
        <4> QED
          BY <1>0, <2>1, <2>2, <4>2
      <3> HIDE DEF HeadKnown
      <3> QED
        BY <2>1, <3>1, <3>2, <3>3 DEF ListIs, NextSeen, NextRight
    <2>7. EmptySeen(h, d)'
      BY <2>1 DEF ListIs, EmptySeen
    <2>8. OnePut(t, d, s)'
      BY <2>1 DEF ListIs, OnePut
    <2>9. ManyPut(h, d, s)'
      BY DEF ManyPut
    <2> QED
      BY <2>3, <2>4, <2>5, <2>6, <2>7, <2>8, <2>9 DEF ListIs
  <1>15. ASSUME TakeReturn(c) PROVE ListIs(h, t, d, s)'
    <2>1. /\ pc[c] = "taken" /\ pc' = [pc EXCEPT ![c] = "idle"] /\ Forget(c)
          /\ memory' = [memory EXCEPT ![node[c]] = "deleted"]
          /\ UNCHANGED <<data, head, tail, next, sawEmpty>>
      BY <1>15 DEF TakeReturn, Consume
    <2>2. \A i \in h..d : s[i] # node[c]
      BY <2>1 DEF ListIs, Kept
    <2>3. Linked(h, t, d, s)'
      BY <1>0, <2>1, ListKept DEF ListIs
    <2>4. \A u \in Threads : u # c =>
             /\ pc'[u] = pc[u] /\ node'[u] = node[u] /\ seenHead'[u] = seenHead[u] /\ copied'[u] = copied[u]
             /\ seenTail'[u] = seenTail[u] /\ seenNext'[u] = seenNext[u]
      BY <2>1 DEF Forget
    <2>5. node'[c] = Null /\ pc'[c] = "idle"
      BY <2>1 DEF Forget
    <2>6. Kept(h, d, s)'
      <3>1. ASSUME NEW i \in h..d
            PROVE  memory'[s[i]] = "live" /\ \A u \in Threads : node'[u] = s[i] => Linking(u)'
        <4>1. s[i] \in Nodes /\ memory[s[i]] = "live" /\ \A u \in Threads : node[u] = s[i] => Linking(u)
          BY <1>0 DEF ListIs, Kept
        <4> QED
          BY <2>1, <2>2, <2>4, <2>5, <4>1
      <3>2. ASSUME NEW n \in Nodes, memory'[n] = "live"
            PROVE  (\E i \in h..d : n = s[i]) \/ \E u \in Threads : Owns(u)' /\ node'[u] = n
        <4>1. n # node[c] /\ memory[n] = "live"
          BY <2>1, <3>2
        <4>2. CASE \E u \in Threads : Owns(u) /\ node[u] = n
          <5>1. PICK u \in Threads : Owns(u) /\ node[u] = n
            BY <4>2
          <5>2. u # c
            BY <4>1, <5>1
          <5> QED
            BY <2>4, <5>1, <5>2
        <4> QED
          BY <4>1, <4>2 DEF ListIs, Kept
      <3> QED
        BY <3>1, <3>2 DEF Kept
    <2>7. HeadSeen(h, d, s)'
      <3> SUFFICES ASSUME NEW b \in Consumers, HeadKnown(b)' PROVE HeadRight(b, h, d, s)'
        BY DEF HeadSeen
      <3>1. b # c /\ HeadKnown(b) /\ seenHead'[b] = seenHead[b]
        BY <2>4, <2>5
      <3>2. HeadRight(b, h, d, s)
        BY <3>1 DEF ListIs, HeadSeen
      <3>3. \A u \in Threads : Unlinked(u)' => Unlinked(u) /\ node'[u] = node[u]
        BY <2>4, <2>5
      <3>4. seenHead[b].ptr \in Nodes
        BY <3>1 DEF HandsApart
      <3>5. memory'[seenHead[b].ptr] # "fresh"
        BY <2>1, <3>2, <3>4 DEF HeadRight
      <3> HIDE DEF Unlinked
      <3> QED
        BY <2>1, <3>1, <3>2, <3>3, <3>5 DEF HeadRight
    <2>8. NextSeen(h, t, s)'
      <3> SUFFICES ASSUME NEW b \in Consumers, HeadKnown(b)', seenHead'[b].ptr = s[h]
                   PROVE  NextRight(b, h, t, s)'
        BY DEF NextSeen
      <3>1. b # c /\ HeadKnown(b) /\ seenHead'[b] = seenHead[b]
        BY <2>4, <2>5
      <3>2. NextRight(b, h, t, s)
        BY <3>1 DEF ListIs, NextSeen
      <3> QED
        BY <2>1, <2>4, <3>1, <3>2 DEF NextRight
    <2>9. EmptySeen(h, d)'
      BY <2>1 DEF ListIs, EmptySeen
    <2>10. OnePut(t, d, s)'
      <3>1. \A p \in Producers : pc'[p] = pc[p] /\ node'[p] = node[p] /\ seenTail'[p] = seenTail[p]
        BY <2>4
      <3> QED
        BY <2>1, <3>1 DEF ListIs, OnePut
    <2>11. ManyPut(h, d, s)'
      BY DEF ManyPut
    <2> QED
      BY <2>3, <2>6, <2>7, <2>8, <2>9, <2>10, <2>11 DEF ListIs
  <1> QED
    BY <1>0, <1>5, <1>6, <1>7, <1>8, <1>9, <1>10, <1>11, <1>12, <1>13, <1>14, <1>15 DEF Take

\* What a thread has for itself it keeps as it is.
LEMMA OwnStep ==
  ASSUME Harmless, ThreadInv, NEW h, NEW t, NEW d, NEW s, ListIs(h, t, d, s), [Next]_vars, ~Finished
  PROVE  Ending' /\ HelpSeen'
  <1> USE ConstantsAreApart DEF ThreadInv, TypeOK, ClientTypeOK, Places, PutPlaces, TakePlaces,
        Unlinked, Holding, Linking, Owns, TailKnown, HeadKnown, heap, client, list, locals, Move
  <1>1. ASSUME UNCHANGED next, \A q \in Producers : Unlinked(q)' => Unlinked(q) /\ node'[q] = node[q]
        PROVE  Ending'
    BY <1>1 DEF Ending
  <1>2. ASSUME NEW p \in Producers, Put(p) PROVE Ending'
    <2>1. ASSUME CallPut(p) PROVE Ending'
      <3>1. PICK n \in Nodes : /\ memory[n] # "live" /\ node' = [node EXCEPT ![p] = n]
                               /\ next' = [next EXCEPT ![n] = Null]
        BY <2>1 DEF CallPut, Make, Allocatable
      <3>2. \A q \in Producers : q # p /\ Unlinked(q)' => /\ Unlinked(q) /\ node'[q] = node[q]
                                                         /\ node[q] # n /\ node[q] \in Nodes
        BY <2>1, <3>1 DEF CallPut, HandsApart
      <3>3. node'[p] = n
        BY <3>1
      <3> HIDE DEF Unlinked
      <3> QED
        BY <3>1, <3>2, <3>3 DEF Ending
    <2>2. ASSUME PutLink(p) PROVE Ending'
      <3>1. PICK i \in h..d : seenTail[p].ptr = s[i]
        BY <2>2, LastIsListed DEF PutLink
      <3>2. \A q \in Producers : Unlinked(q) => node[q] # s[i]
        BY <3>1 DEF ListIs, Kept
      <3>3. \A q \in Producers : Unlinked(q)' => /\ Unlinked(q) /\ node'[q] = node[q] /\ node[q] \in Nodes
        BY <2>2 DEF PutLink, HandsApart
      <3>4. \A n \in Nodes : n # s[i] => next'[n] = next[n]
        BY <2>2, <3>1 DEF PutLink
      <3> HIDE DEF Unlinked
      <3> QED
        BY <3>2, <3>3, <3>4 DEF Ending
    <2>3. CASE PutLoad(p)
      BY <1>1, <2>3 DEF PutLoad
    <2>4. CASE PutNext(p)
      BY <1>1, <2>4 DEF PutNext
    <2>5. CASE PutHelp(p)
      BY <1>1, <2>5 DEF PutHelp
    <2>6. CASE PutSwing(p)
      BY <1>1, <2>6 DEF PutSwing
    <2>7. CASE PutReturn(p)
      BY <1>1, <2>7 DEF PutReturn, Forget
    <2> QED
      BY <1>2, <2>1, <2>2, <2>3, <2>4, <2>5, <2>6, <2>7 DEF Put
  <1>3. ASSUME NEW c \in Consumers, Take(c) PROVE Ending'
    <2>1. \A q \in Producers : Unlinked(q)' => Unlinked(q) /\ node'[q] = node[q] /\ node[q] \in Nodes
      BY <1>3 DEF Take, CallTake, TakeHead, TakeTail, TakeNext, TakeCheck, TakeHelp, TakeCopy, TakeCas,
                  TakeStore, TakeEmpty, TakeReturn, Forget, HandsApart
    <2>2. next' = next \/ \E n \in Nodes : next' = [next EXCEPT ![n] = Null]
      BY <1>3 DEF Take, CallTake, TakeHead, TakeTail, TakeNext, TakeCheck, TakeHelp, TakeCopy, TakeCas,
                  TakeStore, TakeEmpty, TakeReturn, HandsApart
    <2> HIDE DEF Unlinked
    <2> QED
      BY <2>1, <2>2 DEF Ending
  <1>4. ASSUME UNCHANGED vars PROVE Ending' /\ HelpSeen'
    BY <1>4 DEF vars, Ending, HelpSeen
  <1>5. ASSUME NEW p \in Producers, Put(p) PROVE HelpSeen'
    <2>1. \A c \in Consumers : pc'[c] = pc[c] /\ seenHead'[c] = seenHead[c] /\ seenTail'[c] = seenTail[c]
      BY <1>5 DEF Put, CallPut, PutLoad, PutNext, PutHelp, PutLink, PutSwing, PutReturn, Forget
    <2> QED
      BY <2>1 DEF HelpSeen
  <1>6. ASSUME NEW c \in Consumers, Take(c) PROVE HelpSeen'
    <2>1. \A b \in Consumers : b # c =>
             pc'[b] = pc[b] /\ seenHead'[b] = seenHead[b] /\ seenTail'[b] = seenTail[b]
      BY <1>6 DEF Take, CallTake, TakeHead, TakeTail, TakeNext, TakeCheck, TakeHelp, TakeCopy, TakeCas,
                  TakeStore, TakeEmpty, TakeReturn, Forget
    <2>2. pc'[c] = "takeHelp" => seenTail'[c].ptr = seenHead'[c].ptr
      BY <1>6 DEF Take, CallTake, TakeHead, TakeTail, TakeNext, TakeCheck, TakeHelp, TakeCopy, TakeCas,
                  TakeStore, TakeEmpty, TakeReturn, Forget
    <2> QED
      BY <2>1, <2>2 DEF HelpSeen
  <1>7. Destroy => FALSE
    BY DEF Destroy
  <1> QED
    BY <1>2, <1>3, <1>4, <1>5, <1>6, <1>7 DEF Next

\* When the threads have finished there is the destructor at most.
LEMMA FinishedRests ==
  ASSUME TypeOK, Finished, [Next]_vars
  PROVE  UNCHANGED vars \/ Destroy
  <1>1. ASSUME NEW p \in Producers PROVE ~Put(p)
    BY ConstantsAreApart DEF Finished, Put, CallPut, PutLoad, PutNext, PutHelp, PutLink, PutSwing, PutReturn,
         Move, Busy, TypeOK, ClientTypeOK
  <1>2. ASSUME NEW c \in Consumers PROVE ~Take(c)
    BY ConstantsAreApart DEF Finished, Take, CallTake, TakeHead, TakeTail, TakeNext, TakeCheck, TakeHelp,
         TakeCopy, TakeCas, TakeStore, TakeEmpty, TakeReturn, Move, Busy, TypeOK, ClientTypeOK
  <1> QED
    BY <1>1, <1>2 DEF Next


\* The destructor deletes every node there is.
LEMMA DestroyStep ==
  ASSUME ThreadInv, NEW h, NEW t, NEW d, NEW s, ListIs(h, t, d, s), Counted(h, d), Destroy
  PROVE  Destroyed'
  <1>1. /\ h \in Nat /\ d \in Nat /\ t \in h..d /\ h <= d
        /\ s \in [h..d -> Nodes] /\ head.ptr = s[h] /\ tail.ptr = s[t]
    BY DEF ListIs, Linked
  <1>2. Listed = {s[i] : i \in h..d} /\ (Chain = <<>> <=> h = d) /\ (h # d => Chain[Len(Chain)] = s[d])
    BY ChainFacts DEF ListIs
  <1>3. \A u \in Threads : pc[u] = "idle"
    BY DEF Destroy, Finished
  <1>4. \A n \in Nodes : memory[n] = "live" => n \in Listed
    <2>1. \A u \in Threads : ~Owns(u)
      BY <1>3 DEF Owns, Unlinked, Holding
    <2>2. \A n \in Nodes : memory[n] = "live" => \E i \in h..d : n = s[i]
      BY <2>1 DEF ListIs, Kept
    <2> QED
      BY <1>2, <2>2
  <1>5. \A u \in Threads : node[u] = Null
    BY <1>3 DEF ThreadInv, HandsApart, Owns, Unlinked, Holding, Linking
  <1>6. \A n \in Nodes : memory'[n] # "live"
    <2> DEFINE last == IF tail.ptr \notin Listed \/ Chain = <<>> THEN tail.ptr ELSE Chain[Len(Chain)]
               took == IF Chain = <<>> THEN {} ELSE Listed \ {Chain[Len(Chain)]}
    <2>1. memory' = [n \in Nodes |-> IF n \in took \cup {last} THEN "deleted" ELSE memory[n]]
      BY DEF Destroy
    <2>2. Listed \subseteq took \cup {last}
      <3>1. CASE h = d
        <4>1. Listed = {s[h]} /\ last = s[h]
          <5>1. h..d = {h} /\ t = h
            BY <1>1, <3>1
          <5> QED
            BY <1>1, <1>2, <3>1, <5>1
        <4> QED
          BY <4>1
      <3>2. CASE h # d
        <4>1. tail.ptr \in Listed
          BY <1>1, <1>2
        <4> QED
          BY <1>2, <3>2, <4>1
      <3> QED
        BY <3>1, <3>2
    <2> HIDE DEF took, last
    <2> QED
      BY <1>4, <2>1, <2>2
  <1>7. UNCHANGED <<data, client, spurious, list, pc, locals, sawEmpty>>
    BY DEF Destroy
  <1>8. TypeOK' /\ AssertionsHold'
    <2>1. TypeOK'
      <3>1. [Next]_vars
        BY DEF Next
      <3> QED
        BY <3>1, TypeStep DEF ThreadInv
    <2>2. AssertionsHold'
      BY <1>7, Zenon DEF ThreadInv, AssertionsHold, client
    <2> QED
      BY <2>1, <2>2
  <1>9. Finished' /\ \A u \in Threads : node'[u] = Null
    BY <1>5, <1>7 DEF Destroy, Finished, client, locals
  <1>10. Linked(h, t, d, s)' /\ Counted(h, d)'
    BY <1>7 DEF ListIs, Linked, Counted, UnlinkedOnes, HoldingOnes, Unlinked, Holding, client, list, locals
  <1> QED
    BY <1>6, <1>8, <1>9, <1>10 DEF Destroyed

\* Nothing happens any more.
LEMMA DestroyedStays ==
  ASSUME Destroyed, [Next]_vars
  PROVE  UNCHANGED vars /\ Destroyed'
  <1>1. ~Destroy
    <2>1. head.ptr \in Nodes
      BY DEF Destroyed, TypeOK, Words, Pointers
    <2> QED
      BY <2>1 DEF Destroy, Destroyed
  <1>2. UNCHANGED vars
    BY <1>1, FinishedRests DEF Destroyed
  <1>3. UNCHANGED <<heap, client, spurious, list, pc, locals, sawEmpty>>
    BY <1>2 DEF vars
  <1>4. TypeOK' /\ AssertionsHold'
    <2>1. TypeOK'
      BY <1>3 DEF Destroyed, TypeOK, ClientTypeOK, heap, client, list, locals
    <2>2. AssertionsHold'
      BY <1>3, Zenon DEF Destroyed, AssertionsHold, client
    <2> QED
      BY <2>1, <2>2
  <1>5. Finished' /\ (\A n \in Nodes : memory'[n] # "live") /\ \A u \in Threads : node'[u] = Null
    BY <1>3 DEF Destroyed, Finished, heap, client, locals
  <1>6. \E h, t, d, s : Linked(h, t, d, s)' /\ Counted(h, d)'
    <2>1. PICK h, t, d, s : Linked(h, t, d, s) /\ Counted(h, d)
      BY DEF Destroyed
    <2>2. Linked(h, t, d, s)'
      BY <1>3, <2>1 DEF Linked, list
    <2>3. Counted(h, d)'
      BY <1>3, <2>1 DEF Counted, UnlinkedOnes, HoldingOnes, Unlinked, Holding, client
    <2> QED
      BY <2>2, <2>3
  <1> QED
    BY <1>2, <1>4, <1>5, <1>6 DEF Destroyed

\* A step that changes nothing keeps the list.
LEMMA ListStutters ==
  ASSUME NEW h, NEW t, NEW d, NEW s, ListIs(h, t, d, s), Counted(h, d), UNCHANGED vars
  PROVE  ListIs(h, t, d, s)' /\ Counted(h, d)'
  <1> USE DEF vars, heap, client, list, locals, Unlinked, Holding, Owns, Linking, TailKnown, HeadKnown
  <1>1. Linked(h, t, d, s)' /\ Kept(h, d, s)'
    BY DEF ListIs, Linked, Kept
  <1>2. HeadSeen(h, d, s)' /\ NextSeen(h, t, s)' /\ EmptySeen(h, d)'
    BY DEF ListIs, HeadSeen, HeadRight, NextSeen, NextRight, EmptySeen
  <1>3. OnePut(t, d, s)' /\ ManyPut(h, d, s)'
    BY DEF ListIs, OnePut, ManyPut
  <1>4. Counted(h, d)'
    BY DEF Counted, UnlinkedOnes, HoldingOnes
  <1> QED
    BY <1>1, <1>2, <1>3, <1>4 DEF ListIs

-----------------------------------------------------------------------------
\* The sets that are counted.
LEMMA Finite ==
  ASSUME TypeOK
  PROVE  /\ IsFiniteSet(flags) /\ Cardinality(flags) \in Nat
         /\ IsFiniteSet(UnlinkedOnes) /\ Cardinality(UnlinkedOnes) \in Nat
         /\ IsFiniteSet(HoldingOnes) /\ Cardinality(HoldingOnes) \in Nat
  <1>1. IsFiniteSet(1..count - 1)
    BY FS_Interval DEF TypeOK, ClientTypeOK
  <1>2. IsFiniteSet(flags)
    BY <1>1, FS_Subset DEF TypeOK, ClientTypeOK
  <1>3. UnlinkedOnes \subseteq Threads /\ HoldingOnes \subseteq Threads
    BY DEF Threads, UnlinkedOnes, HoldingOnes
  <1>4. IsFiniteSet(UnlinkedOnes) /\ IsFiniteSet(HoldingOnes)
    BY <1>3, ClientAssumption, FS_Subset
  <1> QED
    BY <1>2, <1>4, FS_CardinalityType

\* A put sets a flag and takes a node in hand, or links it; what is counted stays
\* the same.
LEMMA PutCounts ==
  ASSUME ThreadInv, NEW h \in Nat, NEW d \in Nat, Counted(h, d), NEW p \in Producers, Put(p)
  PROVE  IF PutLinks(p) THEN Counted(h, d + 1)' ELSE Counted(h, d)'
  <1> USE ConstantsAreApart DEF ThreadInv, TypeOK, ClientTypeOK, Places, PutPlaces, TakePlaces,
        client, Move, Unlinked, Holding
  <1>0. /\ IsFiniteSet(flags) /\ Cardinality(flags) \in Nat
        /\ IsFiniteSet(UnlinkedOnes) /\ Cardinality(UnlinkedOnes) \in Nat
        /\ Cardinality(HoldingOnes) \in Nat
        /\ Cardinality(flags) = (d - h) + Cardinality(UnlinkedOnes) + Cardinality(HoldingOnes)
    BY Finite DEF Counted
  <1>1. \E x : pc' = [pc EXCEPT ![p] = x]
    BY DEF Put, CallPut, PutLoad, PutNext, PutHelp, PutLink, PutSwing, PutReturn
  <1>2. HoldingOnes' = HoldingOnes
    BY <1>1 DEF HoldingOnes
  <1>3. ASSUME CallPut(p) PROVE Counted(h, d)' /\ ~PutLinks(p)
    <2>1. pc[p] = "idle" /\ pc' = [pc EXCEPT ![p] = "putLoad"] /\ flags' = flags \cup {count}
      BY <1>3 DEF CallPut, Make
    <2>2. UnlinkedOnes' = UnlinkedOnes \cup {p} /\ p \notin UnlinkedOnes
      BY <2>1 DEF UnlinkedOnes
    <2>3. count \notin flags
      OBVIOUS
    <2>4. /\ Cardinality(flags') = Cardinality(flags) + 1
          /\ Cardinality(UnlinkedOnes') = Cardinality(UnlinkedOnes) + 1
      BY <1>0, <2>1, <2>2, <2>3, FS_AddElement
    <2>5. ~PutLinks(p)
      BY <2>1 DEF PutLinks
    <2> HIDE DEF ThreadInv
    <2> QED
      BY <1>0, <1>2, <2>4, <2>5 DEF Counted
  <1>4. ASSUME PutLinks(p) PROVE Counted(h, d + 1)'
    <2>1. pc[p] = "putLink" /\ pc' = [pc EXCEPT ![p] = "putSwing"] /\ flags' = flags
      BY <1>4 DEF PutLinks, PutLink
    <2>2. UnlinkedOnes' = UnlinkedOnes \ {p} /\ p \in UnlinkedOnes
      BY <2>1 DEF UnlinkedOnes
    <2>3. Cardinality(UnlinkedOnes') = Cardinality(UnlinkedOnes) - 1
      BY <1>0, <2>2, FS_RemoveElement
    <2> HIDE DEF ThreadInv
    <2> QED
      BY <1>0, <1>2, <2>1, <2>3 DEF Counted
  <1>5. ASSUME ~CallPut(p), ~PutLinks(p) PROVE Counted(h, d)'
    <2>1. flags' = flags
      BY <1>5 DEF Put, PutLoad, PutNext, PutHelp, PutLink, PutSwing, PutReturn
    <2>2. \A q \in Producers : Unlinked(q)' = Unlinked(q)
      BY <1>5 DEF Put, PutLoad, PutNext, PutHelp, PutLink, PutSwing, PutReturn, PutLinks
    <2>3. UnlinkedOnes' = UnlinkedOnes
      <3> HIDE DEF Unlinked
      <3> QED
        BY <2>2 DEF UnlinkedOnes
    <2> HIDE DEF ThreadInv
    <2> QED
      BY <1>0, <1>2, <2>1, <2>3 DEF Counted
  <1> QED
    BY <1>3, <1>4, <1>5

\* So for take.
LEMMA TakeCounts ==
  ASSUME ThreadInv, NEW h \in Nat, NEW d \in Nat, Counted(h, d), NEW c \in Consumers, Take(c)
  PROVE  IF TakesNode(c) THEN Counted(h + 1, d)' ELSE Counted(h, d)'
  <1> USE ConstantsAreApart DEF ThreadInv, TypeOK, ClientTypeOK, Places, PutPlaces, TakePlaces,
        client, Move, Unlinked, Holding
  <1>0. /\ IsFiniteSet(flags) /\ Cardinality(flags) \in Nat
        /\ IsFiniteSet(HoldingOnes) /\ Cardinality(HoldingOnes) \in Nat
        /\ Cardinality(UnlinkedOnes) \in Nat
        /\ Cardinality(flags) = (d - h) + Cardinality(UnlinkedOnes) + Cardinality(HoldingOnes)
    BY Finite DEF Counted
  <1>1. \E x : pc' = [pc EXCEPT ![c] = x]
    BY DEF Take, CallTake, TakeHead, TakeTail, TakeNext, TakeCheck, TakeHelp, TakeCopy, TakeCas,
           TakeStore, TakeEmpty, TakeReturn
  <1>2. UnlinkedOnes' = UnlinkedOnes
    BY <1>1 DEF UnlinkedOnes
  <1>3. ASSUME TakeReturn(c) PROVE Counted(h, d)' /\ ~TakesNode(c)
    <2>1. pc[c] = "taken" /\ pc' = [pc EXCEPT ![c] = "idle"] /\ flags' = flags \ {data[node[c]]}
      BY <1>3 DEF TakeReturn, Consume
    <2>2. HoldingOnes' = HoldingOnes \ {c} /\ c \in HoldingOnes
      BY <2>1 DEF HoldingOnes
    <2>3. data[node[c]] \in flags
      BY <2>1 DEF Numbered
    <2>4. /\ Cardinality(flags') = Cardinality(flags) - 1
          /\ Cardinality(HoldingOnes') = Cardinality(HoldingOnes) - 1
      <3>1. PICK n : n = data[node[c]]
        OBVIOUS
      <3>2. n \in flags /\ flags' = flags \ {n}
        BY <2>1, <2>3, <3>1
      <3> HIDE DEF ThreadInv
      <3>3. Cardinality(flags \ {n}) = Cardinality(flags) - 1
        BY <1>0, <3>2, FS_RemoveElement
      <3>4. Cardinality(HoldingOnes \ {c}) = Cardinality(HoldingOnes) - 1
        BY <1>0, <2>2, FS_RemoveElement
      <3> QED
        BY <2>2, <3>2, <3>3, <3>4
    <2>5. ~TakesNode(c)
      BY <2>1 DEF TakesNode
    <2> HIDE DEF ThreadInv
    <2> QED
      BY <1>0, <1>2, <2>4, <2>5 DEF Counted
  <1>4. ASSUME TakesNode(c) PROVE Counted(h + 1, d)'
    <2>1. pc[c] = "takeCas" /\ pc' = [pc EXCEPT ![c] = "takeStore"] /\ flags' = flags
      BY <1>4 DEF TakesNode, TakeCas
    <2>2. HoldingOnes' = HoldingOnes \cup {c} /\ c \notin HoldingOnes
      BY <2>1 DEF HoldingOnes
    <2>3. Cardinality(HoldingOnes') = Cardinality(HoldingOnes) + 1
      BY <1>0, <2>2, FS_AddElement
    <2> HIDE DEF ThreadInv
    <2> QED
      BY <1>0, <1>2, <2>1, <2>3 DEF Counted
  <1>5. ASSUME ~TakeReturn(c), ~TakesNode(c) PROVE Counted(h, d)'
    <2>1. flags' = flags
      BY <1>5 DEF Take, CallTake, TakeHead, TakeTail, TakeNext, TakeCheck, TakeHelp, TakeCopy, TakeCas,
                  TakeStore, TakeEmpty
    <2>2. \A b \in Consumers : Holding(b)' = Holding(b)
      BY <1>5 DEF Take, CallTake, TakeHead, TakeTail, TakeNext, TakeCheck, TakeHelp, TakeCopy, TakeCas,
                  TakeStore, TakeEmpty, TakesNode
    <2>3. HoldingOnes' = HoldingOnes
      <3> HIDE DEF Holding
      <3> QED
        BY <2>2 DEF HoldingOnes
    <2> HIDE DEF ThreadInv
    <2> QED
      BY <1>0, <1>2, <2>1, <2>3 DEF Counted
  <1> QED
    BY <1>3, <1>4, <1>5

-----------------------------------------------------------------------------
\* The list begins with the dummy the constructor allocates.
LEMMA InitIInv ==
  ASSUME Init
  PROVE  IInv
  <1> USE ConstantsAreApart DEF Init, ClientInit
  <1>1. head \in Words /\ head.ptr = Dummy /\ tail = head /\ NextVersion(0) \in 0..Versions - 1
    BY NullIsAWord, Combined DEF Pointers
  <1>2. TypeOK
    <2>1. ClientTypeOK
      <3>1. broken \in BOOLEAN
        BY Zenon
      <3>2. memory \in [Nodes -> {"fresh", "live", "deleted"}]
        BY Zenon
      <3>3. /\ data \in [Nodes -> Nat] /\ count \in Nat \ {0} /\ flags \subseteq 1..count - 1
            /\ done \in [Threads -> Nat] /\ spurious \in 0..MaxSpurious
        OBVIOUS
      <3> QED
        BY <3>1, <3>2, <3>3 DEF ClientTypeOK
    <2> QED
      BY <1>1, <2>1, NullIsAWord DEF TypeOK, PutPlaces, TakePlaces, Pointers
  <1>3. \A u \in Threads : pc[u] = "idle" /\ node[u] = Null
    OBVIOUS
  <1>4. Places
    BY <1>3 DEF Places
  <1> USE DEF Owns, Unlinked, Holding, Linking, TailKnown, HeadKnown
  <1>5. HandsApart /\ Ending /\ HelpSeen
    BY <1>3 DEF HandsApart, Ending, HelpSeen
  <1>6. Numbered
    <2>1. \A n \in Nodes : ~Carries(n)
      BY <1>1 DEF Carries
    <2> QED
      BY <1>3, <2>1 DEF Numbered
  <1>7. AssertionsHold
    BY Zenon DEF AssertionsHold
  <1>8. PICK s : s = [i \in 0..0 |-> Dummy]
    OBVIOUS
  <1>9. 0..0 = {0}
    OBVIOUS
  <1>10. ListIs(0, 0, 0, s)
    <2>1. Linked(0, 0, 0, s)
      BY <1>1, <1>8 DEF Linked
    <2>2. Kept(0, 0, s)
      BY <1>3, <1>8 DEF Kept
    <2>3. HeadSeen(0, 0, s) /\ NextSeen(0, 0, s) /\ EmptySeen(0, 0)
      BY <1>3 DEF HeadSeen, NextSeen, EmptySeen
    <2>4. OnePut(0, 0, s) /\ ManyPut(0, 0, s)
      BY <1>3 DEF OnePut, ManyPut
    <2> QED
      BY <2>1, <2>2, <2>3, <2>4 DEF ListIs
  <1>11. Counted(0, 0)
    <2>1. UnlinkedOnes = {} /\ HoldingOnes = {} /\ flags = {}
      BY <1>3 DEF UnlinkedOnes, HoldingOnes
    <2> QED
      BY <2>1, FS_EmptySet DEF Counted
  <1>12. ThreadInv
    BY <1>2, <1>4, <1>5, <1>6, <1>7 DEF ThreadInv
  <1> QED
    BY <1>10, <1>11, <1>12 DEF IInv, Running

\* Every step keeps the list, grows it, shrinks it or deletes it.
LEMMA NextIInv ==
  ASSUME Harmless, IInv, [Next]_vars
  PROVE  IInv'
  <1>1. CASE Destroyed
    BY <1>1, DestroyedStays DEF IInv
  <1>2. CASE Running
    <2>1. ThreadInv
      BY <1>2 DEF Running
    <2>2. PICK h, t, d, s : ListIs(h, t, d, s) /\ Counted(h, d)
      BY <1>2 DEF Running
    <2>3. h \in Nat /\ d \in Nat
      BY <2>2 DEF ListIs, Linked
    <2>4. CASE Destroy
      BY <2>1, <2>2, <2>4, DestroyStep DEF IInv
    <2>5. CASE UNCHANGED vars
      <3>1. ThreadInv'
        <4>1. UNCHANGED <<heap, client, spurious, list, pc, locals>>
          BY <2>5 DEF vars
        <4>2. TypeOK'
          BY <2>1, TypeStep DEF ThreadInv
        <4>3. AssertionsHold'
          BY <2>1, <4>1, Zenon DEF ThreadInv, AssertionsHold, client
        <4> QED
          BY <2>1, <4>1, <4>2, <4>3 DEF ThreadInv, Places, HandsApart, Ending, Numbered, HelpSeen,
             Carries, Owns, Unlinked, Holding, Linking, TailKnown, HeadKnown, heap, client, list, locals
      <3>2. ListIs(h, t, d, s)' /\ Counted(h, d)'
        BY <2>2, <2>5, ListStutters
      <3> QED
        BY <3>1, <3>2 DEF IInv, Running
    <2>6. CASE (\E p \in Producers : Put(p)) \/ (\E c \in Consumers : Take(c))
      <3>1. ~Finished
        <4>1. CASE Finished
          <5>1. UNCHANGED vars \/ Destroy
            BY <2>1, <4>1, FinishedRests DEF ThreadInv
          <5>2. ~(UNCHANGED pc)
            <6>1. ASSUME NEW p \in Producers, Put(p) PROVE pc' # pc
              BY <2>1, <6>1, ConstantsAreApart DEF ThreadInv, TypeOK, Put, CallPut, PutLoad, PutNext, PutHelp,
                 PutLink, PutSwing, PutReturn, Move
            <6>2. ASSUME NEW c \in Consumers, Take(c) PROVE pc' # pc
              BY <2>1, <6>2, ConstantsAreApart DEF ThreadInv, TypeOK, Take, CallTake, TakeHead, TakeTail,
                 TakeNext, TakeCheck, TakeHelp, TakeCopy, TakeCas, TakeStore, TakeEmpty, TakeReturn, Move
            <6> QED
              BY <2>6, <6>1, <6>2
          <5> QED
            BY <5>1, <5>2 DEF vars, Destroy
        <4> QED
          BY <4>1
      <3>2. ThreadInv'
        <4>1. TypeOK' /\ Places'
          BY <2>1, TypeStep DEF ThreadInv
        <4>2. HandsApart'
          BY <2>1, <2>2, <3>1, HandsStep
        <4>3. Numbered' /\ AssertionsHold'
          BY <2>1, <2>2, <3>1, NumbersStep
        <4>4. Ending' /\ HelpSeen'
          BY <2>1, <2>2, <3>1, OwnStep
        <4> QED
          BY <4>1, <4>2, <4>3, <4>4 DEF ThreadInv
      <3>3. ASSUME NEW p \in Producers, Put(p)
            PROVE  \E i, u, l, r : ListIs(i, u, l, r)' /\ Counted(i, l)'
        <4>1. IF PutLinks(p) THEN Counted(h, d + 1)' ELSE Counted(h, d)'
          BY <2>1, <2>2, <2>3, <3>3, PutCounts
        <4>2. CASE PutLinks(p)
          <5>1. \E r : ListIs(h, t, d + 1, r)'
            BY <2>1, <2>2, <4>2, ListGrows
          <5> QED
            BY <4>1, <4>2, <5>1
        <4>3. CASE ~PutLinks(p)
          <5>1. \E v : ListIs(h, v, d, s)'
            BY <2>1, <2>2, <3>3, <4>3, PutStays
          <5> QED
            BY <4>1, <4>3, <5>1
        <4> QED
          BY <4>2, <4>3
      <3>4. ASSUME NEW c \in Consumers, Take(c)
            PROVE  \E i, u, l, r : ListIs(i, u, l, r)' /\ Counted(i, l)'
        <4>1. IF TakesNode(c) THEN Counted(h + 1, d)' ELSE Counted(h, d)'
          BY <2>1, <2>2, <2>3, <3>4, TakeCounts
        <4>2. CASE TakesNode(c)
          <5>1. \E r : ListIs(h + 1, t, d, r)'
            BY <2>1, <2>2, <4>2, ListShrinks
          <5> QED
            BY <4>1, <4>2, <5>1
        <4>3. CASE ~TakesNode(c)
          <5>1. \E v : ListIs(h, v, d, s)'
            BY <2>1, <2>2, <3>4, <4>3, TakeStays
          <5> QED
            BY <4>1, <4>3, <5>1
        <4> QED
          BY <4>2, <4>3
      <3> QED
        BY <2>6, <3>2, <3>3, <3>4 DEF IInv, Running
    <2> QED
      BY <2>4, <2>5, <2>6 DEF Next
  <1> QED
    BY <1>1, <1>2 DEF IInv

\* The invariant says that the list is intact.
LEMMA IInvIsIntact ==
  ASSUME IInv
  PROVE  ListIntact
  <1>1. PICK h, t, d, s : Linked(h, t, d, s) /\ Counted(h, d) /\ (Running => Kept(h, d, s))
    BY DEF IInv, Running, Destroyed, ListIs
  <1>2. TypeOK /\ AssertionsHold
    BY DEF IInv, Running, Destroyed, ThreadInv
  <1>3. /\ h \in Nat /\ d \in Nat /\ t \in h..d /\ s \in [h..d -> Nodes] /\ tail.ptr = s[t]
    BY <1>1 DEF Linked
  <1>4. Listed = {s[i] : i \in h..d} /\ Len(Chain) = d - h
    BY <1>1, ChainFacts
  <1>5. NothingLost
    <2>1. /\ UnlinkedOnes = {p \in Producers : pc[p] \in PutPlaces \ {"putSwing", "put"}}
          /\ HoldingOnes = {c \in Consumers : pc[c] \in {"takeStore", "taken"}}
      BY DEF UnlinkedOnes, HoldingOnes, Unlinked, Holding, PutPlaces
    <2> QED
      BY <1>1, <1>4, <2>1 DEF NothingLost, Counted
  <1>6. Walk[Cardinality(Nodes)] = Null
    <2>1. d - h < Cardinality(Nodes) /\ Cardinality(Nodes) \in 0..Cardinality(Nodes)
      BY <1>1, LengthIsBounded, NodesAreCounted
    <2>2. ~(Cardinality(Nodes) < d - h)
      BY <1>3, <2>1, NodesAreCounted
    <2> QED
      BY <1>1, <2>1, <2>2, WalkMeetsList
  <1>7. tail.ptr \in Listed
    BY <1>3, <1>4
  <1>8. \/ \A n \in Listed : memory[n] = "live"
        \/ Finished /\ \A n \in Nodes : memory[n] # "live"
    BY <1>1, <1>4 DEF IInv, Kept, Destroyed
  <1>9. \A u \in Threads : node[u] \in Listed => pc[u] \in {"putSwing", "put"}
    BY <1>1, <1>3, <1>4, ConstantsAreApart DEF IInv, Kept, Destroyed, Linking
  <1> QED
    BY <1>2, <1>5, <1>6, <1>7, <1>8, <1>9 DEF ListIntact

\* The inductive invariant of the list (put, take and the destructor of
\* lockfree_list.h, under the threads of benchmark/main_lockfree.cpp).
THEOREM Safety == ASSUME Harmless PROVE Spec => []IInv
  <1>1. Init => IInv
    BY InitIInv
  <1>2. IInv /\ [Next]_vars => IInv'
    BY NextIInv
  <1> QED
    BY <1>1, <1>2, PTL DEF Spec

\* With one producer or no consumer, and with nodes that do not return or one
\* consumer, put and take lose no node: the list from _head on ends, its nodes
\* are live and in no other hands, _tail points to one of them, no assertion on
\* a node's flag fails, and the destructor deletes the nodes that are left.
THEOREM ListStaysIntact == ASSUME Harmless PROVE Spec => []ListIntact
  <1>1. IInv => ListIntact
    BY IInvIsIntact
  <1> QED
    BY <1>1, Safety, PTL

(***************************************************************************)
(* The list implements LinearQueue.  A put takes effect when it links its  *)
(* node, a take when it moves _head; nothing else is seen.                 *)
(***************************************************************************)

\* What LinearQueue sees of a state.
ItemsSeen   == [k \in DOMAIN Chain |-> data[Chain[k]]]
PhaseSeen   == [t \in Threads |-> Phase(t)]
HandedSeen  == [c \in Consumers |-> IF pc[c] \in {"takeStore", "taken"} THEN copied[c] ELSE 0]
PuttingSeen == [p \in Producers |-> IF pc[p] \in {"idle", "putSwing", "put"} THEN 0 ELSE data[node[p]]]

View == <<ItemsSeen, PhaseSeen, HandedSeen, PuttingSeen, sawEmpty>>

\* The items are the data of the nodes after the dummy, the first one first.
ItemsAre == \A h, t, d, s : Linked(h, t, d, s) => ItemsSeen = [k \in 1..d - h |-> data[s[h + k]]]

\* So they are in every state and in the next one.
LEMMA ItemsAreAlways == ItemsAre /\ ItemsAre'
  <1>1. ItemsAre
    <2> SUFFICES ASSUME NEW h, NEW t, NEW d, NEW s, Linked(h, t, d, s)
                 PROVE  ItemsSeen = [k \in 1..d - h |-> data[s[h + k]]]
      BY DEF ItemsAre
    <2>1. Chain = [k \in 1..d - h |-> s[h + k]]
      BY ChainIsList
    <2> QED
      BY <2>1 DEF ItemsSeen
  <1> QED
    BY <1>1, PTL

\* The items are the same while the list is, and the data of its nodes.
LEMMA ItemsStay ==
  ASSUME NEW h, NEW t, NEW v, NEW d, NEW s, Linked(h, t, d, s), Linked(h, v, d, s)',
         \A i \in h..d : data'[s[i]] = data[s[i]]
  PROVE  ItemsSeen' = ItemsSeen
  <1>1. ItemsSeen = [k \in 1..d - h |-> data[s[h + k]]]
    BY ItemsAreAlways DEF ItemsAre
  <1>2. ItemsSeen' = [k \in 1..d - h |-> data'[s[h + k]]]
    BY ItemsAreAlways DEF ItemsAre
  <1>3. \A k \in 1..d - h : h + k \in h..d
    BY DEF Linked
  <1> QED
    BY <1>1, <1>2, <1>3

\* The phase a place belongs to.
PhaseAt(place) ==
    IF place = "idle" THEN "idle"
    ELSE IF place \in {"putSwing", "put", "takeStore", "taken"} THEN "committed" ELSE "called"

\* A step of thread u moves it from the phase of x to the phase of y.
LEMMA Moves ==
  ASSUME TypeOK, NEW u \in Threads, NEW x, NEW y, Move(u, x, y)
  PROVE  /\ PhaseSeen[u] = PhaseAt(x)
         /\ PhaseSeen' = [PhaseSeen EXCEPT ![u] = PhaseAt(y)]
  BY DEF TypeOK, Move, PhaseSeen, Phase, PhaseAt

\* What a put has been called with is what its node carries.
LEMMA PuttingIs ==
  ASSUME Places
  PROVE  PuttingSeen = [p \in Producers |-> IF Unlinked(p) THEN data[node[p]] ELSE 0]
  BY DEF Places, PutPlaces, PuttingSeen, Unlinked

\* Steps of thread u that LinearQueue does not see.
LEMMA InnerSteps ==
  ASSUME ThreadInv, Places', NEW h, NEW t, NEW v, NEW d, NEW s, ListIs(h, t, d, s), ListIs(h, v, d, s)',
         NEW u \in Threads, NEW x, NEW y, Move(u, x, y), UNCHANGED <<node, sawEmpty>>,
         PhaseAt(x) = PhaseAt(y), x # "idle",
         \A n \in Nodes : data'[n] = data[n] \/ (Holding(u) /\ node[u] = n),
         \A c \in Consumers : Holding(c) => copied'[c] = copied[c]
  PROVE  UNCHANGED View
  <1> USE ConstantsAreApart DEF ThreadInv, TypeOK
  <1>0. /\ \A w \in Threads : w # u => pc'[w] = pc[w]
        /\ pc[u] = x /\ pc'[u] = y /\ y # "idle"
    BY DEF Move, PhaseAt
  <1>1. ItemsSeen' = ItemsSeen
    <2>1. \A i \in h..d : s[i] \in Nodes /\ (Holding(u) => node[u] # s[i])
      BY DEF ListIs, Linked, Kept, Linking, Holding
    <2>2. \A i \in h..d : data'[s[i]] = data[s[i]]
      BY <2>1
    <2> QED
      BY <2>2, ItemsStay DEF ListIs
  <1>2. PhaseSeen' = PhaseSeen
    <2>1. PhaseSeen[u] = PhaseAt(x) /\ PhaseSeen' = [PhaseSeen EXCEPT ![u] = PhaseAt(y)]
      BY Moves
    <2> HIDE DEF ThreadInv
    <2> QED
      BY <2>1 DEF PhaseSeen
  <1>3. HandedSeen' = HandedSeen
    <2>1. \A c \in Consumers : Holding(c)' = Holding(c)
      BY <1>0 DEF Places, Holding, TakePlaces, PhaseAt
    <2>2. HandedSeen = [c \in Consumers |-> IF Holding(c) THEN copied[c] ELSE 0]
      BY DEF HandedSeen, Holding
    <2>3. HandedSeen' = [c \in Consumers |-> IF Holding(c)' THEN copied'[c] ELSE 0]
      BY DEF HandedSeen, Holding
    <2> HIDE DEF Holding
    <2> QED
      BY <2>1, <2>2, <2>3
  <1>4. PuttingSeen' = PuttingSeen
    <2>1. \A p \in Producers : Unlinked(p)' = Unlinked(p)
      BY <1>0 DEF Places, Unlinked, PutPlaces, PhaseAt
    <2>2. PuttingSeen = [p \in Producers |-> IF Unlinked(p) THEN data[node[p]] ELSE 0]
      BY PuttingIs
    <2>3. PuttingSeen' = [p \in Producers |-> IF Unlinked(p)' THEN data'[node'[p]] ELSE 0]
      BY DEF Places, PutPlaces, PuttingSeen, Unlinked
    <2>4. \A p \in Producers : Unlinked(p) => node[p] \in Nodes /\ data'[node[p]] = data[node[p]]
      <3>1. \A p \in Producers : Unlinked(p) => ~Holding(p) /\ Owns(p) /\ node[p] \in Nodes
        BY DEF HandsApart, Owns, Unlinked, Holding
      <3>2. Holding(u) => Owns(u)
        BY DEF Owns
      <3> HIDE DEF ThreadInv
      <3>3. \A p \in Producers : Unlinked(p) /\ Holding(u) => node[p] # node[u]
        BY <3>1, <3>2 DEF HandsApart, ThreadInv
      <3> QED
        BY <3>1, <3>3
    <2> HIDE DEF Unlinked
    <2> QED
      BY <2>1, <2>2, <2>3, <2>4
  <1> QED
    BY <1>1, <1>2, <1>3, <1>4 DEF View

\* What the operators of Sequences make of a function on 1..l.
LEMMA SeqFacts ==
  ASSUME NEW l \in Nat, NEW q \in [1..l -> Nat], NEW x \in Nat
  PROVE  /\ Append(q, x) = [k \in 1..l + 1 |-> IF k = l + 1 THEN x ELSE q[k]]
         /\ l # 0 => /\ q # <<>> /\ Head(q) = q[1]
                     /\ Tail(q) = [k \in 1..l - 1 |-> q[k + 1]]
         /\ l = 0 <=> q = <<>>
  <1>1. q \in Seq(Nat) /\ Len(q) = l
    OBVIOUS
  <1>2. Append(q, x) = [k \in 1..l + 1 |-> IF k = l + 1 THEN x ELSE q[k]]
    <2>1. /\ Append(q, x) \in Seq(Nat) /\ Len(Append(q, x)) = l + 1
          /\ \A k \in 1..l : Append(q, x)[k] = q[k]
          /\ Append(q, x)[l + 1] = x
      BY <1>1, AppendProperties
    <2>2. Append(q, x) \in [1..l + 1 -> Nat]
      BY <2>1, LenProperties
    <2>3. \A k \in 1..l + 1 : Append(q, x)[k] = IF k = l + 1 THEN x ELSE q[k]
      <3>1. \A k \in 1..l + 1 : k # l + 1 => k \in 1..l
        OBVIOUS
      <3> QED
        BY <2>1, <3>1
    <2> QED
      BY <2>2, <2>3
  <1>3. l # 0 => q # <<>> /\ Head(q) = q[1]
    BY <1>1
  <1>4. l # 0 => Tail(q) = [k \in 1..l - 1 |-> q[k + 1]]
    <2> SUFFICES ASSUME l # 0 PROVE Tail(q) = [k \in 1..l - 1 |-> q[k + 1]]
      OBVIOUS
    <2>1. /\ Tail(q) \in Seq(Nat) /\ Len(Tail(q)) = l - 1
          /\ \A k \in 1..l - 1 : Tail(q)[k] = q[k + 1]
      BY <1>1, <1>3, HeadTailProperties
    <2>2. Tail(q) \in [1..l - 1 -> Nat]
      BY <2>1, LenProperties
    <2> QED
      BY <2>1, <2>2
  <1>5. l = 0 <=> q = <<>>
    BY <1>1
  <1> QED
    BY <1>2, <1>3, <1>4, <1>5

\* The items on a list, as a function.
LEMMA ItemsOf ==
  ASSUME TypeOK, NEW h, NEW t, NEW d, NEW s, Linked(h, t, d, s)
  PROVE  /\ d - h \in Nat /\ ItemsSeen = [k \in 1..d - h |-> data[s[h + k]]]
         /\ ItemsSeen \in [1..d - h -> Nat]
         /\ ItemsSeen = <<>> <=> h = d
  <1>1. /\ d - h \in Nat /\ h \in Nat /\ d \in Nat /\ s \in [h..d -> Nodes] /\ data \in [Nodes -> Nat]
    BY LengthIsBounded DEF Linked, TypeOK, ClientTypeOK
  <1>2. ItemsSeen = [k \in 1..d - h |-> data[s[h + k]]]
    BY ItemsAreAlways DEF ItemsAre
  <1>3. \A k \in 1..d - h : h + k \in h..d
    BY <1>1
  <1>4. ItemsSeen \in [1..d - h -> Nat]
    BY <1>1, <1>2, <1>3
  <1>5. ItemsSeen = <<>> <=> d - h = 0
    <2>1. 0 \in Nat
      OBVIOUS
    <2> HIDE DEF ItemsSeen
    <2> QED
      BY <1>1, <1>4, <2>1, SeqFacts
  <1>6. d - h = 0 <=> h = d
    BY <1>1
  <1> QED
    BY <1>1, <1>2, <1>4, <1>5, <1>6, Zenon

\* The steps of put and take in which no exchange succeeds keep the list.
LEMMA StaysListed ==
  ASSUME Harmless, ThreadInv, NEW h, NEW t, NEW d, NEW s, ListIs(h, t, d, s),
         NEW u \in Threads,
         \/ u \in Producers /\ Put(u) /\ ~PutLinks(u)
         \/ u \in Consumers /\ Take(u) /\ ~TakesNode(u)
  PROVE  \E v : ListIs(h, v, d, s)'
  BY PutStays, TakeStays

\* A put is called with a node that nobody else has.
LEMMA CallPutRefines ==
  ASSUME Harmless, ThreadInv, NEW h, NEW t, NEW d, NEW s, ListIs(h, t, d, s),
         NEW p \in Producers, Put(p), CallPut(p)
  PROVE  Fifo!CallPut(p)
  <1> USE ConstantsAreApart DEF ThreadInv, TypeOK, ClientTypeOK
  <1>1. PICK n \in Nodes : /\ memory[n] # "live" /\ node' = [node EXCEPT ![p] = n]
                           /\ data' = [data EXCEPT ![n] = count]
    BY DEF CallPut, Make, Allocatable
  <1>2. p \in Threads /\ Move(p, "idle", "putLoad") /\ UNCHANGED <<copied, sawEmpty>>
    BY DEF CallPut
  <1>3. PhaseSeen[p] = "idle" /\ PhaseSeen' = [PhaseSeen EXCEPT ![p] = "called"]
    BY <1>2, Moves DEF PhaseAt
  <1>4. ItemsSeen' = ItemsSeen
    <2>1. ~PutLinks(p)
      BY <1>2 DEF PutLinks, Move
    <2>2. PICK v : ListIs(h, v, d, s)'
      BY <2>1, StaysListed
    <2>3. \A i \in h..d : s[i] \in Nodes /\ s[i] # n
      BY <1>1 DEF ListIs, Linked, Kept
    <2>4. \A i \in h..d : data'[s[i]] = data[s[i]]
      BY <1>1, <2>3
    <2> QED
      BY <2>2, <2>4, ItemsStay DEF ListIs
  <1>5. HandedSeen' = HandedSeen
    BY <1>2 DEF Move, HandedSeen
  <1>6. PuttingSeen' = [PuttingSeen EXCEPT ![p] = count] /\ count \in Nat
    <2>1. ASSUME NEW q \in Producers, q # p, pc[q] \notin {"idle", "putSwing", "put"}
          PROVE  node[q] \in Nodes /\ node[q] # n
      BY <1>1, <2>1 DEF Places, HandsApart, Owns, Unlinked, PutPlaces
    <2>2. node'[p] = n /\ data'[n] = count /\ pc'[p] = "putLoad" /\ count \in Nat
      BY <1>1, <1>2 DEF Move
    <2>3. \A q \in Producers : q # p => pc'[q] = pc[q] /\ node'[q] = node[q]
      BY <1>1, <1>2 DEF Move
    <2>4. \A m \in Nodes : m # n => data'[m] = data[m]
      BY <1>1
    <2> HIDE DEF ThreadInv
    <2>5. ASSUME NEW q \in Producers
          PROVE  (IF pc'[q] \in {"idle", "putSwing", "put"} THEN 0 ELSE data'[node'[q]])
                   = IF q = p THEN count
                     ELSE IF pc[q] \in {"idle", "putSwing", "put"} THEN 0 ELSE data[node[q]]
      <3>1. CASE q = p
        BY <2>2, <3>1
      <3>2. CASE q # p
        BY <2>1, <2>3, <2>4, <3>2
      <3> QED
        BY <3>1, <3>2
    <2> QED
      BY <2>2, <2>5 DEF PuttingSeen
  <1>7. PuttingSeen'[p] = count
    BY <1>6 DEF PuttingSeen
  <1> HIDE DEF ThreadInv
  <1> QED
    BY <1>2, <1>3, <1>4, <1>5, <1>6, <1>7
       DEF Fifo!CallPut, Fifo!Move, ItemsSeen, PhaseSeen, HandedSeen, PuttingSeen

\* A put's exchange appends its item.
LEMMA CommitPutRefines ==
  ASSUME Harmless, ThreadInv, NEW h, NEW t, NEW d, NEW s, ListIs(h, t, d, s),
         NEW p \in Producers, PutLinks(p)
  PROVE  Fifo!CommitPut(p)
  <1> USE ConstantsAreApart
  <1>1. PICK r : /\ r = [i \in h..d + 1 |-> IF i = d + 1 THEN node[p] ELSE s[i]]
                 /\ ListIs(h, t, d + 1, r)'
    BY ListGrows
  <1>2. p \in Threads /\ Move(p, "putLink", "putSwing") /\ UNCHANGED <<data, node, copied, sawEmpty>>
    BY DEF PutLinks, PutLink, heap, locals, Move
  <1>3. PhaseSeen[p] = "called" /\ PhaseSeen' = [PhaseSeen EXCEPT ![p] = "committed"]
    BY <1>2, Moves DEF ThreadInv, PhaseAt
  <1>4. HandedSeen' = HandedSeen
    BY <1>2 DEF ThreadInv, TypeOK, Move, HandedSeen
  <1>5. PuttingSeen' = [PuttingSeen EXCEPT ![p] = 0] /\ PuttingSeen[p] = data[node[p]]
    BY <1>2 DEF ThreadInv, TypeOK, Move, PuttingSeen
  <1>6. PICK n, l : n = data[node[p]] /\ l = d - h
    OBVIOUS
  <1>7. /\ h \in Nat /\ d \in Nat /\ h <= d /\ l \in Nat /\ s \in [h..d -> Nodes]
        /\ node[p] \in Nodes /\ n \in Nat
    BY <1>2, <1>6 DEF ListIs, Linked, ThreadInv, TypeOK, ClientTypeOK, HandsApart, Owns, Unlinked, Move
  <1>8. ItemsSeen = [k \in 1..l |-> data[s[h + k]]] /\ ItemsSeen \in [1..l -> Nat]
    BY <1>6, ItemsOf DEF ListIs, ThreadInv
  <1>9. ItemsSeen' = [k \in 1..l + 1 |-> data[r[h + k]]]
    <2>1. PICK e : e = d + 1 /\ Linked(h, t, e, r)'
      BY <1>1 DEF ListIs
    <2>2. ItemsSeen' = [k \in 1..e - h |-> data'[r[h + k]]]
      BY <2>1, ItemsAreAlways DEF ItemsAre
    <2>3. e - h = l + 1 /\ data' = data
      BY <1>2, <1>6, <1>7, <2>1
    <2> QED
      BY <2>2, <2>3
  <1>10. ItemsSeen' = [k \in 1..l + 1 |-> IF k = l + 1 THEN n ELSE ItemsSeen[k]]
    <2>1. ASSUME NEW k \in 1..l + 1
          PROVE  data[r[h + k]] = IF k = l + 1 THEN n ELSE ItemsSeen[k]
      <3>1. h + k \in h..d + 1 /\ (h + k = d + 1 <=> k = l + 1) /\ (k # l + 1 => k \in 1..l)
        BY <1>6, <1>7
      <3> QED
        BY <1>1, <1>6, <1>8, <3>1
    <2> QED
      BY <1>9, <2>1
  <1>11. ItemsSeen' = Append(ItemsSeen, n)
    <2> HIDE DEF ItemsSeen
    <2> QED
      BY <1>7, <1>8, <1>10, SeqFacts
  <1> QED
    BY <1>2, <1>3, <1>4, <1>5, <1>6, <1>11
       DEF Fifo!CommitPut, Fifo!Move, ItemsSeen, PhaseSeen, HandedSeen, PuttingSeen

\* A put returns.
LEMMA ReturnPutRefines ==
  ASSUME Harmless, ThreadInv, NEW h, NEW t, NEW d, NEW s, ListIs(h, t, d, s),
         NEW p \in Producers, Put(p), PutReturn(p)
  PROVE  Fifo!ReturnPut(p)
  <1> USE ConstantsAreApart
  <1>1. /\ p \in Threads /\ Move(p, "put", "idle") /\ UNCHANGED <<data, sawEmpty>>
        /\ node' = [node EXCEPT ![p] = Null] /\ copied' = [copied EXCEPT ![p] = 0]
    BY DEF PutReturn, Forget, heap
  <1>2. PhaseSeen[p] = "committed" /\ PhaseSeen' = [PhaseSeen EXCEPT ![p] = "idle"]
    BY <1>1, Moves DEF ThreadInv, PhaseAt
  <1>3. ItemsSeen' = ItemsSeen
    <2>1. ~PutLinks(p)
      BY <1>1 DEF PutLinks, Move, ThreadInv, TypeOK
    <2>2. PICK v : ListIs(h, v, d, s)'
      BY <2>1, StaysListed
    <2> QED
      BY <1>1, <2>2, ItemsStay DEF ListIs
  <1>4. HandedSeen' = HandedSeen
    BY <1>1 DEF ThreadInv, TypeOK, Move, HandedSeen
  <1>5. PuttingSeen' = PuttingSeen
    BY <1>1 DEF ThreadInv, TypeOK, Move, PuttingSeen
  <1> QED
    BY <1>1, <1>2, <1>3, <1>4, <1>5
       DEF Fifo!ReturnPut, Fifo!Move, ItemsSeen, PhaseSeen, HandedSeen, PuttingSeen

\* A take is called; the caller sees whether the queue is empty.
LEMMA CallTakeRefines ==
  ASSUME Harmless, ThreadInv, NEW h, NEW t, NEW d, NEW s, ListIs(h, t, d, s),
         NEW c \in Consumers, Take(c), CallTake(c)
  PROVE  Fifo!CallTake(c)
  <1> USE ConstantsAreApart
  <1>1. /\ c \in Threads /\ Move(c, "idle", "takeHead") /\ UNCHANGED <<data, node, copied>>
        /\ sawEmpty' = IF Chain = <<>> THEN sawEmpty \cup {c} ELSE sawEmpty
    BY DEF CallTake, heap, locals
  <1>2. PhaseSeen[c] = "idle" /\ PhaseSeen' = [PhaseSeen EXCEPT ![c] = "called"]
    BY <1>1, Moves DEF ThreadInv, PhaseAt
  <1>3. ItemsSeen' = ItemsSeen
    <2>1. ~TakesNode(c)
      BY <1>1 DEF TakesNode, Move, ThreadInv, TypeOK
    <2>2. PICK v : ListIs(h, v, d, s)'
      BY <2>1, StaysListed
    <2> QED
      BY <1>1, <2>2, ItemsStay DEF ListIs
  <1>4. HandedSeen' = HandedSeen /\ PuttingSeen' = PuttingSeen
    BY <1>1 DEF ThreadInv, TypeOK, Move, HandedSeen, PuttingSeen
  <1>5. Chain = <<>> <=> ItemsSeen = <<>>
    BY ChainFacts, ItemsOf DEF ListIs, ThreadInv
  <1>6. sawEmpty' = IF ItemsSeen = <<>> THEN sawEmpty \cup {c} ELSE sawEmpty
    BY <1>1, <1>5
  <1> QED
    BY <1>2, <1>3, <1>4, <1>6
       DEF Fifo!CallTake, Fifo!Move, ItemsSeen, PhaseSeen, HandedSeen, PuttingSeen

\* A take's exchange hands over the oldest item.
LEMMA CommitTakeRefines ==
  ASSUME Harmless, ThreadInv, NEW h, NEW t, NEW d, NEW s, ListIs(h, t, d, s),
         NEW c \in Consumers, TakesNode(c)
  PROVE  Fifo!CommitTake(c)
  <1> USE ConstantsAreApart
  <1>1. /\ h + 1 \in h..d /\ seenNext[c] = s[h + 1] /\ copied[c] = data[s[h + 1]]
    BY ListShrinks
  <1>2. /\ c \in Threads /\ Move(c, "takeCas", "takeStore") /\ UNCHANGED <<data, copied>>
        /\ node' = [node EXCEPT ![c] = seenHead[c].ptr]
        /\ sawEmpty' = (sawEmpty \cup SeeingEmpty(s[h + 1])) \ {c}
    BY <1>1 DEF TakesNode, TakeCas, heap, Move, ThreadInv, TypeOK
  <1>3. PhaseSeen[c] = "called" /\ PhaseSeen' = [PhaseSeen EXCEPT ![c] = "committed"]
    BY <1>2, Moves DEF ThreadInv, PhaseAt
  <1>4. HandedSeen' = [HandedSeen EXCEPT ![c] = data[s[h + 1]]]
    BY <1>1, <1>2 DEF ThreadInv, TypeOK, Move, HandedSeen
  <1>5. PuttingSeen' = PuttingSeen
    BY <1>2 DEF ThreadInv, TypeOK, Move, PuttingSeen
  <1>6. PICK l : l = d - h
    OBVIOUS
  <1>7. h \in Nat /\ d \in Nat /\ l \in Nat \ {0} /\ s \in [h..d -> Nodes]
    BY <1>1, <1>6 DEF ListIs, Linked
  <1>8. ItemsSeen = [k \in 1..l |-> data[s[h + k]]] /\ ItemsSeen \in [1..l -> Nat]
    BY <1>6, ItemsOf DEF ListIs, ThreadInv
  <1>9. PICK r : r = [i \in h + 1..d |-> s[i]] /\ ListIs(h + 1, t, d, r)'
    BY ListShrinks
  <1>10. ItemsSeen' = [k \in 1..l - 1 |-> data[r[h + 1 + k]]]
    <2>1. PICK e : e = h + 1 /\ Linked(e, t, d, r)'
      BY <1>9 DEF ListIs
    <2>2. ItemsSeen' = [k \in 1..d - e |-> data'[r[e + k]]]
      BY <2>1, ItemsAreAlways DEF ItemsAre
    <2>3. d - e = l - 1 /\ data' = data
      BY <1>2, <1>6, <1>7, <2>1
    <2> QED
      BY <2>1, <2>2, <2>3
  <1>11. ItemsSeen' = [k \in 1..l - 1 |-> ItemsSeen[k + 1]]
    <2>1. ASSUME NEW k \in 1..l - 1 PROVE data[r[h + 1 + k]] = ItemsSeen[k + 1]
      <3>1. h + 1 + k \in h + 1..d /\ k + 1 \in 1..l /\ h + (k + 1) = h + 1 + k
        BY <1>6, <1>7
      <3> QED
        BY <1>8, <1>9, <3>1
    <2> QED
      BY <1>10, <2>1
  <1>12. ItemsSeen[1] = data[s[h + 1]]
    BY <1>7, <1>8
  <1>13. ItemsSeen # <<>> /\ Head(ItemsSeen) = data[s[h + 1]] /\ ItemsSeen' = Tail(ItemsSeen)
    <2>1. PICK q : q = ItemsSeen
      OBVIOUS
    <2>2. 0 \in Nat /\ l \in Nat /\ l # 0 /\ q \in [1..l -> Nat]
      BY <1>7, <1>8, <2>1
    <2>3. q # <<>> /\ Head(q) = q[1] /\ Tail(q) = [k \in 1..l - 1 |-> q[k + 1]]
      BY <2>2, SeqFacts
    <2> HIDE DEF ItemsSeen
    <2> QED
      BY <1>11, <1>12, <2>1, <2>3
  <1>14. Tail(ItemsSeen) = <<>> <=> next[s[h + 1]] = Null
    <2>1. next[s[h + 1]] = Null <=> h + 1 = d
      <3>1. h + 1 # d => s[h + 2] \in Nodes
        BY <1>1, <1>7
      <3> QED
        BY <1>1, <1>7, <3>1 DEF ListIs, Linked
    <2>2. Tail(ItemsSeen) = [k \in 1..l - 1 |-> ItemsSeen[k + 1]]
      BY <1>11, <1>13
    <2>3. Tail(ItemsSeen) \in [1..l - 1 -> Nat]
      <3>1. \A k \in 1..l - 1 : k + 1 \in 1..l
        BY <1>7
      <3> QED
        BY <1>8, <2>2, <3>1
    <2>4. PICK q, m : q = Tail(ItemsSeen) /\ m = l - 1
      OBVIOUS
    <2>5. m \in Nat /\ q \in [1..m -> Nat] /\ 0 \in Nat
      BY <1>7, <2>3, <2>4
    <2>6. m = 0 <=> q = <<>>
      BY <2>5, SeqFacts
    <2>7. m = 0 <=> h + 1 = d
      BY <1>6, <1>7, <2>4
    <2> QED
      BY <2>1, <2>4, <2>6, <2>7
  <1>15. sawEmpty' = (sawEmpty \ {c}) \cup
                        {b \in Consumers \ {c} : PhaseSeen[b] = "called" /\ Tail(ItemsSeen) = <<>>}
    <2>1. \A b \in Consumers : PhaseSeen[b] = "called" <=> pc[b] \notin {"idle", "takeStore", "taken"}
      BY DEF ThreadInv, Places, TakePlaces, PhaseSeen, Phase
    <2> QED
      BY <1>2, <1>14, <2>1 DEF SeeingEmpty
  <1> HIDE DEF ThreadInv
  <1> QED
    BY <1>3, <1>4, <1>5, <1>13, <1>15
       DEF Fifo!CommitTake, Fifo!Move, ItemsSeen, PhaseSeen, HandedSeen, PuttingSeen

\* A take that found the queue empty returns.
LEMMA ReturnNothingRefines ==
  ASSUME Harmless, ThreadInv, NEW h, NEW t, NEW d, NEW s, ListIs(h, t, d, s),
         NEW c \in Consumers, Take(c), TakeEmpty(c)
  PROVE  Fifo!ReturnNothing(c)
  <1> USE ConstantsAreApart
  <1>1. /\ c \in Threads /\ Move(c, "empty", "idle") /\ UNCHANGED data
        /\ node' = [node EXCEPT ![c] = Null] /\ copied' = [copied EXCEPT ![c] = 0]
        /\ sawEmpty' = sawEmpty \ {c}
    BY DEF TakeEmpty, Forget, heap
  <1>2. PhaseSeen[c] = "called" /\ PhaseSeen' = [PhaseSeen EXCEPT ![c] = "idle"]
    BY <1>1, Moves DEF ThreadInv, PhaseAt
  <1>3. ItemsSeen' = ItemsSeen
    <2>1. ~TakesNode(c)
      BY <1>1 DEF TakesNode, Move, ThreadInv, TypeOK
    <2>2. PICK v : ListIs(h, v, d, s)'
      BY <2>1, StaysListed
    <2> QED
      BY <1>1, <2>2, ItemsStay DEF ListIs
  <1>4. HandedSeen' = HandedSeen /\ PuttingSeen' = PuttingSeen
    BY <1>1 DEF ThreadInv, TypeOK, Move, HandedSeen, PuttingSeen
  <1>5. c \in sawEmpty
    BY <1>1 DEF ListIs, EmptySeen, Move
  <1> QED
    BY <1>1, <1>2, <1>3, <1>4, <1>5
       DEF Fifo!ReturnNothing, Fifo!Move, ItemsSeen, PhaseSeen, HandedSeen, PuttingSeen

\* A take returns its node.
LEMMA ReturnTakeRefines ==
  ASSUME Harmless, ThreadInv, NEW h, NEW t, NEW d, NEW s, ListIs(h, t, d, s),
         NEW c \in Consumers, Take(c), TakeReturn(c)
  PROVE  Fifo!ReturnTake(c)
  <1> USE ConstantsAreApart
  <1>1. /\ c \in Threads /\ Move(c, "taken", "idle") /\ UNCHANGED <<data, sawEmpty>>
        /\ node' = [node EXCEPT ![c] = Null] /\ copied' = [copied EXCEPT ![c] = 0]
    BY DEF TakeReturn, Forget, Consume
  <1>2. PhaseSeen[c] = "committed" /\ PhaseSeen' = [PhaseSeen EXCEPT ![c] = "idle"]
    BY <1>1, Moves DEF ThreadInv, PhaseAt
  <1>3. ItemsSeen' = ItemsSeen
    <2>1. ~TakesNode(c)
      BY <1>1 DEF TakesNode, Move, ThreadInv, TypeOK
    <2>2. PICK v : ListIs(h, v, d, s)'
      BY <2>1, StaysListed
    <2> QED
      BY <1>1, <2>2, ItemsStay DEF ListIs
  <1>4. HandedSeen' = [HandedSeen EXCEPT ![c] = 0]
    BY <1>1 DEF ThreadInv, TypeOK, Move, HandedSeen
  <1>5. PuttingSeen' = PuttingSeen
    BY <1>1 DEF ThreadInv, TypeOK, Move, PuttingSeen
  <1> QED
    BY <1>1, <1>2, <1>3, <1>4, <1>5
       DEF Fifo!ReturnTake, Fifo!Move, ItemsSeen, PhaseSeen, HandedSeen, PuttingSeen

\* The steps of put and take between the call and the exchange, and between the
\* exchange and the return, are not seen.
LEMMA PutInside ==
  ASSUME Harmless, ThreadInv, NEW h, NEW t, NEW d, NEW s, ListIs(h, t, d, s), [Next]_vars,
         NEW p \in Producers, Put(p), ~CallPut(p), ~PutLinks(p), ~PutReturn(p)
  PROVE  UNCHANGED View
  <1>1. p \in Threads /\ Places'
    BY ConstantsAreApart, TypeStep DEF ThreadInv
  <1>2. PICK v : ListIs(h, v, d, s)'
    BY <1>1, StaysListed
  <1>3. PICK x \in PutPlaces, y \in PutPlaces : Move(p, x, y) /\ PhaseAt(x) = PhaseAt(y)
    BY DEF Put, PutLoad, PutNext, PutHelp, PutLink, PutSwing, PutLinks, Move, PhaseAt, PutPlaces
  <1>4. UNCHANGED <<data, node, copied, sawEmpty>>
    BY DEF Put, PutLoad, PutNext, PutHelp, PutLink, PutSwing, heap, locals
  <1>5. x # "idle"
    BY DEF PutPlaces
  <1> QED
    BY <1>1, <1>2, <1>3, <1>4, <1>5, InnerSteps

\* So for take.
LEMMA TakeInside ==
  ASSUME Harmless, ThreadInv, NEW h, NEW t, NEW d, NEW s, ListIs(h, t, d, s), [Next]_vars,
         NEW c \in Consumers, Take(c), ~CallTake(c), ~TakesNode(c), ~TakeEmpty(c), ~TakeReturn(c)
  PROVE  UNCHANGED View
  <1>1. c \in Threads /\ Places'
    BY ConstantsAreApart, TypeStep DEF ThreadInv
  <1>2. PICK v : ListIs(h, v, d, s)'
    BY <1>1, StaysListed
  <1>3. PICK x \in TakePlaces, y \in TakePlaces : Move(c, x, y) /\ PhaseAt(x) = PhaseAt(y)
    BY DEF Take, TakeHead, TakeTail, TakeNext, TakeCheck, TakeHelp, TakeCopy, TakeCas, TakeStore,
           TakesNode, Move, PhaseAt, TakePlaces
  <1>4. UNCHANGED <<node, sawEmpty>>
    BY DEF Take, TakeHead, TakeTail, TakeNext, TakeCheck, TakeHelp, TakeCopy, TakeCas, TakeStore,
           TakesNode, Move, locals
  <1>5. x # "idle"
    BY DEF TakePlaces
  <1>6. \A n \in Nodes : data'[n] = data[n] \/ (Holding(c) /\ node[c] = n)
    BY DEF Take, TakeHead, TakeTail, TakeNext, TakeCheck, TakeHelp, TakeCopy, TakeCas, TakeStore,
           Move, heap, Holding, ThreadInv, TypeOK, ClientTypeOK
  <1>7. \A b \in Consumers : Holding(b) => copied'[b] = copied[b]
    <2>1. CASE TakeCopy(c)
      <3>1. PICK n : copied' = [copied EXCEPT ![c] = n]
        BY <2>1 DEF TakeCopy
      <3> QED
        BY <2>1, <3>1 DEF TakeCopy, Move, Holding, ThreadInv, TypeOK
    <2>2. CASE ~TakeCopy(c)
      <3>1. copied' = copied
        BY <2>2 DEF Take, TakeHead, TakeTail, TakeNext, TakeCheck, TakeHelp, TakeCas, TakeStore, locals
      <3> QED
        BY <3>1
    <2> QED
      BY <2>1, <2>2
  <1> QED
    BY <1>1, <1>2, <1>3, <1>4, <1>5, <1>6, <1>7, InnerSteps

\* A step that leaves the links, the data and the threads alone is not seen.
LEMMA RestUnseen ==
  ASSUME NEW h, NEW t, NEW d, NEW s, Linked(h, t, d, s), UNCHANGED <<data, list, pc, locals, sawEmpty>>
  PROVE  UNCHANGED View
  <1>1. Linked(h, t, d, s)'
    BY DEF Linked, list
  <1>2. ItemsSeen' = ItemsSeen
    BY <1>1, ItemsStay
  <1>3. UNCHANGED <<PhaseSeen, HandedSeen, PuttingSeen>>
    BY DEF PhaseSeen, Phase, HandedSeen, PuttingSeen, locals
  <1> QED
    BY <1>2, <1>3 DEF View

\* Every step is a step of LinearQueue or one that it does not see.
LEMMA StepRefines ==
  ASSUME Harmless, IInv, [Next]_vars
  PROVE  [Fifo!Next]_(Fifo!vars)
  <1> DEFINE Refined == [Fifo!Next]_(Fifo!vars)
  <1>0. ASSUME UNCHANGED View PROVE Refined
    BY <1>0 DEF View, Fifo!vars, ItemsSeen, PhaseSeen, HandedSeen, PuttingSeen
  <1>1. PICK h, t, d, s : Linked(h, t, d, s) /\ (Running => ListIs(h, t, d, s))
    BY DEF IInv, Running, Destroyed, ListIs
  <1>2. CASE UNCHANGED vars \/ Destroy
    <2>1. UNCHANGED <<data, list, pc, locals, sawEmpty>>
      BY <1>2 DEF vars, heap, Destroy
    <2> QED
      BY <1>0, <1>1, <2>1, RestUnseen
  <1>3. CASE Destroyed
    BY <1>2, <1>3, DestroyedStays
  <1>4. ASSUME Running, NEW p \in Producers, Put(p) PROVE Refined
    <2>1. ThreadInv /\ ListIs(h, t, d, s)
      BY <1>1, <1>4 DEF Running
    <2>2. CASE CallPut(p)
      BY <1>4, <2>1, <2>2, CallPutRefines DEF Fifo!Next
    <2>3. CASE PutLinks(p)
      BY <2>1, <2>3, CommitPutRefines DEF Fifo!Next
    <2>4. CASE PutReturn(p)
      BY <1>4, <2>1, <2>4, ReturnPutRefines DEF Fifo!Next
    <2>5. CASE ~CallPut(p) /\ ~PutLinks(p) /\ ~PutReturn(p)
      BY <1>0, <1>4, <2>1, <2>5, PutInside
    <2> QED
      BY <2>2, <2>3, <2>4, <2>5
  <1>5. ASSUME Running, NEW c \in Consumers, Take(c) PROVE Refined
    <2>1. ThreadInv /\ ListIs(h, t, d, s)
      BY <1>1, <1>5 DEF Running
    <2>2. CASE CallTake(c)
      BY <1>5, <2>1, <2>2, CallTakeRefines DEF Fifo!Next
    <2>3. CASE TakesNode(c)
      BY <2>1, <2>3, CommitTakeRefines DEF Fifo!Next
    <2>4. CASE TakeEmpty(c)
      BY <1>5, <2>1, <2>4, ReturnNothingRefines DEF Fifo!Next
    <2>5. CASE TakeReturn(c)
      BY <1>5, <2>1, <2>5, ReturnTakeRefines DEF Fifo!Next
    <2>6. CASE ~CallTake(c) /\ ~TakesNode(c) /\ ~TakeEmpty(c) /\ ~TakeReturn(c)
      BY <1>0, <1>5, <2>1, <2>6, TakeInside
    <2> QED
      BY <2>2, <2>3, <2>4, <2>5, <2>6
  <1> QED
    BY <1>2, <1>3, <1>4, <1>5 DEF IInv, Next

\* The list with the dummy alone has no items.
LEMMA InitRefines == Init => Fifo!Init
  <1> SUFFICES ASSUME Init PROVE Fifo!Init
    OBVIOUS
  <1>1. PICK h, t, d, s : Linked(h, t, d, s)
    BY InitIInv DEF IInv, Running, Destroyed, ListIs
  <1>2. h = d
    <2>1. h \in h..d /\ s \in [h..d -> Nodes] /\ head.ptr = s[h] /\ h \in Nat /\ d \in Nat
      BY <1>1 DEF Linked
    <2>2. next[s[h]] = Null
      BY <2>1 DEF Init
    <2>3. h # d => s[h + 1] \in Nodes
      BY <2>1
    <2> QED
      BY <1>1, <2>1, <2>2, <2>3, ConstantsAreApart DEF Linked
  <1>3. ItemsSeen = <<>>
    <2>1. TypeOK
      BY InitIInv DEF IInv, Running, Destroyed, ThreadInv
    <2> QED
      BY <1>1, <1>2, <2>1, ItemsOf
  <1>4. /\ PhaseSeen = [u \in Threads |-> "idle"] /\ HandedSeen = [c \in Consumers |-> 0]
        /\ PuttingSeen = [p \in Producers |-> 0] /\ sawEmpty = {}
    BY ConstantsAreApart DEF Init, PhaseSeen, Phase, HandedSeen, PuttingSeen
  <1> QED
    BY <1>3, <1>4 DEF Fifo!Init, ItemsSeen, PhaseSeen, HandedSeen, PuttingSeen, Threads

\* put and take of lockfree_list.h are linearizable operations on a FIFO queue;
\* take says that it is empty only if it was, at some moment of the call.
THEOREM Linearizable == ASSUME Harmless PROVE Spec => FifoSpec
  <1>1. IInv /\ [Next]_vars => [Fifo!Next]_(Fifo!vars)
    BY StepRefines
  <1> QED
    BY <1>1, InitRefines, Safety, PTL DEF Spec, FifoSpec, Fifo!Spec
=============================================================================
