---------------------------- MODULE LockfreeList ----------------------------
(***************************************************************************)
(* naesala/lockfree/lockfree_list.h, a queue after Michael and Scott,      *)
(* under the threads of LockfreeClients.  _head points to a dummy node;    *)
(* the items are in the nodes after it.  take makes the first of them the  *)
(* new dummy, and returns the old dummy with the data of the first.        *)
(*                                                                         *)
(* Every version is drawn from the one counter of combine<T>, in the step  *)
(* that uses it: which thread draws first is not observable.  A next field *)
(* is null without a version or not null with one, and its version is      *)
(* never compared: next holds the pointer alone.                           *)
(*                                                                         *)
(* Reading a field of a deleted node gives an arbitrary value; an exchange *)
(* on it may succeed, without effect on any node.                          *)
(***************************************************************************)
EXTENDS LockfreeClients

CONSTANT Dummy    \* the node the constructor allocates

ASSUME DummyAssumption == Dummy \in Nodes

VARIABLES head, tail,    \* _head and _tail
          next,          \* the next field of each node, without its version
          version,       \* the counter of combine<T>
          pc,            \* where each thread is
          node,          \* put's argument; the node take returns
          seenHead,      \* head_combine of take
          seenTail,      \* tail_combine of put and take
          seenNext,      \* tail_next of put, head_next of take
          copied,        \* bytes: take's copy of head_next's data
          sawEmpty       \* history: the consumers in a take during which the
                         \* queue was empty

list   == <<head, tail, next, version>>
locals == <<node, seenHead, seenTail, seenNext, copied>>
vars   == <<heap, client, spurious, list, pc, locals, sawEmpty>>

Init ==
    /\ ClientInit({Dummy})
    /\ head = Combine(Dummy, 0) /\ tail = Combine(Dummy, 0)
    /\ next = [n \in Nodes |-> Null]
    /\ version = NextVersion(0)
    /\ pc = [t \in Threads |-> "idle"]
    /\ node = [t \in Threads |-> Null]
    /\ seenHead = [t \in Threads |-> NullWord]
    /\ seenTail = [t \in Threads |-> NullWord]
    /\ seenNext = [t \in Threads |-> Null]
    /\ copied = [t \in Threads |-> 0]
    /\ sawEmpty = {}

Move(t, from, to) == pc[t] = from /\ pc' = [pc EXCEPT ![t] = to]

\* The call returns, and the thread's local variables are gone.
Forget(t) ==
    /\ node' = [node EXCEPT ![t] = Null]
    /\ seenHead' = [seenHead EXCEPT ![t] = NullWord]
    /\ seenTail' = [seenTail EXCEPT ![t] = NullWord]
    /\ seenNext' = [seenNext EXCEPT ![t] = Null]
    /\ copied' = [copied EXCEPT ![t] = 0]

\* What loading n's next field can give.
Loaded(n) == IF memory[n] = "live" THEN {next[n]} ELSE Pointers

\* _tail.compare_exchange_strong(seenTail, combine(n))
SwingTail(t, n) ==
    /\ tail' = IF tail = seenTail[t] THEN Combine(n, version) ELSE tail
    /\ version' = NextVersion(version)

\* The nodes whose items are in the list, oldest first: those met when
\* following next from _head's.
Walk[k \in 0..Cardinality(Nodes)] ==
    IF k = 0 THEN next[head.ptr]
    ELSE IF Walk[k - 1] = Null THEN Null ELSE next[Walk[k - 1]]

Chain ==
    LET length == Cardinality({k \in 0..Cardinality(Nodes) : Walk[k] # Null})
    IN  [k \in 1..length |-> Walk[k - 1]]

-----------------------------------------------------------------------------
\* The producer.

\* new Node() clears next; then put is called.
CallPut(p) ==
    /\ Move(p, "idle", "putLoad")
    /\ Busy(p)
    /\ \E n \in Allocatable :
          /\ Make(n)
          /\ node' = [node EXCEPT ![p] = n]
          /\ next' = [next EXCEPT ![n] = Null]
    /\ UNCHANGED <<spurious, head, tail, version, seenHead, seenTail, seenNext, copied, sawEmpty>>

PutLoad(p) ==
    /\ Move(p, "putLoad", "putNext")
    /\ seenTail' = [seenTail EXCEPT ![p] = tail]
    /\ UNCHANGED <<heap, client, spurious, list, node, seenHead, seenNext, copied, sawEmpty>>

PutNext(p) ==
    /\ pc[p] = "putNext"
    /\ \E n \in Loaded(seenTail[p].ptr) :
          /\ seenNext' = [seenNext EXCEPT ![p] = n]
          /\ Move(p, "putNext", IF n = Null THEN "putLink" ELSE "putHelp")
    /\ UNCHANGED <<heap, client, spurious, list, node, seenHead, seenTail, copied, sawEmpty>>

\* Tail was not pointing to the last node: put swings it and tries again.
PutHelp(p) ==
    /\ Move(p, "putHelp", "putLoad")
    /\ SwingTail(p, seenNext[p])
    /\ UNCHANGED <<heap, client, spurious, head, next, locals, sawEmpty>>

\* A defect to catch: the node is linked although another is there by now.
PutLinkStores(p) ==
    /\ version' = NextVersion(version)
    /\ next' = [next EXCEPT ![seenTail[p].ptr] = node[p]]
    /\ Move(p, "putLink", "putSwing")
    /\ UNCHANGED <<heap, client, spurious, head, tail, locals, sawEmpty>>

\* tail->next.compare_exchange_weak(null, combine(node))
PutLink(p) ==
    LET last == seenTail[p].ptr
        live == memory[last] = "live"
    IN  /\ pc[p] = "putLink"
        /\ version' = NextVersion(version)
        /\ \/ /\ live => next[last] = Null
              /\ next' = IF live THEN [next EXCEPT ![last] = node[p]] ELSE next
              /\ Move(p, "putLink", "putSwing")
              /\ UNCHANGED spurious
           \/ /\ IF live /\ next[last] = Null THEN FailsForNothing ELSE UNCHANGED spurious
              /\ Move(p, "putLink", "putLoad")
              /\ UNCHANGED next
        /\ UNCHANGED <<heap, client, head, tail, locals, sawEmpty>>

\* put swings the tail to the inserted node, unless another thread has.
PutSwing(p) ==
    /\ Move(p, "putSwing", "put")
    /\ SwingTail(p, node[p])
    /\ UNCHANGED <<heap, client, spurious, head, next, locals, sawEmpty>>

PutReturn(p) ==
    /\ Move(p, "put", "idle")
    /\ Forget(p)
    /\ Count(p)
    /\ UNCHANGED <<heap, count, flags, broken, spurious, list, sawEmpty>>

-----------------------------------------------------------------------------
\* The consumer.

CallTake(c) ==
    /\ Move(c, "idle", "takeHead")
    /\ Busy(c)
    /\ sawEmpty' = IF Chain = <<>> THEN sawEmpty \cup {c} ELSE sawEmpty
    /\ UNCHANGED <<heap, client, spurious, list, locals>>

TakeHead(c) ==
    /\ Move(c, "takeHead", "takeTail")
    /\ seenHead' = [seenHead EXCEPT ![c] = head]
    /\ UNCHANGED <<heap, client, spurious, list, node, seenTail, seenNext, copied, sawEmpty>>

TakeTail(c) ==
    /\ Move(c, "takeTail", "takeNext")
    /\ seenTail' = [seenTail EXCEPT ![c] = tail]
    /\ UNCHANGED <<heap, client, spurious, list, node, seenHead, seenNext, copied, sawEmpty>>

TakeNext(c) ==
    /\ Move(c, "takeNext", "takeCheck")
    /\ \E n \in Loaded(seenHead[c].ptr) : seenNext' = [seenNext EXCEPT ![c] = n]
    /\ UNCHANGED <<heap, client, spurious, list, node, seenHead, seenTail, copied, sawEmpty>>

\* A defect to catch: no test for an empty queue.
TakeCheckNeverEmpty(c) ==
    LET sameNode == seenHead[c].ptr = seenTail[c].ptr
        noNext   == seenNext[c] = Null
    IN  /\ Move(c, "takeCheck",
                CASE seenHead[c] # head               -> "takeHead"
                  [] seenHead[c] = head /\ sameNode   -> "takeHelp"
                  [] seenHead[c] = head /\ ~sameNode /\ noNext -> "takeHead"
                  [] OTHER               -> "takeCopy")
        /\ UNCHANGED <<heap, client, spurious, list, locals, sawEmpty>>

\* A defect to catch: _head is not loaded again after head->next.
TakeCheckSkipped(c) ==
    LET sameNode == seenHead[c].ptr = seenTail[c].ptr
        noNext   == seenNext[c] = Null
    IN  /\ Move(c, "takeCheck",
                CASE sameNode /\ noNext  -> "empty"
                  [] sameNode /\ ~noNext -> "takeHelp"
                  [] ~sameNode /\ noNext -> "takeHead"
                  [] OTHER               -> "takeCopy")
        /\ UNCHANGED <<heap, client, spurious, list, locals, sawEmpty>>

\* _head is loaded again: head->next was read from the dummy node only if
\* _head has not moved.
TakeCheck(c) ==
    LET sameNode == seenHead[c].ptr = seenTail[c].ptr
        noNext   == seenNext[c] = Null
    IN  /\ Move(c, "takeCheck",
                CASE seenHead[c] # head  -> "takeHead"
                  [] seenHead[c] = head /\ sameNode /\ noNext  -> "empty"
                  [] seenHead[c] = head /\ sameNode /\ ~noNext -> "takeHelp"
                  [] seenHead[c] = head /\ ~sameNode /\ noNext -> "takeHead"
                  [] OTHER               -> "takeCopy")
        /\ UNCHANGED <<heap, client, spurious, list, locals, sawEmpty>>

\* Tail is falling behind: take swings it and tries again.
TakeHelp(c) ==
    /\ Move(c, "takeHelp", "takeHead")
    /\ SwingTail(c, seenNext[c])
    /\ UNCHANGED <<heap, client, spurious, head, next, locals, sawEmpty>>

TakeCopy(c) ==
    /\ Move(c, "takeCopy", "takeCas")
    /\ \E d \in IF memory[seenNext[c]] = "live" THEN {data[seenNext[c]]} ELSE 0..count - 1 :
          copied' = [copied EXCEPT ![c] = d]
    /\ UNCHANGED <<heap, client, spurious, list, node, seenHead, seenTail, seenNext, sawEmpty>>

\* The consumers that may answer that the queue was empty, once the head moves
\* to n: those inside take, if n is the last node.
SeeingEmpty(n) ==
    {d \in Consumers : next[n] = Null /\ pc[d] \notin {"idle", "takeStore", "taken"}}

\* A defect to catch: _head is stored, whatever it has become meanwhile.
TakeStores(c) ==
    /\ Move(c, "takeCas", "takeStore")
    /\ head' = Combine(seenNext[c], version)
    /\ node' = [node EXCEPT ![c] = seenHead[c].ptr]
    /\ sawEmpty' = (sawEmpty \cup SeeingEmpty(seenNext[c])) \ {c}
    /\ version' = NextVersion(version)
    /\ UNCHANGED <<heap, client, spurious, tail, next, seenHead, seenTail, seenNext, copied>>

\* _head.compare_exchange_weak(head_combine, combine(head_next))
TakeCas(c) ==
    /\ pc[c] = "takeCas"
    /\ \/ /\ head = seenHead[c]
          /\ head' = Combine(seenNext[c], version)
          /\ Move(c, "takeCas", "takeStore")
          /\ node' = [node EXCEPT ![c] = seenHead[c].ptr]
          /\ sawEmpty' = (sawEmpty \cup SeeingEmpty(seenNext[c])) \ {c}
          /\ UNCHANGED spurious
       \/ /\ IF head = seenHead[c] THEN FailsForNothing ELSE UNCHANGED spurious
          /\ Move(c, "takeCas", "takeHead")
          /\ UNCHANGED <<head, node, sawEmpty>>
    /\ version' = NextVersion(version)
    /\ UNCHANGED <<heap, client, tail, next, seenHead, seenTail, seenNext, copied>>

\* A defect to catch: the old dummy is returned without the data.
TakeStoreForgotten(c) ==
    /\ Move(c, "takeStore", "taken")
    /\ next' = [next EXCEPT ![node[c]] = Null]
    /\ UNCHANGED <<heap, client, spurious, head, tail, version, locals, sawEmpty>>

\* The old dummy gets the data, its next field is cleared, and it is returned.
TakeStore(c) ==
    /\ Move(c, "takeStore", "taken")
    /\ data' = [data EXCEPT ![node[c]] = copied[c]]
    /\ next' = [next EXCEPT ![node[c]] = Null]
    /\ UNCHANGED <<memory, client, spurious, head, tail, version, locals, sawEmpty>>

\* take returns nullptr, and the consumer will try again.
TakeEmpty(c) ==
    /\ Move(c, "empty", "idle")
    /\ Forget(c)
    /\ sawEmpty' = sawEmpty \ {c}
    /\ UNCHANGED <<heap, client, spurious, list>>

\* take returns a node.
TakeReturn(c) ==
    /\ Move(c, "taken", "idle")
    /\ Forget(c)
    /\ Consume(node[c])
    /\ Count(c)
    /\ UNCHANGED <<spurious, list, sawEmpty>>

\* A failed assertion stops the program.
Put(p) ==
    /\ ~broken
    /\ \/ CallPut(p) \/ PutLoad(p) \/ PutNext(p) \/ PutHelp(p) \/ PutLink(p)
       \/ PutSwing(p) \/ PutReturn(p)

Take(c) ==
    /\ ~broken
    /\ \/ CallTake(c) \/ TakeHead(c) \/ TakeTail(c) \/ TakeNext(c) \/ TakeCheck(c)
       \/ TakeHelp(c) \/ TakeCopy(c) \/ TakeCas(c) \/ TakeStore(c)
       \/ TakeEmpty(c) \/ TakeReturn(c)

\* Every thread has done what it is meant to.
Finished == \A t \in Threads : pc[t] = "idle" /\ done[t] = quota[t]

\* The nodes met from _head on, the dummy among them.
Listed == {head.ptr} \cup {Chain[k] : k \in DOMAIN Chain}

\* A defect to catch: the dummy is left over.
DestroyButDummy ==
    /\ Finished /\ memory[head.ptr] = "live"
    /\ memory' = [n \in Nodes |-> IF n \in Listed \ {tail.ptr} THEN "deleted" ELSE memory[n]]
    /\ UNCHANGED <<data, client, spurious, list, pc, locals, sawEmpty>>

\* The destructor, when the threads have been joined: take returns all nodes but
\* the last, to which it helps _tail along, and that one is deleted as well.  What
\* is left in the words and nodes nobody reads.
Destroy ==
    LET last == IF tail.ptr \notin Listed \/ Chain = <<>> THEN tail.ptr ELSE Chain[Len(Chain)]
        took == IF Chain = <<>> THEN {} ELSE Listed \ {Chain[Len(Chain)]}
    IN  /\ Finished /\ memory[head.ptr] = "live"
        /\ memory' = [n \in Nodes |-> IF n \in took \cup {last} THEN "deleted" ELSE memory[n]]
        /\ UNCHANGED <<data, client, spurious, list, pc, locals, sawEmpty>>

Next == (\E p \in Producers : Put(p)) \/ (\E c \in Consumers : Take(c)) \/ Destroy

Spec == Init /\ [][Next]_vars

\* The operating system runs every thread again and again.
FairSpec ==
    /\ Spec
    /\ \A p \in Producers : WF_vars(Put(p))
    /\ \A c \in Consumers : WF_vars(Take(c))

-----------------------------------------------------------------------------
\* Type invariant; no null pointer is dereferenced.
PutPlaces  == {"putLoad", "putNext", "putHelp", "putLink", "putSwing", "put"}
TakePlaces == {"takeHead", "takeTail", "takeNext", "takeCheck", "takeHelp", "takeCopy",
               "takeCas", "takeStore", "taken", "empty"}

TypeOK ==
    /\ ClientTypeOK
    /\ head \in Words /\ tail \in Words /\ head.ptr # Null /\ tail.ptr # Null
    /\ next \in [Nodes -> Pointers]
    /\ version \in 0..Versions - 1
    /\ pc \in [Threads -> PutPlaces \cup TakePlaces \cup {"idle"}]
    /\ node \in [Threads -> Pointers]
    /\ seenHead \in [Threads -> Words] /\ seenTail \in [Threads -> Words]
    /\ seenNext \in [Threads -> Pointers]
    /\ copied \in [Threads -> Nat]
    /\ sawEmpty \subseteq Consumers
    /\ \A t \in Threads : pc[t] \in {"putHelp", "takeHelp", "takeCopy", "takeCas"}
                            => seenNext[t] # Null

\* Every node whose put has returned, and that no consumer has got yet, is in
\* the list (put of lockfree_list.h).
NothingLost ==
    Cardinality(flags) = Len(Chain)
        + Cardinality({p \in Producers : pc[p] \in PutPlaces \ {"putSwing", "put"}})
        + Cardinality({c \in Consumers : pc[c] \in {"takeStore", "taken"}})

\* The list that starts at _head ends and has lost nothing, every node on it is
\* live until the destructor has deleted them all and left none, no node on it
\* is in the hands of a thread that has yet to link it or is to delete it, and
\* _tail points to one of them or to the dummy; no assertion of the consumers
\* has failed (put, take and the destructor of lockfree_list.h; the consumers of
\* benchmark/main_lockfree.cpp).
ListIntact ==
    /\ TypeOK /\ AssertionsHold /\ NothingLost
    /\ Walk[Cardinality(Nodes)] = Null
    /\ \/ \A n \in Listed : memory[n] = "live"
       \/ Finished /\ \A n \in Nodes : memory[n] # "live"
    /\ \A t \in Threads : node[t] \in Listed => pc[t] \in {"putSwing", "put"}
    /\ tail.ptr \in Listed

\* put and take are linearizable operations on a FIFO queue, whose items are
\* what the list in memory holds (put and take of lockfree_list.h).
Phase(t) == CASE pc[t] = "idle"                                           -> "idle"
              [] pc[t] \in {"putSwing", "put", "takeStore", "taken"} -> "committed"
              [] OTHER                                                    -> "called"

Fifo == INSTANCE LinearQueue WITH
    Nothing <- 0,
    items   <- [k \in DOMAIN Chain |-> data[Chain[k]]],
    phase   <- [t \in Threads |-> Phase(t)],
    handed  <- [c \in Consumers |-> IF pc[c] \in {"takeStore", "taken"} THEN copied[c] ELSE 0],
    putting <- [p \in Producers |-> IF pc[p] \in {"idle", "putSwing", "put"} THEN 0 ELSE data[node[p]]]
FifoSpec == Fifo!Spec

\* When no more is asked for than is handed over every put returns, every
\* consumer gets its nodes, and of the flags only those of the nodes left over
\* are set (the joins and the last loop of benchmark/main_lockfree.cpp).
Termination == <>(Finished /\ Cardinality(flags) = LeftOver)
=============================================================================
