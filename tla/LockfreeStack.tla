---------------------------- MODULE LockfreeStack ----------------------------
(***************************************************************************)
(* naesala/lockfree/lockfree_stack.h, Treiber's stack, under the threads   *)
(* of LockfreeClients.                                                     *)
(*                                                                         *)
(* push calls combine on a T*, pop on top->next, which is an IStackNode*:  *)
(* the two take their versions from two counters.                          *)
(*                                                                         *)
(* A pop may read the next pointer of a node that another consumer has     *)
(* deleted meanwhile.  It then gets an arbitrary pointer.                  *)
(***************************************************************************)
EXTENDS LockfreeClients

VARIABLES top,           \* _top
          next,          \* the next field of each node
          versionT,      \* the counter of combine<T>
          versionNext,   \* the counter of combine<IStackNode>
          pc,            \* where each thread is
          node,          \* push's argument; the node pop has taken
          seen,          \* last_top_combine of push, top_combine of pop
          new            \* node_combine of push, new_top_combine of pop

versions == <<versionT, versionNext>>
vars == <<heap, client, spurious, top, next, versions, pc, node, seen, new>>

Init ==
    /\ ClientInit({})
    /\ top = NullWord
    /\ next = [n \in Nodes |-> Null]
    /\ versionT = 0 /\ versionNext = 0
    /\ pc = [t \in Threads |-> "idle"]
    /\ node = [t \in Threads |-> Null]
    /\ seen = [t \in Threads |-> NullWord]
    /\ new = [t \in Threads |-> NullWord]

Move(t, from, to) == pc[t] = from /\ pc' = [pc EXCEPT ![t] = to]

\* The call returns, and the thread's local variables are gone.
Return(t, from) ==
    /\ Move(t, from, "idle")
    /\ node' = [node EXCEPT ![t] = Null]
    /\ seen' = [seen EXCEPT ![t] = NullWord]
    /\ new' = [new EXCEPT ![t] = NullWord]

\* _top.compare_exchange_weak(seen, new): succeeds...
TopSwung(t) == top = seen[t] /\ top' = new[t] /\ UNCHANGED spurious

\* ...or fails, because _top has changed or for nothing.
TopKept(t) ==
    /\ UNCHANGED top
    /\ IF top = seen[t] THEN FailsForNothing ELSE UNCHANGED spurious

-----------------------------------------------------------------------------
\* The producer.

\* new Node() clears next; then push is called.
CallPush(p) ==
    /\ Move(p, "idle", "pushCombine")
    /\ Busy(p)
    /\ \E n \in Allocatable :
          /\ Make(n)
          /\ node' = [node EXCEPT ![p] = n]
          /\ next' = [next EXCEPT ![n] = Null]
    /\ UNCHANGED <<spurious, top, versions, seen, new>>

\* The version is drawn once, before the loop.
PushCombine(p) ==
    /\ Move(p, "pushCombine", "pushLoad")
    /\ new' = [new EXCEPT ![p] = Combine(node[p], versionT)]
    /\ versionT' = NextVersion(versionT)
    /\ UNCHANGED <<heap, client, spurious, top, next, versionNext, node, seen>>

PushLoad(p) ==
    /\ Move(p, "pushLoad", "pushLink")
    /\ seen' = [seen EXCEPT ![p] = top]
    /\ UNCHANGED <<heap, client, spurious, top, next, versions, node, new>>

PushLink(p) ==
    /\ Move(p, "pushLink", "pushCas")
    /\ next' = [next EXCEPT ![node[p]] = seen[p].ptr]
    /\ UNCHANGED <<heap, client, spurious, top, versions, node, seen, new>>

\* A defect to catch: _top is stored, whatever it has become meanwhile.
PushStores(p) ==
    /\ Move(p, "pushCas", "pushed")
    /\ top' = new[p]
    /\ UNCHANGED <<heap, client, spurious, next, versions, node, seen, new>>

\* A defect to catch: after a failed exchange, which loads _top into its first
\* argument, the node is not linked again.
PushNotRelinked(p) ==
    /\ \/ TopSwung(p) /\ Move(p, "pushCas", "pushed") /\ UNCHANGED seen
       \/ TopKept(p) /\ Move(p, "pushCas", "pushCas") /\ seen' = [seen EXCEPT ![p] = top]
    /\ UNCHANGED <<heap, client, next, versions, node, new>>

PushCas(p) ==
    /\ \/ TopSwung(p) /\ Move(p, "pushCas", "pushed")
       \/ TopKept(p) /\ Move(p, "pushCas", "pushLoad")
    /\ UNCHANGED <<heap, client, next, versions, node, seen, new>>

PushReturn(p) ==
    /\ Return(p, "pushed")
    /\ Count(p)
    /\ UNCHANGED <<heap, count, flags, broken, spurious, top, next, versions>>

-----------------------------------------------------------------------------
\* The consumer.

CallPop(c) ==
    /\ Move(c, "idle", "popLoad")
    /\ Busy(c)
    /\ UNCHANGED <<heap, client, spurious, top, next, versions, node, seen, new>>

\* A defect to catch: no test for an empty stack.
PopLoadUnchecked(c) ==
    /\ Move(c, "popLoad", "popRead")
    /\ seen' = [seen EXCEPT ![c] = top]
    /\ UNCHANGED <<heap, client, spurious, top, next, versions, node, new>>

PopLoad(c) ==
    /\ Move(c, "popLoad", IF top.ptr = Null THEN "empty" ELSE "popRead")
    /\ seen' = [seen EXCEPT ![c] = top]
    /\ UNCHANGED <<heap, client, spurious, top, next, versions, node, new>>

\* top->next is read; the version follows.
PopRead(c) ==
    /\ Move(c, "popRead", "popCombine")
    /\ \E n \in IF memory[seen[c].ptr] = "live" THEN {next[seen[c].ptr]} ELSE Pointers :
          new' = [new EXCEPT ![c] = Combine(n, 0)]
    /\ UNCHANGED <<heap, client, spurious, top, next, versions, node, seen>>

PopCombine(c) ==
    /\ Move(c, "popCombine", "popCas")
    /\ new' = [new EXCEPT ![c] = Combine(@.ptr, versionNext)]
    /\ versionNext' = NextVersion(versionNext)
    /\ UNCHANGED <<heap, client, spurious, top, next, versionT, node, seen>>

\* A defect to catch: _top is stored, whatever it has become meanwhile.
PopStores(c) ==
    /\ Move(c, "popCas", "got")
    /\ top' = new[c]
    /\ node' = [node EXCEPT ![c] = seen[c].ptr]
    /\ UNCHANGED <<heap, client, spurious, next, versions, seen, new>>

PopCas(c) ==
    /\ \/ TopSwung(c) /\ Move(c, "popCas", "got") /\ node' = [node EXCEPT ![c] = seen[c].ptr]
       \/ TopKept(c) /\ Move(c, "popCas", "popLoad") /\ UNCHANGED node
    /\ UNCHANGED <<heap, client, next, versions, seen, new>>

\* pop returns nullptr, and the consumer will try again.
PopEmpty(c) ==
    /\ Return(c, "empty")
    /\ UNCHANGED <<heap, client, spurious, top, next, versions>>

\* pop returns a node.
PopReturn(c) ==
    /\ Return(c, "got")
    /\ Consume(node[c])
    /\ Count(c)
    /\ UNCHANGED <<spurious, top, next, versions>>

\* A failed assertion stops the program.
Push(p) ==
    /\ ~broken
    /\ \/ CallPush(p) \/ PushCombine(p) \/ PushLoad(p) \/ PushLink(p) \/ PushCas(p)
       \/ PushReturn(p)

Pop(c) ==
    /\ ~broken
    /\ \/ CallPop(c) \/ PopLoad(c) \/ PopRead(c) \/ PopCombine(c) \/ PopCas(c)
       \/ PopEmpty(c) \/ PopReturn(c)

Next == (\E p \in Producers : Push(p)) \/ (\E c \in Consumers : Pop(c))

Spec == Init /\ [][Next]_vars

\* The operating system runs every thread again and again.
FairSpec ==
    /\ Spec
    /\ \A p \in Producers : WF_vars(Push(p))
    /\ \A c \in Consumers : WF_vars(Pop(c))

-----------------------------------------------------------------------------
\* Type invariant; no null pointer is dereferenced.
PushPlaces == {"pushCombine", "pushLoad", "pushLink", "pushCas", "pushed"}
ReadPlaces == {"popRead", "popCombine", "popCas"}

TypeOK ==
    /\ ClientTypeOK
    /\ top \in Words
    /\ next \in [Nodes -> Pointers]
    /\ versionT \in 0..Versions - 1 /\ versionNext \in 0..Versions - 1
    /\ pc \in [Threads -> PushPlaces \cup ReadPlaces \cup {"idle", "popLoad", "empty", "got"}]
    /\ node \in [Threads -> Pointers]
    /\ seen \in [Threads -> Words] /\ new \in [Threads -> Words]
    /\ \A t \in Threads : pc[t] \in PushPlaces \cup {"got"} => node[t] # Null
    /\ \A t \in Threads : pc[t] \in ReadPlaces => seen[t].ptr # Null

\* The k-th pointer met when following next from _top.
Walk[k \in 0..Cardinality(Nodes)] ==
    IF k = 0 THEN top.ptr
    ELSE IF Walk[k - 1] = Null THEN Null ELSE next[Walk[k - 1]]

\* The nodes on the stack, newest first.
Chain ==
    LET depth == Cardinality({k \in 0..Cardinality(Nodes) : Walk[k] # Null})
    IN  [k \in 1..depth |-> Walk[k - 1]]

\* The list that starts at _top ends, every node on it is live, and no thread
\* still has one of them in its hands, to push it or to delete it; no assertion
\* of the consumers has failed (push and pop of lockfree_stack.h; the consumers
\* of benchmark/main_lockfree.cpp).
StackIntact ==
    LET onStack == {Chain[k] : k \in DOMAIN Chain} IN
    /\ TypeOK /\ AssertionsHold
    /\ Walk[Cardinality(Nodes)] = Null
    /\ \A n \in onStack : memory[n] = "live"
    /\ \A t \in Threads : node[t] \in onStack => pc[t] = "pushed"

\* push and pop are linearizable operations on a stack, whose items are what
\* the list in memory holds (push and pop of lockfree_stack.h).
Phase(t) == CASE pc[t] = "idle"                       -> "idle"
              [] pc[t] \in {"pushed", "empty", "got"} -> "committed"
              [] OTHER                                -> "called"

Lifo == INSTANCE LinearStack WITH
    Nothing <- 0,
    items   <- [k \in DOMAIN Chain |-> data[Chain[k]]],
    phase   <- [t \in Threads |-> Phase(t)],
    handed  <- [c \in Consumers |-> IF pc[c] = "got" THEN data[node[c]] ELSE 0],
    pushing <- [p \in Producers |-> IF pc[p] \in {"idle", "pushed"} THEN 0 ELSE data[node[p]]]
LifoSpec == Lifo!Spec

\* When no more is asked for than is handed over every push returns, every
\* consumer gets its nodes, and of the flags only those of the nodes left over
\* are set (the joins and the last loop of benchmark/main_lockfree.cpp).
Finished == \A t \in Threads : pc[t] = "idle" /\ done[t] = quota[t]
Termination == <>(Finished /\ Cardinality(flags) = LeftOver)
=============================================================================
