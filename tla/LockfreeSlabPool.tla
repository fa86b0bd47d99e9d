--------------------------- MODULE LockfreeSlabPool ---------------------------
(***************************************************************************)
(* naesala/lockfree_pool/lockfree_slab_pool.h: a pool of blocks, and the   *)
(* reference count in each block that gives it back to the pool.           *)
(*                                                                         *)
(* In each round a thread gets a block for itself alone, as the threads of *)
(* benchmark/main_lockfree_pool.cpp do, or gets one and counts itself as   *)
(* its user, or becomes a further user of a block that has one.            *)
(*                                                                         *)
(* _stack is a bag: in which order it returns the blocks does not matter.  *)
(* Its push and pop are atomic here; LockfreeStack is about when they are. *)
(***************************************************************************)
EXTENDS Integers, FiniteSets

CONSTANTS Threads, Blocks, Null,
          Rounds,        \* how many blocks each thread uses
          Racing,        \* may the last user leave a block while another
                         \* thread is being counted in?
          MaxSpurious    \* bound: how many weak exchanges fail for nothing

ASSUME PoolAssumption ==
    /\ IsFiniteSet(Threads) /\ Null \notin Blocks
    /\ Rounds \in Nat /\ MaxSpurious \in Nat /\ Racing \in BOOLEAN

BACKING == -1

VARIABLES stacked,     \* how often each block is on _stack
          allocated,   \* the blocks that new has made
          users,       \* _user_count of each block
          pc,          \* where each thread is
          block,       \* the block each thread has in its hands
          last,        \* last of incr_ref and decr_ref
          done,        \* how many rounds each thread has begun
          broken,      \* decr_ref's assertion has failed
          spurious     \* how many exchanges have failed for nothing

vars == <<stacked, allocated, users, pc, block, last, done, broken, spurious>>

Init ==
    /\ stacked = [b \in Blocks |-> 0]
    /\ allocated = {}
    /\ users = [b \in Blocks |-> 0]
    /\ pc = [t \in Threads |-> "idle"]
    /\ block = [t \in Threads |-> Null]
    /\ last = [t \in Threads |-> 0]
    /\ done = [t \in Threads |-> 0]
    /\ broken = FALSE
    /\ spurious = 0

Move(t, from, to) == pc[t] = from /\ pc' = [pc EXCEPT ![t] = to]

\* The thread has done with its block and forgets it.
Drop(t, from) ==
    /\ Move(t, from, "idle")
    /\ block' = [block EXCEPT ![t] = Null]
    /\ last' = [last EXCEPT ![t] = 0]

\* _user_count.compare_exchange(last, to): succeeds...
Exchanged(t, to) ==
    /\ users[block[t]] = last[t]
    /\ users' = [users EXCEPT ![block[t]] = to]
    /\ UNCHANGED spurious

\* ...or fails, if it is a weak one perhaps for nothing.
Kept(t) ==
    /\ UNCHANGED users
    /\ IF users[block[t]] # last[t] THEN UNCHANGED spurious
       ELSE spurious < MaxSpurious /\ spurious' = spurious + 1

Load(t) == last' = [last EXCEPT ![t] = users[block[t]]]

-----------------------------------------------------------------------------
\* get and back.

\* A defect to catch: a block is made even though the pool has one, and the
\* pool's is not taken off.
GetLeaves(t, b, counted) ==
    /\ Move(t, "idle", IF counted THEN "incrLoad" ELSE "own")
    /\ done[t] < Rounds
    /\ \/ stacked[b] > 0
       \/ b \notin allocated /\ \A c \in Blocks : stacked[c] = 0
    /\ allocated' = allocated \cup {b}
    /\ block' = [block EXCEPT ![t] = b]
    /\ done' = [done EXCEPT ![t] = @ + 1]
    /\ UNCHANGED <<stacked, users, last, broken, spurious>>

\* pop, or new if the stack is empty.
Get(t, b, counted) ==
    /\ Move(t, "idle", IF counted THEN "incrLoad" ELSE "own")
    /\ done[t] < Rounds
    /\ \/ /\ stacked[b] > 0
          /\ stacked' = [stacked EXCEPT ![b] = @ - 1]
          /\ UNCHANGED allocated
       \/ /\ \A c \in Blocks : stacked[c] = 0
          /\ b \notin allocated
          /\ allocated' = allocated \cup {b}
          /\ UNCHANGED stacked
    /\ block' = [block EXCEPT ![t] = b]
    /\ done' = [done EXCEPT ![t] = @ + 1]
    /\ UNCHANGED <<users, last, broken, spurious>>

\* back, called by the one owner of a block.
Back(t) ==
    /\ Drop(t, "own")
    /\ stacked' = [stacked EXCEPT ![block[t]] = @ + 1]
    /\ UNCHANGED <<allocated, users, done, broken, spurious>>

-----------------------------------------------------------------------------
\* incr_ref.

\* A thread that finds u using its block calls incr_ref on it.
Share(t, u) ==
    /\ Move(t, "idle", "incrLoad")
    /\ done[t] < Rounds
    /\ pc[u] = "using"
    /\ block' = [block EXCEPT ![t] = block[u]]
    /\ done' = [done EXCEPT ![t] = @ + 1]
    /\ UNCHANGED <<stacked, allocated, users, last, broken, spurious>>

IncrLoad(t) ==
    /\ Move(t, "incrLoad", IF users[block[t]] = BACKING THEN "incrHelp" ELSE "incrCas")
    /\ Load(t)
    /\ UNCHANGED <<stacked, allocated, users, block, done, broken, spurious>>

\* The strong exchange from BACKING to 0, which loads the count if it fails.
\* After it has succeeded last is BACKING still.
IncrHelp(t) ==
    /\ Move(t, "incrHelp", "incrCas")
    /\ IF users[block[t]] = BACKING
       THEN users' = [users EXCEPT ![block[t]] = 0] /\ UNCHANGED last
       ELSE Load(t) /\ UNCHANGED users
    /\ UNCHANGED <<stacked, allocated, block, done, broken, spurious>>

IncrCas(t) ==
    /\ \/ Move(t, "incrCas", "using") /\ Exchanged(t, last[t] + 1)
       \/ Move(t, "incrCas", "incrLoad") /\ Kept(t)
    /\ UNCHANGED <<stacked, allocated, block, last, done, broken>>

-----------------------------------------------------------------------------
\* decr_ref.

Incrementing(t) == pc[t] \in {"incrLoad", "incrHelp", "incrCas"}

\* Unless it races, the last user waits until nobody is being counted in.
MayLeave(t) ==
    \/ Racing
    \/ \A u \in Threads : Incrementing(u) => block[u] # block[t]
    \/ \E u \in Threads \ {t} : pc[u] = "using" /\ block[u] = block[t]

CallDecr(t) ==
    /\ Move(t, "using", "decrLoad")
    /\ MayLeave(t)
    /\ UNCHANGED <<stacked, allocated, users, block, last, done, broken, spurious>>

DecrLoad(t) ==
    /\ Move(t, "decrLoad", IF users[block[t]] = 1 THEN "decrLast" ELSE "decrCas")
    /\ Load(t)
    /\ broken' = (broken \/ users[block[t]] = BACKING)
    /\ UNCHANGED <<stacked, allocated, users, block, done, spurious>>

DecrLast(t) ==
    /\ \/ Move(t, "decrLast", "decrPush") /\ Exchanged(t, BACKING)
       \/ Move(t, "decrLast", "decrLoad") /\ Kept(t)
    /\ UNCHANGED <<stacked, allocated, block, last, done, broken>>

DecrPush(t) ==
    /\ Move(t, "decrPush", "decrReset")
    /\ stacked' = [stacked EXCEPT ![block[t]] = @ + 1]
    /\ UNCHANGED <<allocated, users, block, last, done, broken, spurious>>

\* A defect to catch: the count is set to 0, whatever it has become.
DecrResetStores(t) ==
    /\ Drop(t, "decrReset")
    /\ users' = [users EXCEPT ![block[t]] = 0]
    /\ UNCHANGED <<stacked, allocated, done, broken, spurious>>

\* The strong exchange from BACKING to 0.
DecrReset(t) ==
    /\ Drop(t, "decrReset")
    /\ users' = [users EXCEPT ![block[t]] = IF @ = BACKING THEN 0 ELSE @]
    /\ UNCHANGED <<stacked, allocated, done, broken, spurious>>

\* A defect to catch: an exchange that failed is not tried again.
DecrCasOnce(t) ==
    /\ Drop(t, "decrCas")
    /\ Exchanged(t, last[t] - 1) \/ Kept(t)
    /\ UNCHANGED <<stacked, allocated, done, broken>>

DecrCas(t) ==
    /\ \/ Drop(t, "decrCas") /\ Exchanged(t, last[t] - 1)
       \/ Move(t, "decrCas", "decrLoad") /\ Kept(t) /\ UNCHANGED <<block, last>>
    /\ UNCHANGED <<stacked, allocated, done, broken>>

\* A failed assertion stops the program.
Step(t) ==
    /\ ~broken
    /\ \/ \E b \in Blocks : Get(t, b, FALSE) \/ Get(t, b, TRUE)
       \/ \E u \in Threads : Share(t, u)
       \/ Back(t)
       \/ IncrLoad(t) \/ IncrHelp(t) \/ IncrCas(t)
       \/ CallDecr(t) \/ DecrLoad(t) \/ DecrLast(t) \/ DecrPush(t) \/ DecrReset(t)
       \/ DecrCas(t)

Next == \E t \in Threads : Step(t)

Spec == Init /\ [][Next]_vars

\* The operating system runs every thread again and again.
FairSpec == Spec /\ \A t \in Threads : WF_vars(Step(t))

-----------------------------------------------------------------------------
Places == {"idle", "own", "incrLoad", "incrHelp", "incrCas", "using",
           "decrLoad", "decrLast", "decrPush", "decrReset", "decrCas"}

\* Those that use b and are counted, and all that have it in their hands; in
\* "decrReset" a thread has given it back.
Counted(b) == {t \in Threads : block[t] = b /\ pc[t] \in {"using", "decrLoad", "decrLast", "decrCas"}}
Holders(b) == {t \in Threads : block[t] = b /\ pc[t] # "decrReset"}

\* Type invariant; a block is on the stack at most once.
TypeOK ==
    /\ stacked \in [Blocks -> {0, 1}]
    /\ allocated \subseteq Blocks
    /\ users \in [Blocks -> Nat \cup {BACKING}]
    /\ pc \in [Threads -> Places]
    /\ block \in [Threads -> Blocks \cup {Null}]
    /\ last \in [Threads -> Nat \cup {BACKING}]
    /\ done \in [Threads -> 0..Rounds]
    /\ broken \in BOOLEAN /\ spurious \in 0..MaxSpurious
    /\ \A t \in Threads : pc[t] = "idle" <=> block[t] = Null

\* A block is on the stack just when it was made and nobody has it; one that
\* was got but not counted has one owner, and so has one on its way back (get,
\* back, and the comment of lockfree_slab_pool.h:45; the assertion of
\* benchmark/main_lockfree_pool.cpp:56).
OnePlace ==
    /\ \A b \in Blocks : stacked[b] = 1 <=> b \in allocated /\ Holders(b) = {}
    /\ \A t \in Threads : pc[t] \in {"own", "decrPush"} => Holders(block[t]) = {t}

\* The count is the number of the block's users, or BACKING when it has none
\* (incr_ref and decr_ref of lockfree_slab_pool.h).
CountsUsers ==
    \A b \in Blocks : users[b] = Cardinality(Counted(b)) \/ (users[b] = BACKING /\ Counted(b) = {})

\* The assertion of lockfree_slab_pool.h:39 holds.
AssertionHolds == ~broken

\* Every thread comes through its rounds, and every block is back in the pool
\* (the loops of incr_ref and decr_ref, the joins of main_lockfree_pool.cpp).
Termination ==
    <>[](/\ \A t \in Threads : pc[t] = "idle"
         /\ \A b \in allocated : stacked[b] = 1 /\ users[b] = 0)
=============================================================================
