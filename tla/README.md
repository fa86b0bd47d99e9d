# A verification development for naesala

naesala is a C++11 header library for Linux: blocking queues, lock-free
containers, a linear-probing hashmap, and small utilities. This directory holds
TLA+ models of its components, the configurations that model-check them with
TLC, and theorems about them that TLAPS checks. Line numbers refer to the
sources under `src/`.

## Inventory

| Component | State | Operations | Interacts with | What makes it correct | Status |
| --- | --- | --- | --- | --- | --- |
| Blocking queues, condition variables (`blocking_queue/condition_…`, `cplus_condition_…`) | a mutex, two condition variables, a circular buffer | `put`, `take` | any number of producer and consumer threads | bounded FIFO, every item to one consumer, no lost wakeup, everybody finishes | modelled, proved; not a `Task` whose copy throws |
| Blocking queues, semaphores (`semaphore_…`, `cplus_semaphore_…`) | a mutex, two semaphores, a circular buffer | `put`, `take` | the same; signal handlers that interrupt `sem_wait` | bounded FIFO, permits agree with the buffer, the assertions hold | modelled, proved; the same exception |
| Combined pointers (`lockfree/lockfree_util.h`) | one 16-bit counter for each pointer type | `combine`, `pointer` | stack, list | two visits of an address are told apart | modelled |
| Lock-free stack (`lockfree/lockfree_stack.h`) | `_top`, the nodes' `next` | `push`, `pop` | clients that delete nodes, an allocator that reuses addresses | linearizable stack | modelled, proved where no address comes back to a rival |
| Lock-free list (`lockfree/lockfree_list.h`) | `_head`, `_tail`, the nodes' `next` and data | `put`, `take` | the same | linearizable FIFO queue, nothing lost | modelled, proved for the threads that do no harm |
| Lock-free slab pool (`lockfree_pool/`) | a lock-free stack, a reference count in each block | `get`, `back`, `incr_ref`, `decr_ref` | the stack; threads that share a block | a block is in one place; the count is that of its users | modelled over an atomic stack, proved |
| Benchmark clients (`benchmark/main_blocking_queue.cpp`, `main_lockfree.cpp`, `main_lockfree_pool.cpp`) | counters, flags | loops over the operations, assertions | the containers | assertions and joins | modelled as the callers |
| Linear hashmap (`hashmap/`) | buckets with two reserved keys, four counters | insert, assign, find, erase, `[]`, clear, copy, move, swap, resize, iterators | iterators across an erasure that shrinks the table | a finite map; probing ends; counters agree with buckets | modelled, except reserved keys; proved |
| Barrier (`common/barrier.h`) | a 32-bit counter, a mutex, a condition variable | `await` | the benchmarks' threads | nobody passes before the last has come, everybody passes then | modelled, safety proved |
| Range (`common/range.h`) | two numbers and a step | iteration | every loop of the benchmarks | the loop meets its numbers and ends | modelled, safety proved |
| LRU cache (`container/lru.h`) | a list and an index of iterators into it | `Get`, `Set` | nothing | index and list agree; what was used last is kept | modelled, proved |
| Trie (`container/trie.h`) | a tree of nodes | `Insert`, `Search`, `StartsWith`, destructor | nothing | a set of words; a tree | modelled, proved |
| List and slab pool (`container/list.h`, `slab_pool.h`) | two ends, two lists through the same nodes | push, append, pop; get, back; the destructors | the clients' nodes | one chain for each list; a node is handed out once | modelled, proved |
| ConfParser (`configure/`) | a map of maps | `load`, `get`, `set` | a file | what a load leaves behind, above all one that throws | modelled; what `load` reads proved |
| ProcStat (`common/proc_stat.h`) | plain data | `update` | `/proc`, processes that come and go | the data are those of one process | modelled, proved |
| align_hash_map (`third/alignhash*.h`) | buckets with flags, two counters | insert, find, erase, `[]`, clear, iterators, resize in place | the hashmap benchmark | a finite map; probing ends | modelled, with linear probing; proved |
| hash_chain (`third/ulib/hash_chain*.h`) | chains, a snapshot linked through them | insert, find, erase, clear, snap, sort, copy, iterators | a benchmark with 64 threads | chains hold what was inserted; walks meet it, in the snapshot's order | modelled for one thread; proved |
| Duration, likely | a time | one print | nothing | | not modelled |
| Hashmap benchmarks | | timing loops | the hashmaps | | not modelled; their calls are in the clients |

`log/` and `concurrent_hashmap/` hold only build files. `container/list.h`,
`slab_pool.h` and `conf_parser.h` do not compile as they stand; they are
modelled from what they plainly mean to do.

The build (`CMakeLists.txt`) uses `-O3` without `NDEBUG`: assertions are
compiled in and stop the program.

The hard behaviours are: signals sent outside the mutex, wakeups for nothing,
waits interrupted by a signal handler, the window between a copy and a pop (the
queues); freed and reused memory, ABA, helping, stale loads (the lock-free
containers); a count that is reset, pushed back and taken up again by three
threads at once (the pool); tombstones, shrinking under an iterator, thresholds
that meet (the hashmaps); structures that share their nodes (list and pool,
hash_chain). `PROJECT.json` lists each of them at its line.

## Modules

```
CircularBuffer ── BlockingQueue ─┬─ ConditionQueue ─── MCConditionQueue
                                 └─ SemaphoreQueue ─── MCSemaphoreQueue
BoundedFifo        (abstract; both queues implement it)

CombinedPointers ─ LockfreeClients ─┬─ LockfreeStack ─ MCLockfreeStack
                                    └─ LockfreeList ── MCLockfreeList
LinearStack, LinearQueue   (abstract; implemented by the stack, by the list)

LockfreeSlabPool ── MCLockfreeSlabPool

LinearHashmap ── MCLinearHashmap
FiniteMaps         (abstract; implemented by LinearHashmap and by AlignHash)

Barrier, and instances of
Range, LruCache, Trie, IntrusiveList, SlabPool,
ConfParser, ProcStat ── Utilities ────────────────┐
instances of AlignHash, HashChain ── VendoredMaps ─┴─ MCUtilities
Chains             (used by IntrusiveList and SlabPool)

BlockingQueueProofs ─┬─ ConditionQueueProofs
                     └─ SemaphoreQueueProofs
LockfreeStackProofs, LockfreeListProofs, LockfreeSlabPoolProofs
LinearHashmapProofs  (about LinearHashmap and VendoredMaps)
UtilitiesProofs      (about Utilities: barrier, range, ProcStat, cache, trie,
                      list, slab pool, ConfParser)
```

### Blocking queues

The four headers differ in how a thread waits and notifies, and share all the
rest. `BlockingQueue` holds what they share: the mutex, the buffer, and the
steps `Acquire`, `Push`, `CopyFront`, `Pop`, `Release`, `Leave`. It has no
next-state relation of its own. `ConditionQueue` and `SemaphoreQueue` conjoin
each step with what happens to the condition variables or semaphores.
`CircularBuffer` is `boost::circular_buffer`, whose `push_back` drops the oldest
element when there is no room: that the queues never let it is a result, not an
assumption.

The pthread, C++11 and Boost variants have the same control. The C++ `wait(mg,
pred)` is the loop that the pthread version writes out. One model stands for
both variants.

An action is what one thread does between two points where another can
interfere. Under the mutex the copy of the front element and `pop_front` are
separate actions, and so are unlock and signal (or post): the headers notify
after they have released the mutex. `pthread_cond_wait` releases the mutex and
sleeps in one step, as POSIX promises, and may return for nothing
(`SpuriousWakeup`). A signal wakes any one sleeper, and a woken thread competes
for the mutex like any other.

`sem_wait` may fail with EINTR while it waits; `put` and `take` ignore its
result, so the thread goes on without a permit (`PutWaitInterrupted`,
`TakeWaitInterrupted`). The assertion it then meets either holds by luck or
stops the program (`aborted`). `boost::interprocess_semaphore::wait` is not
interrupted: for the C++ variant read the behaviours in which nothing was
(`cutPuts` and `cutTakes` stay 0). `AbortsAreInterrupted` says that no assertion
fails in them.

The callers are the threads of `main_blocking_queue.cpp`, with quotas. Items
are `<<producer, k>>`, so that they are distinct and their order shows.

### Lock-free containers

`CombinedPointers` models the 64-bit word. `combine<T>` has a function-local
static counter, so each type it is instantiated with counts separately.
The list uses it with `T*` only. The stack uses it with `T*` in `push` and,
because `next` is an `IStackNode*`, with `IStackNode*` in `pop`.

`LockfreeClients` models the threads of `main_lockfree.cpp`: numbering a node,
setting its flag (and asserting that it was clear), handing it over; asserting
that the flag of a node it gets is set, clearing it, deleting the node. It also
models memory. A deleted node's fields read as anything; its address comes
back from `new` if `Reuse` is TRUE. A failed assertion stops the program
(`broken`).

In `LockfreeStack` and `LockfreeList` an action makes one access to shared
memory. The exception is `TakeStore`, where `take` writes data and `next` of a
node that it owns. A local variable is in the state exactly while it is live.
Weak exchanges may fail for nothing, up to `MaxSpurious` times. The stack
models the draw of a version as an action: a version drawn early and used late
is what makes its two counters collide. The list draws all versions from one
counter and compares only words that were published, so it draws in the step
that uses the version. Memory is sequentially consistent: the sources use
acquire loads and sequentially consistent exchanges, and what the models find
and show does not turn on weaker orders. That `memcpy` copies two fields of a
node rather than one is abstracted; a torn copy is always followed by an
exchange that fails.

### Linear hashmap

`LinearHashmap` is sequential: a client calls one operation after the other on
the map objects `Maps`, and each action is one call, with the resize that `Set`
or `Delete` makes in it. A map is a record of its buckets (`key`, `value`) and
the counters that change on their own (`size`, `used`). `resize_count_`,
`shrink_count_` and `mask_` are functions of `bucket_count_` in the code, and
operators here. `Dead` marks the value of a bucket where none is constructed:
that the code constructs and destroys each value once shows as `Dead` exactly
where no entry is.

Probing is the set of steps at which the loop of `Get` or `Set` would stop, and
the least of them. The two sets differ: `Get` steps over tombstones, `Set` stops
at them. If a set were empty, the loop would not end, and TLC would report it;
`NeverFull` says why it never is. `Resize` is a recursive function over the old
buckets, because the order in which they are moved decides their places.

A client has some of the map objects, keys, values and table sizes, and calls in
any order what it likes. A `careful` client inserts only keys that `find` did not
find, once it has erased; before that it inserts at will. `Empty` and `Erased`
are no keys of the client. `call` is a history variable: the last call, which the
abstract specification and `ErasedIsGone` need.

A client that `iterates` walks through a map (`Begin`, `Increment`) and may erase
through its iterator on the way (`EraseHere`), but calls nothing else. An erasure
may shrink the table, and the iterator then keeps an index into the old one. It
may lie beyond the end, where the code reads what is not its memory; the model
follows the iterator while it lies within the table, and `TraversalMeetsAll`
excludes walks during which the table shrank.

The copy constructor leaves what `operator=` leaves in a map without buckets,
and the move constructor what the move assignment leaves there; each stands for
both.

### Barrier

Every action of `Barrier` is a critical section of `await`: up to the return or
the wait (`Arrive`), and from a wakeup to the return or the next wait (`Resume`).
The counter is unsigned with `Word` values. `MaxSpurious` bounds the wakeups for
nothing.

### Lock-free slab pool

`LockfreeSlabPool` has the reference count of each block, and `incr_ref` and
`decr_ref` one access to a count at a time. A thread either owns a block it got
(`main_lockfree_pool.cpp`), or counts itself in on a block it got or on one that
another thread is using (`Share`). A count of `BACKING` (-1) says that the block
is on its way to the pool. The last user exchanges 1 for it (`DecrLast`), pushes
the block (`DecrPush`) and exchanges it for 0 (`DecrReset`); in between, another
thread can get the block, find the count at `BACKING`, and reset it first
(`IncrHelp`). The stack is a bag whose push and pop are atomic: which block comes
back does not matter here, and what happens when they are not atomic is the
subject of `LockfreeStack`.

`Racing` is what clients may do. If it is FALSE, the last user of a block leaves
only when nobody is between the call of `incr_ref` and its exchange on that block:
a thread counts itself in on behalf of somebody who has the block already. If it
is TRUE, a thread may come upon a block and count itself in while its last user
leaves. The comments of the code (`lockfree_slab_pool.h:27` and `:45`) mean to
allow this.

### The small components

Each has a module of its own. `Utilities` brings them together, with one `active`
component in each behaviour, and `VendoredMaps` the two vendored hashmaps, one of
which is `vendored`. `MCUtilities` has behaviours of the one and of the other; so one
run checks all of them.

* `Range`: the iterator of a loop over a signed or unsigned type of `Word` values.
  A signed sum that does not fit is undefined and may become anything.
* `LruCache`: list nodes, the order of the list, and the index as three
  variables; `used` is the history that says what should be in it.
* `Trie`: the tree's nodes as a growing sequence. `Grown` is the trees that `Insert`
  makes letter by letter, `Met` the nodes that `Find` comes to.
* `IntrusiveList`, `SlabPool`: `next` of the nodes is a function, and lists are
  what one meets following it. `Chains` says what that is: the one sequence of
  nodes that leads from the first to null or, if it goes round in circles, to the
  first node met twice. `~List` stops one node early and does not destroy the last
  one; `ListsIntact` says exactly that. `back` of the pool does not take the node
  off the live list, so that `~SlabPool`, which follows both lists, deletes some
  node twice as soon as one was ever given back; `PoolIntact` says when, and that
  the free list is intact until then.
* `ConfParser`: a line of the file is what `load` takes it for. `load` keeps what
  it had before, and what it has read when it throws.
* `ProcStat`: `update` as the four calls it makes to the operating system, between
  which the process may exit and another one be given its pid. A blank in the
  command hides what follows it from `operator>>`.
* `AlignHash`: as `LinearHashmap`, with flags instead of reserved keys, and the
  resize in place: the old and the new table share their memory, and an entry that
  is in the way is kicked out and moved next. `Resize` is a recursive function over
  the rounds of that loop, each of which looks at an old bucket (`Look`) or puts the
  entry in hand into a new one (`Put`).
* `HashChain`: a chain is the sequence of its entries, and so is the snapshot. The
  client uses a snapshot as long as none of its entries was freed, and erases
  through an iterator only if the parent the iterator remembers is still the right
  one: nothing was inserted since `begin()`, and no key of a snapshot is there
  twice. `Sort` is the code's bottom-up merge sort, with one part for each
  level; the property is stated without it. A snapshot of which an entry was freed is
  `Dangling`.

### Abstract specifications

`BoundedFifo`, `LinearStack` and `LinearQueue` say that an operation is called,
takes effect in one atomic step, and returns. The refinements map the memory
itself, the nodes met when following `next`, to the abstract sequence, and so
also say that the structure in memory is what was pushed. `LinearQueue` keeps,
in `sawEmpty`, the consumers in whose call the queue was empty at some moment:
only those may return nothing. The code's empty answer has no fixed
linearization point, and the history variable of the same name in
`LockfreeList` records the evidence. `FiniteMaps` says that each map object is a
finite function, and what each call makes of it; the refinement looks every key
up, as a client would.

## Runs

| Run | Instance | Shows |
| --- | --- | --- |
| `condition_queue` | 2 producers, 2 consumers, 2 items each, capacity 2, 1 spurious wakeup | `TypeOK`, `NoLostWakeup`, `FifoSpec`, `Termination` |
| `semaphore_queue` | the same, up to 2 interrupted waits | `TypeOK`, `PermitsConserved`, `AbortsAreInterrupted`, `FifoSpec`, `Termination` (or an abort) |
| `semaphore_assertion` | capacity 1, 1 interrupted wait | **violation** of `AssertionsHold` |
| `stack` | 2 producers and 2 consumers of 1 node each, or producers of 1 and 2 nodes and 1 consumer of 3; 2 addresses, reused; 1 exchange that fails for nothing | `StackIntact`, `LifoSpec`, `Termination` |
| `stack_aba` | 1 producer × 4, 2 consumers × 2, 2 addresses, reused | **violation** of `AssertionsHold` |
| `list` | 1 producer of 2 nodes and 2 consumers of 1, or producers of 2 and 1 and nobody takes; addresses reused; then the destructor | `ListIntact`, `FifoSpec`, `Termination` |
| `list_lost` | 2 producers, 1 consumer | **violation** of `Termination` |
| `hashmap` | 1 map with 3 keys and 2 values, 1 map with 4 keys that is walked through, 2 maps with 2 keys that are copied, moved and swapped; the client looks before it inserts, once it has erased | `TypeOK`, `NeverFull`, `CountsAgree`, `EntriesFound`, `TraversalMeetsAll`, `MapSpec` |
| `hashmap_erased` | 1 map, inserts and erases at will | **violation** of `ErasedIsGone` |
| `pool_held` | 3 threads, 2 rounds each, 2 blocks, 1 exchange that fails for nothing, not racing | `TypeOK`, `OnePlace`, `CountsUsers`, `AssertionHolds`, `Termination` |
| `pool_racing` | the same, racing | **violation** of `AssertionHolds` |
| `utilities` | each small component by itself | `TypesOK`, and for the barrier `NobodyEarly`, `EverybodyPasses`; the range `StaysInRange`, `LoopEnds`; the others `CacheIntact`, `TrieIntact`, `ListsIntact`, `PoolIntact`, `LoadReads`, `OneProcess`, `TableIntact`, `TableSpec`, `HashChainsIntact` |

`StackIntact` and `ListIntact` have the type invariant and the clients' assertions
among their conjuncts, and the latter also says that no node is lost: the
structure, its nodes and who has them are one invariant.

The runs whose programs come to an end, or to a stop, set `CHECK_DEADLOCK FALSE`:
the threads finish, an abort stops the program, and so does the end of a loop, or
a destructor. That nobody stops early is what `Termination`, `EverybodyPasses` and
`LoopEnds` say. At a barrier with surplus threads the late ones wait for ever.

Bounds. Two threads on each side are the fewest that show stolen wakeups, a
notification that wakes the wrong thread, and an exchange lost to a rival.
Capacity 2 with four items fills and empties the buffer, so that both sides meet
interruptions. In the queues `PutQuota`, `TakeQuota`, `MaxSpurious` and
`MaxInterrupts` bound the state; the theorems hold for all their values. In the
lock-free models the number of addresses, the quotas and `MaxSpurious` are the
bounds, and `Versions = 64` is more than any run draws; the theorems hold for all
their values. A counter therefore
never wraps, and none of the violations needs it to. The first quotas of `stack`
let an address come back while a `pop` that saw it before is under way; with
more pushes than they have, two consumers run into what `stack_aba` shows. With
one consumer, the second quotas, they do not.

In `pool_held` one thread uses a block, a second counts itself in on it or gets it
from the pool, while a third interferes with either; two blocks let two threads own
one each while the pool is empty. The theorems hold for all numbers of them.

The keys 0, 7, 15 and 16 hash to themselves. In 8 buckets 0 and 16, and 7 and
15, share a home, and the second chain wraps around into the first; in 16 they
part, except 0 and 16. A client starts from 8 buckets, or from 1 or 16 if it asks
for them. From 1 the table grows to 2, 4 and 8, from 2 and 4 with and without
tombstones; from 16 an erasure that leaves fewer than three entries shrinks it to
8. Growing at 8 needs six used buckets, more than four keys give; it takes the
same branch as growing at 4. The state is finite without further bounds. Two
keys are enough for the clients of two maps, which meet with equal and with
different bucket counts and every pair of bucket states; the two maps are
symmetric.

In `utilities` a `Word` of 8 values is the barrier's counter, which four threads
wrap, and the range's type, over which every start, end and step is tried. The
cache has two entries for three keys. Words have up to two letters of two. The
list's three nodes go between two lists, so that `append` meets empty, single
and longer ones. A configuration file has up to three lines, which is an option,
an item and what may follow. Three processes have the pid in turn: one for
each gap that `update` leaves. The keys 0, 3, 7 and 8 of align_hash_map collide, wrap
around and kick each other out while its table grows from 2 to 4 and 8 buckets.
hash_chain has three entries with three keys in two chains: equal keys, a chain with
different ones, and a merge of parts of different lengths.

### What the violations show

* `semaphore_assertion`: an interrupted `sem_wait` makes `assert(!_queue.empty())`
  or `assert(!_queue.full())` fail (`semaphore_bounded_blocking_queue.h:27-38`).
* `stack_aba`: a pop loads the word `(n, v)`, which a `pop` (or a `push`) has
  put there, and is delayed. Later `n` comes back on top with a version drawn from
  the other counter, which is `v` again. The delayed exchange succeeds. It needs
  no wrap, only two counters (`lockfree_stack.h:27` and `:43`).
* `list_lost`: `put` loads `_tail` and is delayed. The node leaves the list
  and `take` resets its `next` to an untagged 0, so the delayed exchange
  succeeds on it (`lockfree_list.h:57` and `:97`). `take` loads `_head` a second
  time; `put` has no such check on `_tail`. With one producer it cannot happen
  (`list`).
* `hashmap_erased`: a key is stored behind an entry that is then erased. The
  next insertion of the key stops at the tombstone and stores it a second time
  (`linear_hashmap-inl.h:89`). `erase` removes the first of the two, and the key
  is found again, with its old value. A client that looks first once it has erased
  (`hashmap`) does not meet this; `main_hashmap.cpp` does not look.
* `pool_racing`: a thread in `incr_ref` finds `BACKING` while the last user is in
  `decr_ref`, and resets the count to 0; its own `last` stays -1. Somebody else
  gets the block, uses and leaves it, and the count is `BACKING` again: now the
  exchange of the first thread succeeds, from -1 to 0, and it uses the block without
  being counted. The next two users bring the count down once too often, and a
  `decr_ref` finds `BACKING` where it counts on a user (`lockfree_slab_pool.h:39`).
  The comments at `:27` and `:45` speak of this case as one that is provided for.

### Fairness

The queues assume weak fairness of the whole next-state relation only: some
thread that can run does run, and the operating system may otherwise choose. It
suffices because each operation takes a bounded number of steps and the spurious
wakeups are bounded. The lock-free models and the pool assume weak fairness of
each thread: a consumer that finds nothing spins, and a thread whose exchange
failed tries again, so the others must run too, which a preemptive scheduler
grants. The small components again need only that some thread that can run does.

## Theorems

The theorems about the queues hold for all finite sets of threads, all quotas, every positive
capacity and every bound on wakeups and interruptions. They rest on the named
assumptions of the modules (`CapacityAssumption`, `ThreadAssumption`,
`QuotaAssumption`, `SpuriousAssumption`, `InterruptAssumption`).

`BlockingQueueProofs` proves what both queues need. `QueueInv` is the shared
inductive invariant: types, `MutualExclusion` (who is between lock and unlock
owns the mutex) and `FrontIsCopied` (between copy and pop the local copy is
still the front of the buffer). Types alone are not inductive: that
`pop_front` removes the item that was copied needs both others. Each shared step
preserves it and, seen through the refinement mapping, is a step of
`BoundedFifo` or a stutter.

| Theorem | Says | Argument |
| --- | --- | --- |
| `ConditionQueueProofs!TypeCorrect` | `[]TypeOK` | `QueueInv` plus the sets of sleepers |
| `ConditionQueueProofs!WakeupsKept` | `[]NoLostWakeup` | `IInv` adds that sleepers are at "wait" and counts awake and owing threads; each step changes the counts by at most one, and a signal moves one from owing to awake |
| `ConditionQueueProofs!Linearizable` | `Spec => FifoSpec` | step simulation |
| `SemaphoreQueueProofs!TypeCorrect` | `[]TypeOK` | `QueueInv` plus the counters |
| `SemaphoreQueueProofs!PermitAccount` | `[]PermitsConserved` | the sums are inductive with `QueueInv` |
| `SemaphoreQueueProofs!Linearizable` | `Spec => FifoSpec` | step simulation |
| `SemaphoreQueueProofs!NoAssertionFails` | `[]AbortsAreInterrupted` | a thread at the assertion counts in `PermitsConserved`, which leaves it room or an item as long as nothing was interrupted |
| `UtilitiesProofs!NobodyPassesEarly` | `[]NobodyEarly` | `IInv` adds `CounterOK`: a counter at 0 means that at least as many have called as there are parties |

`CounterOK` says that the counter is what the calls so far have left of it: as
long as fewer have called than there are parties, it is their difference. What it
is after that does not matter. The theorem holds for any finite set of threads,
any width of the counter and any number of parties below it
(`BarrierAssumption`).

| Theorem | Says | Argument |
| --- | --- | --- |
| `LockfreeSlabPoolProofs!TypeCorrect` | `[]TypeOK` | `IInv`, below |
| `LockfreeSlabPoolProofs!BlocksHaveOnePlace` | `[]OnePlace` | `InPool` and `Alone` |
| `LockfreeSlabPoolProofs!UsersAreCounted` | `[]CountsUsers` | a conjunct of `IInv` |
| `LockfreeSlabPoolProofs!NoAssertionFails` | `[]AssertionHolds` | a user in `decr_ref` is counted, so the count is not `BACKING` |
| `UtilitiesProofs!LoopStaysInRange` | `[]StaysInRange` | inductive with the types; the arithmetic is that one more step from a multiple of `step` below the end does not lead beyond it |
| `UtilitiesProofs!UpdatesAreAboutOneProcess` | `[]OneProcess` | what `update` has read so far is of a process no younger than the one it began with |
| `UtilitiesProofs!CacheStaysIntact` | `[]CacheIntact` | `CacheInv`: node by node, the list has the first of `used`, in which every key is there once |
| `UtilitiesProofs!ListsStayIntact` | `[]ListsIntact` | `ListInv`: what a list holds is linked from its start to null, and no two lists share a node |
| `UtilitiesProofs!PoolStaysIntact` | `[]PoolIntact` | `PoolInv`, below |
| `UtilitiesProofs!TrieStaysIntact` | `[]TrieIntact` | `TrieInv`: the nodes can be named by the words that lead to them |
| `UtilitiesProofs!LoadsReadFiles` | `[]LoadReads` | induction over the lines of the file |
| `UtilitiesProofs!TypesAreKept` | `[]TypesOK` | the invariants above, and that there are finitely many words of bounded length |

The theorems about the pool assume `~Racing`, without which `pool_racing` refutes
them, and `PoolAssumption`. The inductive invariant adds to the properties what
they hang on. `InPool` relates the stack to the threads' hands. `Alone`: an
owner, and a thread about to push a block, has it alone; so no push comes second.
`Accompanied`: a thread being counted in has its block alone, or some user waits
for it; so no user becomes the last meanwhile. `LastsRight` says what a thread
may conclude from the count it loaded: at the exchange of 1 for `BACKING` it
compares with 1, at the other exchange of `decr_ref` with something else, and the
exchange of `incr_ref` after it helped, which compares with -1, does not succeed.
`CountsUsers` counts a set of threads, each step adds at most one to it or takes
one from it, and the lemmas say which.

The theorems about the small components are about `SpecAll`, in which one of them is
active; each invariant is preserved by the steps of its component, and by the
others because they leave its variables alone. They hold for any finite set of
list nodes, any keys and values, any finite alphabet, any capacity of the cache, and
words and files of any length.

The loops over a list or a pool are `ChainFrom` of `Chains`, which chooses a
sequence. That there is one follows from the pigeonhole principle, following a
link as often as there are nodes and once more, and that there is one only by an
induction along it (`ChainIsMet`). `ListInv` and `PoolInv` then say which it is,
and for each step how it changes. What `SlabPool` does with its two lists comes
in two phases. Until a node is given back, the live list is of all the nodes made,
once each, and the destructor deletes each once (`OnlyLive`). From then on every
live list that ends meets a node that was given back (`LiveMeets`), which is on the
free list as well; one that goes round in circles leads the destructor to what it
has deleted already. `get` puts whatever it hands out in front of the live list,
damaged or not, and keeps `LiveMeets`.

`TrieInv` asks for a function from nodes to words: the empty word for the root, one
letter more along every link, no word twice, with every prefix of a word. It has no
more nodes than the words inserted ask for, and `is_word` marks just these words.
`Following` says that one letter of `Insert` keeps this, whether it makes a node or
not, `NodeFound` that `Find` comes to the node with the word's name. `TypesOK` says
that a trie has no more nodes than there are words: its nodes have different ones as
their names, and over a finite alphabet there are finitely many of bounded length
(`WordsAreFinite`), so the nodes cannot be more. `After` says
what `load` has read after some of the lines; it needs nothing of the state it
starts from, so `[]LoadReads` holds whatever the table has become.

| Theorem | Says | Argument |
| --- | --- | --- |
| `LockfreeStackProofs!TypeCorrect` | `[]TypeOK` | `IInv`, below |
| `LockfreeStackProofs!StackStaysIntact` | `[]StackIntact` | `IInv`, and that `Walk` meets what `IInv` says is on the stack |
| `LockfreeStackProofs!Linearizable` | `Spec => LifoSpec` | step simulation |

The theorems about the stack assume `AbaHarmless`: the addresses of deleted nodes
do not come back (`~Reuse`), or there is one consumer at most; and, with
`CombinedAssumption` and `ClientAssumption`, finite sets of threads and nodes. `stack_aba` has neither, and refutes them. The versions are
not needed then: any positive number of them will do. What the versions add is
model-checked by `stack`, whose two consumers and reused addresses no theorem covers.
`IInv` names the nodes on the stack, from the bottom: there are a `d` and an
`s[1]` to `s[d]`, all different (`Linked`), live and in nobody's hands
(`Stacked`). `HandsApart` says that no two threads have the same node; so a node
being pushed is not on the stack. `PushReady` says that a push links its node to
the `_top` it expects. `SeenRight` is the point: what a pop has read from the next
of the node it saw is still its next as long as the node is on the stack, and a
node that was seen is not pushed again, as it would be if its address came back
while another consumer has popped it. `Numbered` makes the consumers' assertion
hold. That `Walk`, a recursive function, meets `s[d]` to `s[1]` and then `Null`
follows from the well-foundedness of the naturals, and that `d` is at most the number
of nodes from the pigeonhole principle.

| Theorem | Says | Argument |
| --- | --- | --- |
| `LockfreeListProofs!ListStaysIntact` | `[]ListIntact` | `IInv`, and that `Walk` meets `s[h]` to `s[d]` |
| `LockfreeListProofs!Linearizable` | `Spec => FifoSpec` | step simulation: `put` takes effect when it links its node (`PutLinks`), `take` when it exchanges `_head` (`TakesNode`) |

The theorems about the list assume `Harmless`: there is one producer at most, or
nobody takes; and addresses do not come back, or there is one consumer at most. Without
the first `list_lost` refutes them. They hold for any number of consumers, or of
producers, and any finite sets of nodes. `IInv` numbers the nodes in the order in
which they were linked (`Linked`): `s[h]` is the dummy that `_head` points to,
`s[d]` the last one, `_tail` points to `s[t]` in between. `Kept` says that exactly
the live nodes are on this list or in somebody's hands, `HandsApart` that no two
threads have the same one, `Ending` that a node to be linked has no next. What
threads have read a while ago is right, or their exchange fails: `HeadRight` and
`NextRight` say that what `take` read is right as long as `_head` is the word it
saw, and that no node it saw there is behind it now, as it would be if the node's
address had come back; `OnePut` that a single producer finds `_tail` at the last
node or the one before it, which is why its late exchange never hits a node that
has left; `ManyPut` what several producers know when nobody takes. `EmptySeen`
gives the moment at which the queue was empty to a `take` that returns nothing.
`Numbered` and `Counted` relate the clients' flags to the nodes: the flags that are
set are as many as the items on the list and the nodes in hands. Once the destructor
has run, `Destroyed` holds.

| Theorem | Says | Argument |
| --- | --- | --- |
| `LinearHashmapProofs!TypesAreKept` | `[]TypeOK` | every table is `Sound` |
| `LinearHashmapProofs!ProbingEnds` | `[]NeverFull` | no more buckets are taken than `ResizeCount`, which is less than the buckets there are; and a resize leaves room for what it moves |
| `LinearHashmapProofs!CountsAreRight` | `[]CountsAgree` | a conjunct of `Sound` |
| `LinearHashmapProofs!TraversalsMeetAll` | `[]TraversalMeetsAll` | `Walking`: what the iterator has yet to meet lies ahead of it |
| `LinearHashmapProofs!EntriesAreFound` | `[]EntriesFound`, for careful clients | every entry is `Reachable` |
| `LinearHashmapProofs!ErasedStaysAway` | `[]ErasedIsGone`, for careful clients | the same: a key has one entry at most |
| `LinearHashmapProofs!HashmapIsAMap` | `Spec => MapSpec`, for careful clients | step simulation |

The theorems about the hashmap hold for every hash function into the naturals,
for any keys, values and map objects, and tables of any size that is a power of two. `Sound` has
three parts: the table has its shape, its counters agree with its buckets, and
no more are taken than the thresholds allow. It holds whatever the client does.
What a careful client adds is `Reachable`: every bucket from the home of a key to its entry
is taken, by other keys or by tombstones, so `Get` comes to it. `hashmap_erased`
shows a client that is not careful, whose key has two entries. `Resize` moves the
entries one by one; that every one of its steps keeps the new table sound and
reachable is an induction. The library's induction theorems take an operator as a
parameter, which the installed provers cannot instantiate, but a set of naturals
will do in its place: a set that is not empty has a least element
(`LeastNatural`, from `WFMin`), so one that has 0, and the successor of each of
its elements, has all of them (`AllNaturals`).

| Theorem | Says | Argument |
| --- | --- | --- |
| `LinearHashmapProofs!TableStaysIntact` | `[]TableIntact` | `SlotIInv`, below |
| `LinearHashmapProofs!AlignHashIsAMap` | `SpecVendored => TableSpec` | step simulation |
| `LinearHashmapProofs!HashChainsStayIntact` | `[]HashChainsIntact` | `ChainIInv`, below |

The theorems about the vendored hashmaps are about `SpecVendored`, in which one of
them is called. They assume what the constructors and the clients rely on
(`VendoredAssumption`): a positive number of chains asked for, keys and memory of
hash_chain that are numbers, two flags that are no keys.

`SlotIInv` has three parts. `SlotSound` gives a table of align_hash_map its shape, the
counts of its entries and tombstones, and no more of them than `Sup`, so that a
bucket stays empty. `SlotReachable` says that every bucket from the home of a key to its entry
is taken, and not by the same key. It holds whatever the client does, as `set` looks for the key on its way to
an empty bucket; this is where align_hash_map and the linear hashmap part.
`Crossing` says that what a traversal has yet to meet lies ahead of it. The resize in
place is an induction over its rounds: each entry is in the old part of the table, or
in the new one, where it can be reached, or in hand, and in one of them only; and a
round looks at an old bucket or brings an entry over, so there are no more rounds
than `Resize` has.

`ChainIInv` has three parts as well. `ChainSound` says that each chain has just the
entries whose keys belong there, once each, and those of a key in the order of their
history (`Built`). `SnapSound` says that a snapshot which does not dangle has the
entries with which it was taken, those of one key in that order, and if it was sorted
the keys do not fall. `Strolling` says that a walk through the chains has met, or has
`Beyond` its iterator, all there was at `begin()`, and that nothing is both; through a
snapshot, what was met is the part up to the iterator. Of the lists only three things are ever
used: what is `Among` them, that it is there `Once`, and what is `Ahead` of what. A
merge of two lists that are `InOrder`, of which the left one is `Older`, is
in order; that the parts at higher levels have the older entries is what `PartsReady`
keeps, and why `sort` is stable. The loops of `sort`, of the copy and through the chains are
recursive functions with values that are records and lists: `StepsLeadOn` says that a
function given by a start and a step exists, with its values in the set the steps
lead to, and `StepsAgree` that there is only one.

Only model-checked:

* liveness, that is, `Termination`, `EverybodyPasses` and `LoopEnds`: the proof
  system has no rule for `ENABLED`, on which fairness rests;
* what the versions in the words of the stack and the list add when addresses come
  back to several consumers (the first instances of `stack` and `list`).

Every invariant of the runs that pass, and every refinement, is the subject of a
theorem, under the assumptions on clients named above.

## Plan

1. Blocking queues: modules, runs, proofs. Done.
2. Lock-free stack and list with their clients, one consumer and several. Done;
   safety and refinement proved, for the clients named above.
3. Linear hashmap, with iterators. Done, all its properties proved.
4. Barrier and Range: done, safety proved. Slab pool: done, safety proved.
5. LRU, Trie, ConfParser, ProcStat, the sequential list and pool, the two vendored
   hashmaps. Done, safety proved.
6. Left: queues of items whose copy throws (pthread against RAII); the pool over
   `LockfreeStack` itself in place of the bag; keys that are moved from.
7. Theorems left: the stack and the list with several consumers and addresses that
   come back, for as many versions as are drawn while a call is under way.

## Not modelled

* A `Task` whose copy throws. The pthread variants then leave their mutex locked,
  the semaphore variants lose a permit. A capacity of 0, with which nobody ever gets
  on.
* The 16 bits of a version as such: a wrap needs 65536 draws during one call. The
  model counts to `Versions` and is never there.
* Weak memory. The models are sequentially consistent.
* Keys of the linear hashmap that equal `empty_key` or `erased_key`, keys that are
  moved from and then are the empty string, and tables beyond 2^24 (where float
  thresholds are rounded) and 2^30 buckets (where `NextPowTwo` overflows).
* align_hash_map with tier probing, which the build does not select, and
  `align_hash_set`. Allocations that fail in the vendored tables.
* hash_chain used by several threads, as `main_concurrent_hashmap.cpp` does:
  nothing in it is synchronised, and any outcome is possible. Its snapshot after an
  erasure: `snap` on a map that has become empty leaves the old snapshot
  (`hash_chain_prot.h:346-347`), and `begin`, `sort`, `size` and the copy
  constructor would read freed entries. A copy has the entries of a key in reverse
  order, so that a key inserted twice is found with its older value.
* `Duration`, which prints a time, `likely`, and the timing loops of the
  benchmarks.
