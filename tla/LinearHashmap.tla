---------------------------- MODULE LinearHashmap ----------------------------
(***************************************************************************)
(* naesala/hashmap/linear_hashmap.h and linear_hashmap-inl.h: a hashmap    *)
(* with open addressing and linear probing.  A bucket whose key is         *)
(* empty_key_ was never used; one whose key is erased_key_ is a tombstone, *)
(* which probing steps over.                                               *)
(*                                                                         *)
(* A map object is a table; bucket_count_ is its count.  resize_count_ and *)
(* shrink_count_ are always the ones of bucket_count_, mask_ is one less.  *)
(* A client holds some of the objects Maps and calls their operations in   *)
(* any order, one at a time.  One that iterates walks through a map now    *)
(* and then, and calls nothing else meanwhile but erase of the iterator.   *)
(***************************************************************************)
EXTENDS Naturals, FiniteSets

CONSTANTS Maps,         \* the map objects
          Keys, Values,
          Hash,         \* hasher()
          Empty,        \* empty_key_
          Erased,       \* erased_key_
          Dead,         \* stands for a value that is not constructed
          Clients       \* what a client can be: its maps, its keys and
                        \* values; counts, the values it gives to
                        \* init_bucket_count, which are far below 2^24; does
                        \* it iterate; is it careful: once it has erased, it
                        \* inserts only keys that it did not find

ASSUME HashAssumption == Hash \in [Keys -> Nat]
ASSUME ReservedAssumption ==
    Empty # Erased /\ Empty \notin Keys /\ Erased \notin Keys /\ Dead \notin Values
ASSUME ClientAssumption ==
    Clients \subseteq [maps : SUBSET Maps, keys : SUBSET Keys, values : SUBSET Values,
                      counts : SUBSET Nat, iterates : BOOLEAN, careful : BOOLEAN]

VARIABLES client,   \* which of the Clients
          table,    \* the table of each map object
          call,     \* history: the last call, as a tuple
          iter,     \* the client's iterator: its map and current_
          walk      \* history: the keys there were at begin(), those the
                    \* iterator has met, and whether the table was resized

vars == <<client, table, call, iter, walk>>

Fresh(n) == [count |-> n,
             key   |-> [i \in 0..n - 1 |-> Empty],
             value |-> [i \in 0..n - 1 |-> Dead],
             size  |-> 0, used |-> 0]

Exists(t, i)  == t.key[i] \notin {Empty, Erased}
IsEmpty(t, i) == t.key[i] = Empty

\* The factors 0.85 and 0.2 are floats a little above, which changes nothing
\* below 2^24 buckets.
Capped(n, threshold) == IF threshold < n THEN threshold ELSE IF n = 0 THEN 0 ELSE n - 1
ResizeCount(n) == Capped(n, (n * 17) \div 20)
ShrinkCount(n) == Capped(n, n \div 5)

\* The first n + 1 powers of two.
Powers(n) ==
    LET pow[e \in 0..n] == IF e = 0 THEN 1 ELSE 2 * pow[e - 1]
    IN  {pow[e] : e \in 0..n}

NextPowTwo(n) == CHOOSE p \in Powers(n) : n <= p /\ p < 2 * n

-----------------------------------------------------------------------------
\* Get and Set probe the buckets from the key's home on, until one stops them.

Bucket(t, k, step) == (Hash[k] + step) % t.count

First(S) == CHOOSE x \in S : \A y \in S : x <= y

\* A defect to catch: a tombstone stops the search.
GetStopsEarly(t, k) ==
    {s \in 0..t.count - 1 :
        LET i == Bucket(t, k, s) IN ~Exists(t, i) \/ t.key[i] = k}

GetStops(t, k) ==
    {s \in 0..t.count - 1 :
        LET i == Bucket(t, k, s) IN IsEmpty(t, i) \/ t.key[i] = k}

\* Set stops at a tombstone, too.
SetStops(t, k) ==
    {s \in 0..t.count - 1 :
        LET i == Bucket(t, k, s) IN ~Exists(t, i) \/ t.key[i] = k}

SetIndex(t, k) == Bucket(t, k, First(SetStops(t, k)))

\* The bucket of k, or bucket_count_.
Get(t, k) ==
    IF t.count = 0 THEN 0
    ELSE LET i == Bucket(t, k, First(GetStops(t, k)))
         IN  IF t.key[i] = k THEN i ELSE t.count

Found(t, k) == Get(t, k) # t.count

\* A defect to catch: a reused tombstone is counted as used once more.
StoreCounting(t, k, v, displace) ==
    LET i == SetIndex(t, k) IN
    IF Exists(t, i)
    THEN IF displace THEN [t EXCEPT !.value[i] = v] ELSE t
    ELSE [t EXCEPT !.key[i] = k, !.value[i] = v, !.size = @ + 1, !.used = @ + 1]

\* Set, once there is room.
Store(t, k, v, displace) ==
    LET i == SetIndex(t, k) IN
    IF Exists(t, i)
    THEN IF displace THEN [t EXCEPT !.value[i] = v] ELSE t
    ELSE [t EXCEPT !.key[i] = k, !.value[i] = v, !.size = @ + 1,
                   !.used = IF IsEmpty(t, i) THEN @ + 1 ELSE @]

\* A defect to catch: the buckets are copied as they are, wherever their keys'
\* homes are in the new table.
ResizeInPlace(t, n) ==
    [count |-> n,
     key   |-> [i \in 0..n - 1 |-> IF i < t.count THEN t.key[i] ELSE Empty],
     value |-> [i \in 0..n - 1 |-> IF i < t.count THEN t.value[i] ELSE Dead],
     size  |-> t.size, used |-> t.used]

\* The entries are stored in a new table, in the order of their buckets.  It
\* has room for them (NeverFull), so that its Set never resizes in turn.
Resize(t, n) ==
    LET moved[i \in 0..t.count] ==
            IF i = 0 THEN Fresh(n)
            ELSE IF Exists(t, i - 1)
                 THEN Store(moved[i - 1], t.key[i - 1], t.value[i - 1], FALSE)
                 ELSE moved[i - 1]
    IN  moved[t.count]

\* A defect to catch: the table grows one insertion too late.
SetGrowsLate(t, k, v, displace) ==
    Store(IF t.used <= ResizeCount(t.count) /\ t.count # 0 THEN t
          ELSE Resize(t, IF t.count = 0 THEN 8 ELSE 2 * t.count), k, v, displace)

Set(t, k, v, displace) ==
    Store(IF t.used < ResizeCount(t.count) THEN t
          ELSE Resize(t, IF t.count = 0 THEN 8 ELSE 2 * t.count), k, v, displace)

\* A defect to catch: the bucket is marked as never used.
DeleteEmptying(t, i) ==
    IF i >= t.count \/ ~Exists(t, i) THEN t
    ELSE [t EXCEPT !.key[i] = Empty, !.value[i] = Dead, !.size = @ - 1, !.used = @ - 1]

\* A defect to catch: the value is not destroyed.
DeleteKeepsValue(t, i) ==
    IF i >= t.count \/ ~Exists(t, i) THEN t
    ELSE [t EXCEPT !.key[i] = Erased, !.size = @ - 1]

Delete(t, i) ==
    IF i >= t.count \/ ~Exists(t, i) THEN t
    ELSE LET rest == [t EXCEPT !.key[i] = Erased, !.value[i] = Dead, !.size = @ - 1]
         IN  IF rest.size < ShrinkCount(t.count) /\ t.count > 8
             THEN Resize(rest, t.count \div 2)
             ELSE rest

\* A defect to catch: the counters are not copied.
CopyUncounted(t, from) == [from EXCEPT !.size = t.size, !.used = t.used]

\* A defect to catch: values are constructed, but never assigned.
CopyKeepsValues(t, from) ==
    IF t.count # from.count THEN from
    ELSE [from EXCEPT !.value = [i \in 0..t.count - 1 |->
              IF t.key[i] = from.key[i] THEN t.value[i] ELSE from.value[i]]]

\* operator=: into the old buckets if there are as many, where a value is
\* assigned if the key is the same, else constructed; into new ones otherwise.
Copy(t, from) ==
    IF t.count # from.count THEN from
    ELSE [from EXCEPT !.value = [i \in 0..t.count - 1 |->
              IF t.key[i] = from.key[i] /\ ~Exists(t, i) THEN t.value[i] ELSE from.value[i]]]

-----------------------------------------------------------------------------
\* The calls.

NoIterator == [map |-> Dead, at |-> 0]
NoWalk     == [whole |-> {}, met |-> {}, resized |-> FALSE]

Init ==
    /\ client \in Clients
    /\ table = [m \in Maps |-> Fresh(0)]
    /\ call = <<"none">>
    /\ iter = NoIterator
    /\ walk = NoWalk

\* The call c ends, having made t the tables.
Returns(t, c) ==
    /\ iter = NoIterator
    /\ table' = t
    /\ call' = c
    /\ UNCHANGED <<client, iter, walk>>

Becomes(m, t, c) == Returns([table EXCEPT ![m] = t], c)

\* The destructor, and a constructor again.
Construct(m, n) ==
    Becomes(m, Fresh(IF n = 0 THEN 0 ELSE NextPowTwo(n)), <<"construct", m>>)

\* Without a tombstone in the table it does not matter what is inserted.
Inserts(m, k) ==
    client.careful => table[m].used = table[m].size \/ ~Found(table[m], k)

\* insert and emplace.
Insert(m, k, v) ==
    /\ Inserts(m, k)
    /\ Becomes(m, Set(table[m], k, v, FALSE), <<"insert", m, k, v>>)

InsertOrAssign(m, k, v) ==
    /\ Inserts(m, k)
    /\ Becomes(m, Set(table[m], k, v, TRUE), <<"insert_or_assign", m, k, v>>)

\* map[k] = v: operator[] sets the dummy value, and returns a reference to the
\* bucket's value.
Subscript(m, k, v) ==
    /\ Inserts(m, k)
    /\ LET dummy == CHOOSE d \in Values : TRUE
           t     == Set(table[m], k, dummy, FALSE)
       IN  Becomes(m, [t EXCEPT !.value[SetIndex(t, k)] = v], <<"subscript", m, k, v>>)

\* erase(key), and erase of the iterator that find returns.
Erase(m, k) ==
    Becomes(m, Delete(table[m], Get(table[m], k)), <<"erase", m, k>>)

Clear(m) == Becomes(m, Fresh(table[m].count), <<"clear", m>>)

CopyAssign(m, other) ==
    Becomes(m, Copy(table[m], table[other]), <<"copy", m, other>>)

\* operator=(&&): Destory, then swap.
MoveAssign(m, other) ==
    Returns([table EXCEPT ![m] = table[other], ![other] = Fresh(0)], <<"move", m, other>>)

Swap(m, other) ==
    Returns([table EXCEPT ![m] = table[other], ![other] = table[m]], <<"swap", m, other>>)

-----------------------------------------------------------------------------
\* The iterator.

\* A defect to catch: the last bucket is taken for the end.
FromOnShort(t, i) == First({j \in i..t.count : j = t.count \/ (j < t.count - 1 /\ Exists(t, j))})

\* The first bucket from i on with an entry, or bucket_count_.
FromOn(t, i) == First({j \in i..t.count : j = t.count \/ Exists(t, j)})

KeyAt(t, i) == IF i < t.count /\ Exists(t, i) THEN {t.key[i]} ELSE {}

Begin(m) ==
    LET t == table[m]
        i == FromOn(t, 0)
    IN  /\ client.iterates /\ iter = NoIterator
        /\ iter' = [map |-> m, at |-> i]
        /\ walk' = [whole |-> {t.key[j] : j \in {b \in 0..t.count - 1 : Exists(t, b)}},
                    met |-> KeyAt(t, i), resized |-> FALSE]
        /\ UNCHANGED <<client, table, call>>

\* The client goes on until its iterator equals end().  Beyond end() there is
\* no memory, and the program is undefined.
Increment ==
    LET t == table[iter.map]
        i == FromOn(t, iter.at + 1)
    IN  /\ iter # NoIterator
        /\ iter.at < t.count
        /\ iter' = [iter EXCEPT !.at = i]
        /\ walk' = [walk EXCEPT !.met = @ \cup KeyAt(t, i)]
        /\ UNCHANGED <<client, table, call>>

\* erase(iterator): the iterator keeps its index, even if the table shrinks.
EraseHere ==
    LET m    == iter.map
        rest == Delete(table[m], iter.at)
    IN  /\ iter # NoIterator
        /\ iter.at < table[m].count
        /\ \E k \in KeyAt(table[m], iter.at) : call' = <<"erase", m, k>>
        /\ table' = [table EXCEPT ![m] = rest]
        /\ walk' = [walk EXCEPT !.resized = @ \/ rest.count # table[m].count]
        /\ UNCHANGED <<client, iter>>

\* The client leaves its loop.
EndWalk ==
    /\ iter # NoIterator
    /\ iter' = NoIterator /\ walk' = NoWalk
    /\ UNCHANGED <<client, table, call>>

Next ==
    \/ Increment \/ EraseHere \/ EndWalk
    \/ \E m \in client.maps :
        \/ Clear(m) \/ Begin(m)
        \/ \E n \in client.counts : Construct(m, n)
        \/ \E k \in client.keys : Erase(m, k)
        \/ \E k \in client.keys, v \in client.values :
              Insert(m, k, v) \/ InsertOrAssign(m, k, v) \/ Subscript(m, k, v)
        \/ \E other \in client.maps \ {m} :
              CopyAssign(m, other) \/ MoveAssign(m, other) \/ Swap(m, other)

Spec == Init /\ [][Next]_vars

-----------------------------------------------------------------------------
Indices(t) == 0..t.count - 1
Stored(t)  == {i \in Indices(t) : Exists(t, i)}

\* Type invariant; a bucket's value is constructed just when its key is there.
TypeOK ==
    \A m \in Maps :
        LET t == table[m] IN
        /\ t.count \in Nat /\ t.size \in Nat /\ t.used \in Nat
        /\ t.key \in [Indices(t) -> Keys \cup {Empty, Erased}]
        /\ t.value \in [Indices(t) -> Values \cup {Dead}]
        /\ \A i \in Indices(t) : t.value[i] # Dead <=> i \in Stored(t)
        /\ iter.map = m /\ ~walk.resized => iter.at <= t.count

\* Probing ends: a table with buckets has an empty one, tombstones or not
\* (linear_hashmap-inl.h:73 and 88, "ensure not full by ResizeCount"), and what
\* is stored leaves room, in the table it would be moved to, for one more: the
\* Set of a Resize never resizes in turn.
NeverFull ==
    \A m \in Maps :
        LET t == table[m] IN
        /\ t.count # 0 => \E i \in Indices(t) : IsEmpty(t, i)
        /\ t.used <= ResizeCount(t.count)
        /\ t.used = ResizeCount(t.count) => t.size <= ResizeCount(2 * t.count)
        /\ t.count > 8 => ShrinkCount(t.count) <= ResizeCount(t.count \div 2)

\* size_ counts the stored entries, used_ the tombstones as well (the comments
\* of linear_hashmap.h:393 and 394).
CountsAgree ==
    \A m \in Maps :
        LET t == table[m] IN
        /\ t.size = Cardinality(Stored(t))
        /\ t.used = Cardinality({i \in Indices(t) : ~IsEmpty(t, i)})

\* A traversal meets exactly the entries that find finds, each key once: every
\* entry can be reached from its key's home over entries and tombstones.
EntriesFound ==
    \A m \in Maps : \A i \in Stored(table[m]) :
        Get(table[m], table[m].key[i]) = i

\* Looking up every key gives the finite function that the calls so far have
\* made (Get, Set, Delete and Resize of linear_hashmap-inl.h).
Contents(t) == [k \in {key \in Keys : Found(t, key)} |-> t.value[Get(t, k)]]

Abstract == INSTANCE FiniteMaps WITH contents <- [m \in Maps |-> Contents(table[m])]
MapSpec == Abstract!Spec

\* An iterator that has come to the end has met every key there was at begin(),
\* whichever were erased through it on the way, unless the table was resized
\* (begin and erase of linear_hashmap.h, increment of linear_hashmap-inl.h).
TraversalMeetsAll ==
    iter # NoIterator /\ ~walk.resized /\ iter.at = table[iter.map].count
        => walk.met = walk.whole

\* A key that was erased is not found (erase of linear_hashmap.h).
ErasedIsGone ==
    \A m \in Maps, k \in Keys : call = <<"erase", m, k>> => ~Found(table[m], k)
=============================================================================
