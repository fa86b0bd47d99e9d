------------------------------ MODULE AlignHash ------------------------------
(***************************************************************************)
(* naesala/third/alignhash.h and alignhash_tpl.h, the vendored hashmap     *)
(* that benchmark/main_hashmap.cpp compares with LinearHashmap: linear     *)
(* probing, tombstones, and a resize that works in place.                  *)
(*                                                                         *)
(* A bucket is the key in it, or Empty or Deleted if its flags say so: the *)
(* key of such a bucket is never read.  A client calls one operation after *)
(* the other on one map; while it walks through the map it calls nothing   *)
(* but erase.                                                              *)
(***************************************************************************)
EXTENDS Naturals, FiniteSets

CONSTANTS Keys, Values,
          Hash,             \* _hashfn
          Empty, Deleted,   \* no keys
          Junk,             \* stands for a value that is never read
          MaxBuckets        \* bound: the client asks for no larger table

HashAssumption == Hash \in [Keys -> Nat]
ReservedAssumption ==
    Empty # Deleted /\ {Empty, Deleted} \cap Keys = {} /\ Junk \notin Values \cup Nat
BucketAssumption == MaxBuckets \in Nat

VARIABLES table,   \* the map: nbucket, the buckets, size, nused
          call,    \* history: the last call, as a tuple
          cur,     \* _cur of the client's iterator, or Junk if it has none
          walk     \* history: the keys there were at begin(), and those met

vars == <<table, call, cur, walk>>

Fresh(n) == [count |-> n,
             key   |-> [i \in 0..n - 1 |-> Empty],
             value |-> [i \in 0..n - 1 |-> Junk],
             size  |-> 0, used |-> 0]

\* sup, half of the buckets, rounded up.
Sup(n) == IF n = 0 THEN 0 ELSE (n + 1) \div 2

Exists(t, i) == t.key[i] \notin {Empty, Deleted}

-----------------------------------------------------------------------------
\* get, set and del.

Home(n, k, step) == (Hash[k] + step) % n

First(S) == CHOOSE x \in S : \A y \in S : x <= y
Latest(S) == CHOOSE x \in S : \A y \in S : y <= x

\* The steps at which the loops of get and set stop.
Stops(t, k) == {s \in 0..t.count - 1 : t.key[Home(t.count, k, s)] \in {Empty, k}}

\* The bucket of k, or nbucket.
Get(t, k) ==
    IF Stops(t, k) = {} THEN t.count
    ELSE LET i == Home(t.count, k, First(Stops(t, k)))
         IN  IF t.key[i] = Empty THEN t.count ELSE i

\* Where set stores k: in its bucket, else in the last tombstone on the way to
\* an empty bucket, else in that one.
Site(t, k) ==
    LET stop  == First(Stops(t, k))
        tombs == {s \in 0..stop : t.key[Home(t.count, k, s)] = Deleted}
    IN  Home(t.count, k, IF t.key[Home(t.count, k, stop)] = k \/ tombs = {} THEN stop
                         ELSE Latest(tombs))

\* set, once there is room, and the assignment of the value by its caller.
Store(t, k, v, displace) ==
    LET i == Site(t, k) IN
    IF Exists(t, i)
    THEN IF displace THEN [t EXCEPT !.value[i] = v] ELSE t
    ELSE [t EXCEPT !.key[i] = k, !.value[i] = v, !.size = @ + 1,
                   !.used = IF t.key[i] = Empty THEN @ + 1 ELSE @]

\* A defect to catch: a tombstone is no longer counted as used.
DelUnused(t, i) ==
    IF i = t.count \/ ~Exists(t, i) THEN t
    ELSE [t EXCEPT !.key[i] = Deleted, !.value[i] = Junk, !.size = @ - 1, !.used = @ - 1]

Del(t, i) ==
    IF i = t.count \/ ~Exists(t, i) THEN t
    ELSE [t EXCEPT !.key[i] = Deleted, !.value[i] = Junk, !.size = @ - 1]

-----------------------------------------------------------------------------
\* resize to n buckets, more than there are.  The old and the new table share
\* their memory: old is what is left of the old one, and grown the new one.
\* key and val are the entry that is moved next, if key is not Empty; the
\* first j buckets of the old table were looked at.

Vacant(grown, k) ==
    Home(grown.count, k,
         First({s \in 0..grown.count - 1 : grown.key[Home(grown.count, k, s)] = Empty}))

\* The entry of old bucket i is taken out of it.
Take(s, i) == [s EXCEPT !.old.key[i] = Deleted, !.key = s.old.key[i], !.val = s.old.value[i]]

Place(s) == [s EXCEPT !.grown.key[Vacant(s.grown, s.key)] = s.key,
                      !.grown.value[Vacant(s.grown, s.key)] = s.val,
                      !.key = Empty, !.val = Junk]

\* A defect to catch: what is in the way is lost.
PutOver(s) ==
    LET i == Vacant(s.grown, s.key)
    IN  IF i < s.old.count THEN [Place(s) EXCEPT !.old.key[i] = Deleted] ELSE Place(s)

\* The entry goes to its bucket of the new table.  One of the old table that is
\* in the way is kicked out, and moved next.
Put(s) ==
    LET i == Vacant(s.grown, s.key)
    IN  IF i < s.old.count /\ Exists(s.old, i) THEN Take(Place(s), i) ELSE Place(s)

Look(s) ==
    LET looked == [s EXCEPT !.j = @ + 1] IN
    IF s.j = s.old.count THEN s
    ELSE IF Exists(s.old, s.j) THEN Take(looked, s.j) ELSE looked

\* There are no more rounds: one for each bucket, and one for each entry.
Resize(t, n) ==
    LET start == [old |-> t, grown |-> [Fresh(n) EXCEPT !.size = t.size, !.used = t.size],
                  key |-> Empty, val |-> Junk, j |-> 0]
        round[r \in 0..2 * t.count] ==
            IF r = 0 THEN start
            ELSE LET s == round[r - 1] IN IF s.key = Empty THEN Look(s) ELSE Put(s)
    IN  round[2 * t.count].grown

Larger(t) == IF t.count = 0 THEN 2 ELSE 2 * t.count

\* A defect to catch: the table grows one insertion too late.
FullLate(t) == t.used > Sup(t.count) \/ t.count = 0

Full(t) == t.used >= Sup(t.count)

Set(t, k, v, displace) == Store(IF Full(t) THEN Resize(t, Larger(t)) ELSE t, k, v, displace)

-----------------------------------------------------------------------------
\* The calls.

Init ==
    /\ table = Fresh(0)
    /\ call = <<"none">>
    /\ cur = Junk
    /\ walk = [whole |-> {}, met |-> {}]

\* The call c ends, having made t the map.
Returns(t, c) ==
    /\ cur = Junk
    /\ table' = t
    /\ call' = c
    /\ UNCHANGED <<cur, walk>>

\* The destructor, and the constructor again.
Construct == Returns(Fresh(0), <<"construct", "map">>)

Bounded == Full(table) => Larger(table) <= MaxBuckets

\* insert and find_or_insert.
Insert(k, v) ==
    /\ Bounded
    /\ Returns(Set(table, k, v, FALSE), <<"insert", "map", k, v>>)

\* insert, with its argument displace.
InsertOrAssign(k, v) ==
    /\ Bounded
    /\ Returns(Set(table, k, v, TRUE), <<"insert_or_assign", "map", k, v>>)

\* map[k] = v: find_or_insert sets a value, and the client then its own.
Subscript(k, v) ==
    /\ Bounded
    /\ LET t == Set(table, k, CHOOSE d \in Values : TRUE, FALSE)
       IN  Returns([t EXCEPT !.value[Get(t, k)] = v], <<"subscript", "map", k, v>>)

Erase(k) == Returns(Del(table, Get(table, k)), <<"erase", "map", k>>)

\* The buckets stay, and become empty.
Clear == Returns(Fresh(table.count), <<"clear", "map">>)

-----------------------------------------------------------------------------
\* The iterator.

\* A defect to catch: the last bucket is taken for the end.
FromOnShort(i) ==
    First({j \in i..table.count : j = table.count \/ (j < table.count - 1 /\ Exists(table, j))})

\* The first bucket from i on with an entry, or nbucket.
FromOn(i) == First({j \in i..table.count : j = table.count \/ Exists(table, j)})

KeyAt(i) == IF i < table.count /\ Exists(table, i) THEN {table.key[i]} ELSE {}

Begin ==
    LET i == FromOn(0) IN
    /\ cur = Junk
    /\ cur' = i
    /\ walk' = [whole |-> {table.key[j] : j \in {b \in DOMAIN table.key : Exists(table, b)}},
                met |-> KeyAt(i)]
    /\ UNCHANGED <<table, call>>

\* operator++.
Increment ==
    LET i == FromOn(IF cur # table.count THEN cur + 1 ELSE cur) IN
    /\ cur # Junk
    /\ cur' = i
    /\ walk' = [walk EXCEPT !.met = @ \cup KeyAt(i)]
    /\ UNCHANGED <<table, call>>

\* erase(iterator).
EraseHere ==
    /\ cur # Junk
    /\ \E k \in KeyAt(cur) : call' = <<"erase", "map", k>>
    /\ table' = Del(table, cur)
    /\ UNCHANGED <<cur, walk>>

\* The client leaves its loop.
EndWalk ==
    /\ cur # Junk
    /\ cur' = Junk
    /\ walk' = [whole |-> {}, met |-> {}]
    /\ UNCHANGED <<table, call>>

Next ==
    \/ Construct \/ Clear \/ Begin \/ Increment \/ EraseHere \/ EndWalk
    \/ \E k \in Keys :
        \/ Erase(k)
        \/ \E v \in Values : Insert(k, v) \/ InsertOrAssign(k, v) \/ Subscript(k, v)

Spec == Init /\ [][Next]_vars

-----------------------------------------------------------------------------
Indices == 0..table.count - 1

\* Type invariant.
TypeOK ==
    /\ table.count \in Nat /\ table.size \in Nat /\ table.used \in Nat
    /\ table.key \in [Indices -> Keys \cup {Empty, Deleted}]
    /\ table.value \in [Indices -> Values \cup {Junk}]
    /\ cur # Junk => cur \in 0..table.count

\* Probing ends, and a table that must grow can: there is an empty bucket, and
\* the entries fit into one twice as large (set and resize of alignhash_tpl.h).
RoomLeft ==
    /\ table.count # 0 => \E i \in Indices : table.key[i] = Empty
    /\ table.used <= Sup(table.count)
    /\ table.size < Sup(Larger(table))

\* size counts the entries, nused the tombstones as well, also after a resize
\* that kicked entries out of their places (the comments of
\* alignhash_tpl.h:80-81).
CountsAgree ==
    /\ table.size = Cardinality({i \in Indices : Exists(table, i)})
    /\ table.used = Cardinality({i \in Indices : table.key[i] # Empty})

\* Looking up every key gives the finite function that the calls so far have
\* made, whatever the client does (get, set, del and resize of
\* alignhash_tpl.h).
Contents == [k \in {key \in Keys : Get(table, key) # table.count} |-> table.value[Get(table, k)]]

Abstract == INSTANCE FiniteMaps WITH Maps <- {"map"}, contents <- [m \in {"map"} |-> Contents]
MapSpec == Abstract!Spec

\* An iterator at its end has met every key there was at begin(), whichever
\* were erased through it on the way (begin, operator++ and erase of
\* alignhash.h).
TraversalMeetsAll == cur = table.count => walk.met = walk.whole
=============================================================================
