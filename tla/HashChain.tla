------------------------------ MODULE HashChain ------------------------------
(***************************************************************************)
(* naesala/third/ulib/hash_chain.h and hash_chain_prot.h, the vendored     *)
(* hashmap that benchmark/main_concurrent_hashmap.cpp runs: chains of      *)
(* entries, and a list through all of them, the snapshot, that an iterator *)
(* follows once there is one.                                              *)
(*                                                                         *)
(* A chain, and the snapshot, is the sequence of the entries linked; an    *)
(* entry stands for its value as well, and its copy for itself.  A client  *)
(* calls one operation after the other on one map; while it walks through  *)
(* the map it only inserts, and it uses no snapshot of which an entry was  *)
(* freed.                                                                  *)
(***************************************************************************)
EXTENDS Naturals, SequencesExt

CONSTANTS Entries,    \* bound: the memory
          Keys,
          Asked,      \* the argument of the constructor
          Null,
          Dangling    \* a snapshot with a pointer to an entry freed

ChainAssumption == /\ Asked \in Nat \ {0} /\ Keys \subseteq Nat /\ Entries \subseteq Nat
                   /\ Null \notin Entries /\ Dangling \notin Seq(Entries)

VARIABLES mask, chain, snap,   \* the map
          key,                 \* of each entry allocated
          cur,                 \* _cur of the client's iterator, or Null
          held,                \* history: the entries of a key, in the order they are found
          taken,               \* history: what the snapshot had when taken, and if it was sorted
          walk                 \* history: the entries there were at begin(), and those met

vars == <<mask, chain, snap, key, cur, held, taken, walk>>

NoSnapshot == [order |-> <<>>, sorted |-> FALSE]
NoWalk == [whole |-> {}, met |-> <<>>, calm |-> TRUE]

EmptyChains == [i \in 0..mask |-> <<>>]
NoneHeld == [k \in Keys |-> <<>>]

\* Rounded up to a power of two.
Rounded(min) ==
    LET pow[e \in 0..min] == IF e = 0 THEN 1 ELSE 2 * pow[e - 1]
    IN  CHOOSE p \in {pow[e] : e \in 0..min} : min <= p /\ p < 2 * min

Init ==
    /\ mask = Rounded(Asked) - 1
    /\ chain = EmptyChains /\ snap = <<>> /\ key = <<>>
    /\ cur = Null /\ held = NoneHeld /\ taken = NoSnapshot /\ walk = NoWalk

Home(k) == k % (mask + 1)

\* The entries in the order of the chains.
InChains == FlattenSeq([i \in 1..mask + 1 |-> chain[i - 1]])

\* The place in a list of its first entry in S, or 0.
Place(list, S) == SelectInSeq(list, LAMBDA n : n \in S)

\* The iterator at the place p of a chain.
At(index, p) == [entry |-> chain[index][p], index |-> index,
                 parent |-> IF p = 1 THEN Null ELSE chain[index][p - 1]]

\* get: the first entry of k, or none, and the one before it.
Get(k) ==
    LET c == chain[Home(k)]
        p == Place(c, {n \in DOMAIN key : key[n] = k})
    IN  IF p # 0 THEN At(Home(k), p)
        ELSE [entry |-> Null, index |-> Home(k), parent |-> IF c = <<>> THEN Null ELSE Last(c)]

-----------------------------------------------------------------------------
\* The calls.  Inserting is allowed during a walk.

Unused == {n \in Entries : n \notin DOMAIN key}
Malloc(k, n) == /\ n \in Unused /\ \A other \in Unused : n <= other
                /\ key' = [m \in DOMAIN key \cup {n} |-> IF m = n THEN k ELSE key[m]]

Inserts == /\ walk' = [walk EXCEPT !.calm = FALSE]
           /\ UNCHANGED <<mask, snap, cur, taken>>

\* With n in front of its list l.
InFront(lists, l, n) == [lists EXCEPT ![l] = <<n>> \o @]

\* insert, which hides an older entry of the same key.
Insert(k) ==
    /\ \E n \in Entries :
        /\ Malloc(k, n)
        /\ chain' = InFront(chain, Home(k), n)
        /\ held' = InFront(held, k, n)
    /\ Inserts

\* find_or_insert, and operator[], of a key that is not there; of another one
\* they change nothing.
FindOrInsert(k) ==
    /\ Get(k).entry = Null
    /\ \E n \in Entries :
        /\ Malloc(k, n)
        /\ chain' = [chain EXCEPT ![Home(k)] =
               IF Get(k).parent = Null THEN <<n>>
               ELSE SubSeq(@, 1, Place(@, {Get(k).parent})) \o <<n>>]
        /\ held' = [held EXCEPT ![k] = <<n>>]
    /\ Inserts

\* del: what is linked before the entry is linked with what follows it.
Del(itr) ==
    LET c == chain[itr.index]
    IN  /\ chain' = [chain EXCEPT ![itr.index] =
               SubSeq(c, 1, IF itr.parent = Null THEN 0 ELSE Place(c, {itr.parent}))
                 \o SubSeq(c, Place(c, {itr.entry}) + 1, Len(c))]
        /\ key' = [n \in DOMAIN key \ {itr.entry} |-> key[n]]
        /\ IF snap # Dangling /\ itr.entry \in ToSet(snap)
           THEN snap' = Dangling /\ taken' = NoSnapshot
           ELSE UNCHANGED <<snap, taken>>
        /\ held' = [held EXCEPT ![key[itr.entry]] = RemoveFirst(@, itr.entry)]
        /\ cur' = Null /\ walk' = NoWalk
        /\ UNCHANGED mask

\* erase(key), or erase(find(key)).
Erase(k) == /\ cur = Null
            /\ Get(k).entry # Null
            /\ Del(Get(k))

\* clear.
Clear == /\ cur = Null
         /\ chain' = EmptyChains /\ snap' = <<>> /\ key' = <<>>
         /\ held' = NoneHeld /\ taken' = NoSnapshot
         /\ UNCHANGED <<mask, cur, walk>>

-----------------------------------------------------------------------------
\* The snapshot.  One of an empty map leaves the former snapshot.
Snap == /\ cur = Null
        /\ snap' = IF InChains = <<>> THEN snap ELSE InChains
        /\ taken' = IF InChains = <<>> THEN taken ELSE [order |-> InChains, sorted |-> FALSE]
        /\ UNCHANGED <<mask, chain, key, cur, held, walk>>

\* A defect to catch: of equal keys the younger one is taken.
TakesLeftUnstably(left, right) ==
    left # <<>> /\ (right = <<>> \/ key[Head(left)] < key[Head(right)])

\* The left list has the older entries.
TakesLeft(left, right) ==
    left # <<>> /\ (right = <<>> \/ key[Head(left)] <= key[Head(right)])

Merge(a, b) ==
    LET round[r \in 0..Len(a) + Len(b)] ==
            IF r = 0 THEN [left |-> a, right |-> b, merged |-> <<>>]
            ELSE LET s == round[r - 1] IN
                 IF TakesLeft(s.left, s.right)
                 THEN [s EXCEPT !.left = Tail(@), !.merged = Append(@, Head(s.left))]
                 ELSE [s EXCEPT !.right = Tail(@), !.merged = Append(@, Head(s.right))]
    IN  round[Len(a) + Len(b)].merged

\* The list goes into the first free part, merged with those before.
Carry(part, list) ==
    LET free == CHOOSE l \in DOMAIN part :
                    part[l] = <<>> /\ \A m \in 0..l - 1 : part[m] # <<>>
        merged[l \in 0..free] == IF l = 0 THEN list ELSE Merge(part[l - 1], merged[l - 1])
    IN  [l \in DOMAIN part |->
            IF l < free THEN <<>> ELSE IF l = free THEN merged[free] ELSE part[l]]

\* sort: a part at level i has 2^i entries.
Sort ==
    LET levels       == 0..Len(snap)
        part[n \in levels] == IF n = 0 THEN [l \in levels |-> <<>>]
                              ELSE Carry(part[n - 1], <<snap[n]>>)
        list[l \in levels] == Merge(part[Len(snap)][l], IF l = 0 THEN <<>> ELSE list[l - 1])
    IN  /\ cur = Null /\ snap # Dangling
        /\ snap' = list[Len(snap)]
        /\ taken' = [taken EXCEPT !.sorted = snap # <<>>]
        /\ UNCHANGED <<mask, chain, key, cur, held, walk>>

-----------------------------------------------------------------------------
\* The iterator.

AtEnd == [entry |-> Null, index |-> 0, parent |-> Null]

\* The first entry of the chains from i on.
FromOn(i) ==
    LET full == {j \in i..mask : chain[j] # <<>>}
    IN  IF full = {} THEN AtEnd ELSE At(CHOOSE j \in full : \A l \in full : j <= l, 1)

\* An entry of the snapshot; the one before it is searched for by its key.
InSnapshot(n) == [Get(key[n]) EXCEPT !.entry = n]

First == IF snap # <<>> THEN InSnapshot(Head(snap)) ELSE FromOn(0)

\* advance.
Following ==
    LET After(list) == Place(list, {cur.entry}) + 1
    IN  IF snap # <<>>
        THEN IF cur.entry = Last(snap) THEN AtEnd ELSE InSnapshot(snap[After(snap)])
        ELSE IF cur.entry # Last(chain[cur.index])
        THEN At(cur.index, After(chain[cur.index]))
        ELSE FromOn(cur.index + 1)

Meets(itr) == IF itr.entry = Null THEN <<>> ELSE <<itr.entry>>

Begin == /\ cur = Null /\ snap # Dangling
         /\ cur' = First
         /\ walk' = [whole |-> ToSet(InChains), met |-> Meets(First), calm |-> TRUE]
         /\ UNCHANGED <<mask, chain, snap, key, held, taken>>

\* operator++.
Increment == /\ cur # Null /\ cur.entry # Null
             /\ cur' = Following
             /\ walk' = [walk EXCEPT !.met = @ \o Meets(Following)]
             /\ UNCHANGED <<mask, chain, snap, key, held, taken>>

\* erase(iterator), after which the client leaves its loop.  It has inserted
\* nothing since begin(), and no key of a snapshot is there twice.
EraseHere == /\ cur # Null /\ cur.entry # Null /\ walk.calm
             /\ snap # <<>> => \A k \in Keys : Len(held[k]) <= 1
             /\ Del(cur)

EndWalk == /\ cur # Null
           /\ cur' = Null /\ walk' = NoWalk
           /\ UNCHANGED <<mask, chain, snap, key, held, taken>>

\* The copy constructor, or operator=, into a map the client goes on with: it
\* inserts what a walk meets.
Copy ==
    LET met == IF snap # <<>> THEN snap ELSE InChains
        copied[i \in 0..Len(met)] ==
            IF i = 0 THEN [chain |-> EmptyChains, held |-> NoneHeld]
            ELSE LET c == copied[i - 1]
                     k == key[met[i]]
                 IN  [chain |-> InFront(c.chain, Home(k), met[i]), held |-> InFront(c.held, k, met[i])]
    IN  /\ cur = Null /\ snap # Dangling
        /\ chain' = copied[Len(met)].chain
        /\ held' = copied[Len(met)].held
        /\ key' = [n \in ToSet(met) |-> key[n]]
        /\ snap' = <<>> /\ taken' = NoSnapshot
        /\ UNCHANGED <<mask, cur, walk>>

Next ==
    \/ Clear \/ Snap \/ Sort \/ Begin \/ Increment \/ EraseHere \/ EndWalk \/ Copy
    \/ \E k \in Keys : Insert(k) \/ FindOrInsert(k) \/ Erase(k)

-----------------------------------------------------------------------------
\* Type invariant.
TypeOK ==
    /\ mask = Rounded(Asked) - 1
    /\ DOMAIN key \subseteq Entries /\ \A n \in DOMAIN key : key[n] \in Keys
    /\ DOMAIN chain = 0..mask /\ \A i \in 0..mask : chain[i] \in Seq(Entries)
    /\ snap = Dangling \/ snap \in Seq(Entries)
    /\ cur = Null \/ /\ cur.entry \in Entries \cup {Null} /\ cur.index \in 0..mask
                     /\ cur.parent \in Entries \cup {Null}

\* A list has just the entries of S, once each.
ListsJust(list, S) == IsInjective(list) /\ ToSet(list) = S

Before(list, m, n) == \E p, q \in DOMAIN list : p < q /\ list[p] = m /\ list[q] = n

\* Every entry allocated and not freed is in the chain of its key, once, and
\* those of a key are found in the order the calls gave them: the youngest of
\* insert first (set, set_uniq, get and del of hash_chain_prot.h).
EntriesFound ==
    /\ \A i \in 0..mask : ListsJust(chain[i], {n \in DOMAIN key : Home(key[n]) = i})
    /\ \A k \in Keys :
        /\ ListsJust(held[k], {n \in DOMAIN key : key[n] = k})
        /\ \A i, j \in DOMAIN held[k] : i < j => Before(chain[Home(k)], held[k][i], held[k][j])

\* m is inserted in the snapshot before n, or its key comes before that of n.
Ordered(m, n) == key[m] < key[n] \/ (key[m] = key[n] /\ Before(taken.order, m, n))

\* A walk through a snapshot ends with what there was when it was taken, in
\* that order or, if it was sorted, by key and then in that order, whatever was
\* inserted since; one through the chains has met what was there at begin(),
\* and nothing twice (the comments of hash_chain_prot.h:405-410).
WalkMeetsAll ==
    cur # Null /\ cur.entry = Null =>
        IF snap # <<>>
        THEN /\ ListsJust(walk.met, ToSet(taken.order))
             /\ IF taken.sorted
                THEN \A i, j \in DOMAIN walk.met : i < j => Ordered(walk.met[i], walk.met[j])
                ELSE walk.met = taken.order
        ELSE IsInjective(walk.met) /\ walk.whole \subseteq ToSet(walk.met)
=============================================================================
