-------------------------- MODULE LinearHashmapProofs --------------------------
(***************************************************************************)
(* What LinearHashmap.tla's properties say, and those of the two vendored  *)
(* hashmaps, AlignHash.tla's and HashChain.tla's, holds for every hash     *)
(* function, for any keys, values and map objects, and for tables of every *)
(* size.                                                                   *)
(*                                                                         *)
(* For any client each table is Sound: its counters count the entries and  *)
(* the buckets taken, and no more are taken than ResizeCount allows, so    *)
(* that one is empty and every probing stops.  That Resize keeps this is   *)
(* an induction over the buckets it has moved.                             *)
(*                                                                         *)
(* For a client that looks before it inserts each entry is Reachable as    *)
(* well: every bucket from its key's home to it is taken, by other keys or *)
(* by tombstones.  Therefore the key is nowhere else, Get comes to it, and *)
(* each call does to the function that looking up every key gives what     *)
(* FiniteMaps says.                                                        *)
(*                                                                         *)
(* The table of align_hash_map is sound and reachable in the same way,     *)
(* whatever the client does: set looks first.  Its resize works in place,  *)
(* and what it keeps is that each entry is in the old part, in the new     *)
(* part, where it can be reached, or in hand: an induction over its rounds.*)
(*                                                                         *)
(* The chains and the snapshot of hash_chain are lists without duplicates; *)
(* what is needed of them is only which entries they have, and which come  *)
(* before which.  Its sort, its copy and the list of all chains are loops  *)
(* that start at one value and go on by steps: such a function exists, and *)
(* each of its values is in the set that the steps lead to.                *)
(***************************************************************************)
EXTENDS LinearHashmap, VendoredMaps, FiniteSetTheorems, SequenceTheorems,
        WellFoundedInduction, TLAPS

\* < as a set of pairs.
Less == {ij \in Nat \X Nat : ij[1] < ij[2]}

\* A set of naturals has a least element.
LEMMA LeastNatural ==
  ASSUME NEW S \in SUBSET Nat, S # {}
  PROVE  \E k \in S : \A j \in S : ~(j < k)
  <1>1. OpToRel(<, Nat) = Less
    BY Zenon DEF OpToRel, Less
  <1>2. IsWellFoundedOn(Less, Nat)
    BY <1>1, NatLessThanWellFounded, Zenon
  <1>3. PICK k \in S : \A j \in S : <<j, k>> \notin Less
    BY <1>2, WFMin
  <1>4. ASSUME NEW j \in S, j < k PROVE FALSE
    <2>1. <<j, k>> \in Nat \X Nat
      OBVIOUS
    <2>2. <<j, k>> \in Less
      BY <1>4, <2>1 DEF Less
    <2> QED
      BY <1>3, <2>2
  <1> QED
    BY <1>3, <1>4

\* Induction, for a set of naturals instead of a predicate.
LEMMA AllNaturals ==
  ASSUME NEW S, 0 \in S, \A i \in Nat : i \in S => i + 1 \in S
  PROVE  \A i \in Nat : i \in S
  <1> DEFINE Others == {i \in Nat : i \notin S}
  <1>1. SUFFICES Others = {}
    OBVIOUS
  <1>2. SUFFICES ASSUME Others # {} PROVE FALSE
    OBVIOUS
  <1> HIDE DEF Others
  <1>3. Others \in SUBSET Nat
    BY DEF Others
  <1>4. PICK k \in Others : \A j \in Others : ~(j < k)
    BY <1>2, <1>3, LeastNatural
  <1>5. k \in Nat /\ k \notin S /\ k # 0
    BY DEF Others
  <1>6. k - 1 \in Nat /\ k - 1 < k /\ (k - 1) + 1 = k
    BY <1>5
  <1>7. k - 1 \notin S
    BY <1>5, <1>6
  <1>8. k - 1 \in Others
    BY <1>6, <1>7 DEF Others
  <1> QED
    BY <1>4, <1>6, <1>8

\* First finds it.
LEMMA FirstIsLeast ==
  ASSUME NEW S \in SUBSET Nat, S # {}
  PROVE  /\ First(S) \in S
         /\ \A y \in S : First(S) <= y
  <1>1. PICK k \in S : \A j \in S : ~(j < k)
    BY LeastNatural
  <1>2. \A y \in S : k <= y
    BY <1>1
  <1> QED
    BY <1>2 DEF First
-----------------------------------------------------------------------------
\* How many buckets may be used: one fewer than there are, more after growing,
\* and enough for what is left when the table shrinks.
LEMMA Thresholds ==
  ASSUME NEW n \in Nat
  PROVE  /\ ResizeCount(n) \in Nat
         /\ n > 0 => ResizeCount(n) < n /\ ResizeCount(n) < ResizeCount(2 * n)
         /\ n > 8 => ShrinkCount(n) \in Nat /\ ShrinkCount(n) <= ResizeCount(n \div 2)
         /\ ResizeCount(0) = 0 /\ ResizeCount(8) = 6
         /\ n > 8 => n \div 2 \in Nat
  BY DEF ResizeCount, ShrinkCount, Capped

\* The recursion that defines the powers can be carried out.
LEMMA PowersOfTwo ==
  ASSUME NEW n \in Nat
  PROVE  \E f \in [0..n -> Nat] :
            /\ f[0] = 1
            /\ \A e \in 1..n : f[e] = 2 * f[e - 1]
            /\ Powers(n) = {f[e] : e \in 0..n}
  <1> DEFINE IsPow(i, f) == f = [e \in 0..i |-> IF e = 0 THEN 1 ELSE 2 * f[e - 1]]
             Reached == {i \in Nat : \E f \in [0..i -> Nat] : IsPow(i, f)}
  <1>1. 0 \in Reached
    <2>1. IsPow(0, [e \in 0..0 |-> 1])
      OBVIOUS
    <2> QED
      BY <2>1
  <1>2. ASSUME NEW i \in Nat, i \in Reached PROVE i + 1 \in Reached
    <2>1. PICK f \in [0..i -> Nat] : IsPow(i, f)
      BY <1>2
    <2> DEFINE g == [e \in 0..i + 1 |-> IF e = i + 1 THEN 2 * f[i] ELSE f[e]]
    <2>2. g \in [0..i + 1 -> Nat]
      BY <2>1
    <2>3. IsPow(i + 1, g)
      <3>1. ASSUME NEW e \in 0..i + 1 PROVE g[e] = IF e = 0 THEN 1 ELSE 2 * g[e - 1]
        <4>1. CASE e = i + 1
          BY <4>1
        <4>2. CASE e # i + 1
          <5>1. e \in 0..i /\ (e # 0 => e - 1 \in 0..i)
            BY <4>2
          <5>2. f[e] = IF e = 0 THEN 1 ELSE 2 * f[e - 1]
            BY <2>1, <5>1
          <5> QED
            BY <4>2, <5>1, <5>2
        <4> QED
          BY <4>1, <4>2
      <3>2. g = [e \in 0..i + 1 |-> g[e]]
        OBVIOUS
      <3> QED
        BY <3>1, <3>2
    <2> HIDE DEF IsPow, g
    <2>4. i + 1 \in Nat
      OBVIOUS
    <2> QED
      BY <2>2, <2>3, <2>4
  <1> HIDE DEF Reached
  <1>3. n \in Reached
    BY <1>1, <1>2, AllNaturals
  <1>4. \E f : IsPow(n, f)
    BY <1>3 DEF Reached
  <1> DEFINE pow == CHOOSE f : IsPow(n, f)
  <1>5. IsPow(n, pow)
    BY <1>4
  <1>6. Powers(n) = {pow[e] : e \in 0..n}
    BY DEF Powers
  <1>7. pow \in [0..n -> Nat]
    <2> DEFINE Natural == {i \in Nat : i \in 0..n => pow[i] \in Nat}
    <2> HIDE DEF pow
    <2>1. 0 \in Natural
      BY <1>5
    <2>2. ASSUME NEW i \in Nat, i \in Natural PROVE i + 1 \in Natural
      BY <1>5, <2>2
    <2> HIDE DEF Natural
    <2>3. \A i \in Nat : i \in Natural
      BY <2>1, <2>2, AllNaturals
    <2>4. DOMAIN pow = 0..n /\ pow = [e \in 0..n |-> pow[e]]
      BY <1>5
    <2>5. \A e \in 0..n : pow[e] \in Nat
      BY <2>3 DEF Natural
    <2> QED
      BY <2>4, <2>5, Zenon
  <1>8. pow[0] = 1 /\ \A e \in 1..n : pow[e] = 2 * pow[e - 1]
    <2> HIDE DEF pow
    <2> QED
      BY <1>5
  <1> HIDE DEF pow
  <1> QED
    BY <1>6, <1>7, <1>8, Zenon

\* There is a power of two to choose.
LEMMA NextPowTwoIsFound ==
  ASSUME NEW n \in Nat \ {0}
  PROVE  NextPowTwo(n) \in Nat /\ n <= NextPowTwo(n)
  <1>1. PICK f \in [0..n -> Nat] :
           /\ f[0] = 1
           /\ \A e \in 1..n : f[e] = 2 * f[e - 1]
           /\ Powers(n) = {f[e] : e \in 0..n}
    BY PowersOfTwo
  <1> DEFINE Close(i) == \E e \in 0..i : i <= f[e] /\ f[e] < 2 * i
             Covered == {i \in Nat : i \in 1..n => Close(i)}
  <1>2. 0 \in Covered
    OBVIOUS
  <1>3. ASSUME NEW i \in Nat, i \in Covered PROVE i + 1 \in Covered
    <2>1. SUFFICES ASSUME i + 1 \in 1..n PROVE Close(i + 1)
      OBVIOUS
    <2>2. CASE i = 0
      <3>1. 1 <= f[0] /\ f[0] < 2 * 1
        BY <1>1
      <3> QED
        BY <2>2, <3>1
    <2>3. CASE i # 0
      <3>1. PICK e \in 0..i : i <= f[e] /\ f[e] < 2 * i
        BY <1>3, <2>1, <2>3
      <3>2. e \in 0..n /\ e + 1 \in 1..n /\ f[e] \in Nat
        BY <1>1, <2>1, <3>1
      <3>3. CASE i < f[e]
        <4>1. i + 1 <= f[e] /\ f[e] < 2 * (i + 1) /\ e \in 0..i + 1
          BY <3>1, <3>2, <3>3
        <4> QED
          BY <4>1
      <3>4. CASE f[e] = i
        <4>1. f[e + 1] = 2 * i
          BY <1>1, <3>2, <3>4
        <4>2. i + 1 <= f[e + 1] /\ f[e + 1] < 2 * (i + 1) /\ e + 1 \in 0..i + 1
          BY <2>3, <3>1, <4>1
        <4> QED
          BY <4>2
      <3> QED
        BY <3>1, <3>2, <3>3, <3>4
    <2> QED
      BY <2>2, <2>3
  <1> HIDE DEF Covered
  <1>4. n \in Covered
    BY <1>2, <1>3, AllNaturals
  <1>5. PICK e \in 0..n : n <= f[e] /\ f[e] < 2 * n
    BY <1>4 DEF Covered
  <1>6. \E p \in Powers(n) : n <= p /\ p < 2 * n
    BY <1>1, <1>5
  <1>7. Powers(n) \subseteq Nat
    BY <1>1
  <1> QED
    BY <1>6, <1>7 DEF NextPowTwo
-----------------------------------------------------------------------------
\* A table is a record of its five members.
IsTable(t) == t = [count |-> t.count, key |-> t.key, value |-> t.value,
                   size |-> t.size, used |-> t.used]

\* Its members have their types, and just the stored values are constructed.
Shaped(t) ==
    /\ IsTable(t)
    /\ t.count \in Nat /\ t.size \in Nat /\ t.used \in Nat
    /\ t.key \in [Indices(t) -> Keys \cup {Empty, Erased}]
    /\ t.value \in [Indices(t) -> Values \cup {Dead}]
    /\ \A i \in Indices(t) : t.value[i] # Dead <=> Exists(t, i)

\* The buckets that are not empty: the entries and the tombstones.
Taken(t) == {i \in Indices(t) : ~IsEmpty(t, i)}

Counted(t) == t.size = Cardinality(Stored(t)) /\ t.used = Cardinality(Taken(t))

\* What every table of a map object is, whatever its client does.
Sound(t) == Shaped(t) /\ Counted(t) /\ t.used <= ResizeCount(t.count)

\* The buckets are finitely many, and entries are among those taken.
LEMMA BucketsAreFinite ==
  ASSUME NEW t, Shaped(t)
  PROVE  /\ IsFiniteSet(Indices(t)) /\ Cardinality(Indices(t)) = t.count
         /\ Stored(t) \subseteq Taken(t) /\ Taken(t) \subseteq Indices(t)
         /\ IsFiniteSet(Taken(t)) /\ Cardinality(Taken(t)) \in Nat
         /\ IsFiniteSet(Stored(t)) /\ Cardinality(Stored(t)) \in Nat
         /\ Cardinality(Stored(t)) <= Cardinality(Taken(t))
  <1>1. IsFiniteSet(Indices(t)) /\ Cardinality(Indices(t)) = t.count
    <2>1. t.count \in Nat
      BY DEF Shaped
    <2>2. t.count - 1 \in Int /\ 0 \in Int
      BY <2>1
    <2>3. /\ IsFiniteSet(0..t.count - 1)
          /\ Cardinality(0..t.count - 1) = IF 0 > t.count - 1 THEN 0 ELSE t.count - 1 - 0 + 1
      BY <2>2, FS_Interval
    <2> QED
      BY <2>1, <2>3 DEF Indices
  <1>2. Stored(t) \subseteq Taken(t) /\ Taken(t) \subseteq Indices(t)
    BY DEF Stored, Taken, Exists, IsEmpty
  <1>3. IsFiniteSet(Taken(t)) /\ Cardinality(Taken(t)) \in Nat
    BY <1>1, <1>2, FS_Subset, FS_CardinalityType
  <1> QED
    BY <1>1, <1>2, <1>3, FS_Subset, FS_CardinalityType

\* If not all buckets are used, one is empty.
LEMMA OneIsEmpty ==
  ASSUME NEW t, Shaped(t), Counted(t), t.used < t.count
  PROVE  \E i \in Indices(t) : IsEmpty(t, i)
  <1> SUFFICES ASSUME \A i \in Indices(t) : ~IsEmpty(t, i) PROVE FALSE
    OBVIOUS
  <1>1. Taken(t) = Indices(t)
    BY DEF Taken
  <1> QED
    BY <1>1, BucketsAreFinite DEF Counted, Shaped

\* So there is one in every sound table with buckets.
LEMMA SoundLeavesRoom ==
  ASSUME NEW t, Sound(t)
  PROVE  /\ t.count # 0 => t.used < t.count
         /\ t.used < ResizeCount(t.count) => t.count # 0
         /\ t.size <= t.used
  BY Thresholds, BucketsAreFinite DEF Sound, Shaped, Counted

\* A new table has nothing in it.
LEMMA FreshIsSound ==
  ASSUME NEW n \in Nat
  PROVE  /\ Sound(Fresh(n))
         /\ Fresh(n).count = n /\ Fresh(n).used = 0 /\ Fresh(n).size = 0
         /\ \A i \in Indices(Fresh(n)) : IsEmpty(Fresh(n), i) /\ ~Exists(Fresh(n), i)
  <1>1. /\ Fresh(n).count = n /\ Fresh(n).used = 0 /\ Fresh(n).size = 0
        /\ Fresh(n).key = [i \in 0..n - 1 |-> Empty]
        /\ Fresh(n).value = [i \in 0..n - 1 |-> Dead]
        /\ IsTable(Fresh(n))
    BY DEF Fresh, IsTable
  <1> HIDE DEF Fresh
  <1>2. \A i \in Indices(Fresh(n)) : IsEmpty(Fresh(n), i) /\ ~Exists(Fresh(n), i)
    BY <1>1 DEF Indices, IsEmpty, Exists
  <1>3. Stored(Fresh(n)) = {} /\ Taken(Fresh(n)) = {}
    BY <1>2 DEF Stored, Taken
  <1>4. Counted(Fresh(n))
    BY <1>1, <1>3, FS_EmptySet DEF Counted
  <1>5. Shaped(Fresh(n))
    BY <1>1, <1>2 DEF Shaped, Indices
  <1> QED
    BY <1>1, <1>2, <1>4, <1>5, Thresholds DEF Sound
-----------------------------------------------------------------------------
\* Division with remainder, both ways.
LEMMA Division ==
  ASSUME NEW n \in Nat \ {0}, NEW x \in Nat
  PROVE  \E q \in Nat, r \in 0..n - 1 : x = n * q + r
  <1>1. x = n * (x \div n) + (x % n) /\ x % n \in 0..n - 1 /\ x \div n \in Nat
    OBVIOUS
  <1> QED
    BY <1>1

\* And the remainder is the only one.
LEMMA Remainder ==
  ASSUME NEW n \in Nat \ {0}, NEW x \in Nat, NEW q \in Nat, NEW r \in 0..n - 1,
         x = n * q + r
  PROVE  x % n = r
  OBVIOUS

\* A key's probing comes by every bucket.
LEMMA EveryBucketProbed ==
  ASSUME NEW t, Shaped(t), NEW k \in Keys, t.count # 0
  PROVE  /\ \A s \in Nat : Bucket(t, k, s) \in Indices(t)
         /\ \A i \in Indices(t) : \E s \in 0..t.count - 1 : Bucket(t, k, s) = i
  <1>1. t.count \in Nat \ {0} /\ Hash[k] \in Nat
    BY HashAssumption DEF Shaped
  <1>2. PICK n \in Nat \ {0} : n = t.count
    BY <1>1
  <1>3. PICK h \in Nat : h = Hash[k]
    BY <1>1
  <1>4. \A s \in Nat : (h + s) % n \in 0..n - 1
    OBVIOUS
  <1>5. ASSUME NEW i \in 0..n - 1 PROVE \E s \in 0..n - 1 : (h + s) % n = i
    <2>1. PICK q \in Nat, r \in 0..n - 1 : h = n * q + r
      BY Division
    <2>2. CASE r <= i
      <3>1. i - r \in 0..n - 1 /\ h + (i - r) \in Nat /\ h + (i - r) = n * q + i
        BY <2>1, <2>2
      <3>2. (h + (i - r)) % n = i
        BY <3>1, Remainder
      <3> QED
        BY <3>1, <3>2
    <2>3. CASE i < r
      <3>1. /\ i + n - r \in 0..n - 1 /\ h + (i + n - r) \in Nat
            /\ h + (i + n - r) = n * q + n + i
        BY <2>1, <2>3
      <3>2. n * q + n = n * (q + 1) /\ q + 1 \in Nat
        BY <2>1
      <3>3. h + (i + n - r) = n * (q + 1) + i
        BY <3>1, <3>2
      <3>4. (h + (i + n - r)) % n = i
        BY <3>1, <3>2, <3>3, Remainder
      <3> QED
        BY <3>1, <3>4
    <2> QED
      BY <2>1, <2>2, <2>3
  <1> QED
    BY <1>2, <1>3, <1>4, <1>5 DEF Bucket, Indices

\* All that Get and Set step over before they stop.
SteppedOver(t, k, s) ==
    \A r \in 0..s - 1 : LET i == Bucket(t, k, r) IN ~IsEmpty(t, i) /\ t.key[i] # k

\* Set stops, at the first bucket where it may.
LEMMA SetStopsSomewhere ==
  ASSUME NEW t, Shaped(t), NEW k \in Keys,
         NEW e \in Indices(t), IsEmpty(t, e)
  PROVE  \E s \in 0..t.count - 1 :
            /\ s = First(SetStops(t, k))
            /\ SetIndex(t, k) = Bucket(t, k, s) /\ SetIndex(t, k) \in Indices(t)
            /\ ~Exists(t, SetIndex(t, k)) \/ t.key[SetIndex(t, k)] = k
            /\ \A r \in 0..s - 1 : LET i == Bucket(t, k, r) IN
                  i \in Indices(t) /\ Exists(t, i) /\ t.key[i] # k
  <1>1. t.count \in Nat \ {0}
    BY DEF Shaped, Indices
  <1>2. /\ \A s \in Nat : Bucket(t, k, s) \in Indices(t)
        /\ \E s \in 0..t.count - 1 : Bucket(t, k, s) = e
    BY <1>1, EveryBucketProbed
  <1>3. ~Exists(t, e)
    BY DEF Exists, IsEmpty
  <1>4. SetStops(t, k) \in SUBSET Nat /\ SetStops(t, k) # {}
    BY <1>1, <1>2, <1>3 DEF SetStops
  <1>5. PICK s \in SetStops(t, k) :
           s = First(SetStops(t, k)) /\ \A r \in SetStops(t, k) : s <= r
    BY <1>4, FirstIsLeast
  <1>6. s \in 0..t.count - 1 /\ s \in Nat
    BY <1>1, <1>5 DEF SetStops
  <1>7. ~Exists(t, Bucket(t, k, s)) \/ t.key[Bucket(t, k, s)] = k
    BY <1>5 DEF SetStops
  <1>8. ASSUME NEW r \in 0..s - 1
        PROVE  LET i == Bucket(t, k, r) IN i \in Indices(t) /\ Exists(t, i) /\ t.key[i] # k
    <2>1. r \in 0..t.count - 1 /\ r \in Nat /\ ~(s <= r)
      BY <1>1, <1>6, <1>8
    <2>2. r \notin SetStops(t, k)
      BY <1>5, <2>1
    <2> QED
      BY <1>2, <2>1, <2>2 DEF SetStops
  <1>9. SetIndex(t, k) = Bucket(t, k, s)
    BY <1>5 DEF SetIndex
  <1> QED
    BY <1>2, <1>5, <1>6, <1>7, <1>8, <1>9

\* Get stops, too: where k is, or at an empty bucket.
LEMMA GetStopsSomewhere ==
  ASSUME NEW t, Shaped(t), NEW k \in Keys,
         NEW e \in Indices(t), IsEmpty(t, e)
  PROVE  \E s \in 0..t.count - 1 : LET i == Bucket(t, k, s) IN
            /\ i \in Indices(t)
            /\ IsEmpty(t, i) \/ t.key[i] = k
            /\ SteppedOver(t, k, s)
            /\ Get(t, k) = IF t.key[i] = k THEN i ELSE t.count
  <1>1. t.count \in Nat \ {0}
    BY DEF Shaped, Indices
  <1>2. /\ \A s \in Nat : Bucket(t, k, s) \in Indices(t)
        /\ \E s \in 0..t.count - 1 : Bucket(t, k, s) = e
    BY <1>1, EveryBucketProbed
  <1>3. GetStops(t, k) \in SUBSET Nat /\ GetStops(t, k) # {}
    BY <1>1, <1>2 DEF GetStops
  <1>4. PICK s \in GetStops(t, k) :
           s = First(GetStops(t, k)) /\ \A r \in GetStops(t, k) : s <= r
    BY <1>3, FirstIsLeast
  <1>5. s \in 0..t.count - 1 /\ s \in Nat
    BY <1>1, <1>4 DEF GetStops
  <1>6. IsEmpty(t, Bucket(t, k, s)) \/ t.key[Bucket(t, k, s)] = k
    BY <1>4 DEF GetStops
  <1>7. SteppedOver(t, k, s)
    <2> SUFFICES ASSUME NEW r \in 0..s - 1
                 PROVE  LET i == Bucket(t, k, r) IN ~IsEmpty(t, i) /\ t.key[i] # k
      BY DEF SteppedOver
    <2>1. r \in 0..t.count - 1 /\ r \in Nat /\ ~(s <= r)
      BY <1>1, <1>5
    <2>2. r \notin GetStops(t, k)
      BY <1>4, <2>1
    <2> QED
      BY <2>1, <2>2 DEF GetStops
  <1>8. Get(t, k) = IF t.key[Bucket(t, k, s)] = k THEN Bucket(t, k, s) ELSE t.count
    BY <1>1, <1>4 DEF Get
  <1> QED
    BY <1>2, <1>5, <1>6, <1>7, <1>8
-----------------------------------------------------------------------------
\* If as many buckets are used as there are entries, there is no tombstone.
LEMMA NoTombstones ==
  ASSUME NEW t, Shaped(t), Counted(t), t.used = t.size
  PROVE  \A i \in Indices(t) : Exists(t, i) \/ IsEmpty(t, i)
  <1>1. Taken(t) = Stored(t)
    BY BucketsAreFinite, FS_Subset DEF Counted
  <1> QED
    BY <1>1 DEF Taken, Stored

\* The two things that Set can do once there is room.
Overwrites(t, u, i, v, displace) ==
    /\ u.key = t.key /\ u.size = t.size /\ u.used = t.used
    /\ u.value = IF displace THEN [t.value EXCEPT ![i] = v] ELSE t.value

Fills(t, u, i, k, v) ==
    /\ u.key = [t.key EXCEPT ![i] = k] /\ u.value = [t.value EXCEPT ![i] = v]
    /\ u.size = t.size + 1
    /\ u.used = IF IsEmpty(t, i) THEN t.used + 1 ELSE t.used

\* Set, with room, does one or the other at the bucket where its probing stops.
LEMMA StoreDoes ==
  ASSUME NEW t, Shaped(t), NEW k, NEW v, NEW displace,
         NEW i, i = SetIndex(t, k), NEW u, u = Store(t, k, v, displace)
  PROVE  /\ IsTable(u) /\ u.count = t.count
         /\ Exists(t, i) => Overwrites(t, u, i, v, displace)
         /\ ~Exists(t, i) => Fills(t, u, i, k, v)
  <1>1. PICK c, f, g, n, m : t = [count |-> c, key |-> f, value |-> g, size |-> n, used |-> m]
    BY DEF Shaped, IsTable
  <1>2. CASE Exists(t, i) /\ displace
    <2>1. u = [t EXCEPT !.value[i] = v]
      BY <1>2 DEF Store
    <2>2. u = [count |-> c, key |-> f, value |-> [g EXCEPT ![i] = v], size |-> n, used |-> m]
      BY <1>1, <2>1
    <2>3. t.count = c /\ t.key = f /\ t.value = g /\ t.size = n /\ t.used = m
      BY <1>1
    <2>4. /\ u.count = c /\ u.key = f /\ u.value = [g EXCEPT ![i] = v]
          /\ u.size = n /\ u.used = m
      BY <2>2
    <2>5. IsTable(u)
      BY <2>2, <2>4, Zenon DEF IsTable
    <2> QED
      BY <1>2, <2>3, <2>4, <2>5, Zenon DEF Overwrites
  <1>3. CASE Exists(t, i) /\ ~displace
    <2>1. u = t
      BY <1>3 DEF Store
    <2> QED
      BY <1>1, <1>3, <2>1 DEF IsTable, Overwrites
  <1>4. CASE ~Exists(t, i)
    <2>1. u = [t EXCEPT !.key[i] = k, !.value[i] = v, !.size = @ + 1,
                        !.used = IF IsEmpty(t, i) THEN @ + 1 ELSE @]
      BY <1>4 DEF Store
    <2>2. u = [count |-> c, key |-> [f EXCEPT ![i] = k], value |-> [g EXCEPT ![i] = v],
               size |-> n + 1, used |-> IF IsEmpty(t, i) THEN m + 1 ELSE m]
      BY <1>1, <2>1
    <2>3. t.count = c /\ t.key = f /\ t.value = g /\ t.size = n /\ t.used = m
      BY <1>1
    <2>4. /\ u.count = c /\ u.key = [f EXCEPT ![i] = k] /\ u.value = [g EXCEPT ![i] = v]
          /\ u.size = n + 1 /\ u.used = IF IsEmpty(t, i) THEN m + 1 ELSE m
      BY <2>2
    <2>5. IsTable(u)
      BY <2>2, <2>4, Zenon DEF IsTable
    <2>6. Fills(t, u, i, k, v)
      BY <2>3, <2>4, Zenon DEF Fills
    <2> QED
      BY <1>4, <2>3, <2>4, <2>5, <2>6
  <1> QED
    BY <1>2, <1>3, <1>4

\* Filling a bucket keeps the table's shape and counts it.
LEMMA FillsIsCounted ==
  ASSUME NEW t, Shaped(t), Counted(t), NEW u, IsTable(u), u.count = t.count,
         NEW i \in Indices(t), ~Exists(t, i), NEW k \in Keys, NEW v \in Values,
         Fills(t, u, i, k, v)
  PROVE  /\ Shaped(u) /\ Counted(u) /\ Indices(u) = Indices(t)
         /\ \A j \in Indices(t) : Exists(u, j) <=> Exists(t, j) \/ j = i
         /\ \A j \in Indices(t) : IsEmpty(u, j) <=> IsEmpty(t, j) /\ j # i
  <1>1. Indices(u) = Indices(t)
    BY DEF Indices
  <1>2. k # Empty /\ k # Erased /\ v # Dead
    BY ReservedAssumption
  <1>3. /\ u.key \in [Indices(t) -> Keys \cup {Empty, Erased}]
        /\ u.value \in [Indices(t) -> Values \cup {Dead}]
    BY DEF Shaped, Fills
  <1>4. /\ u.key[i] = k /\ u.value[i] = v
        /\ \A j \in Indices(t) : j # i => u.key[j] = t.key[j] /\ u.value[j] = t.value[j]
    BY DEF Shaped, Fills
  <1>5. \A j \in Indices(t) : Exists(u, j) <=> Exists(t, j) \/ j = i
    BY <1>2, <1>4 DEF Exists
  <1>6. \A j \in Indices(t) : IsEmpty(u, j) <=> IsEmpty(t, j) /\ j # i
    BY <1>2, <1>4 DEF IsEmpty
  <1>7. Shaped(u)
    <2>1. u.count \in Nat /\ u.size \in Nat /\ u.used \in Nat
      BY DEF Shaped, Fills
    <2>2. \A j \in Indices(t) : u.value[j] # Dead <=> Exists(u, j)
      BY <1>2, <1>4, <1>5 DEF Shaped
    <2> QED
      BY <1>1, <1>3, <2>1, <2>2 DEF Shaped
  <1>8. Stored(u) = Stored(t) \cup {i} /\ i \notin Stored(t)
    BY <1>1, <1>5 DEF Stored
  <1>9. Taken(u) = Taken(t) \cup {i} /\ (i \in Taken(t) <=> ~IsEmpty(t, i))
    BY <1>1, <1>6 DEF Taken
  <1>10. Cardinality(Stored(u)) = Cardinality(Stored(t)) + 1
    <2>1. IsFiniteSet(Stored(t))
      BY BucketsAreFinite
    <2> QED
      BY <1>8, <2>1, FS_AddElement
  <1>11. Cardinality(Taken(u)) =
           IF IsEmpty(t, i) THEN Cardinality(Taken(t)) + 1 ELSE Cardinality(Taken(t))
    BY <1>9, BucketsAreFinite, FS_AddElement
  <1>12. Counted(u)
    BY <1>10, <1>11 DEF Counted, Fills
  <1> QED
    BY <1>1, <1>5, <1>6, <1>7, <1>12

\* So does overwriting a value.
LEMMA OverwritesIsCounted ==
  ASSUME NEW t, Shaped(t), Counted(t), NEW u, IsTable(u), u.count = t.count,
         NEW i \in Indices(t), Exists(t, i), NEW v \in Values, NEW displace,
         Overwrites(t, u, i, v, displace)
  PROVE  /\ Shaped(u) /\ Counted(u) /\ Indices(u) = Indices(t)
         /\ \A j \in Indices(t) : Exists(u, j) <=> Exists(t, j)
         /\ \A j \in Indices(t) : IsEmpty(u, j) <=> IsEmpty(t, j)
  <1>1. Indices(u) = Indices(t)
    BY DEF Indices
  <1>2. /\ \A j \in Indices(t) : Exists(u, j) <=> Exists(t, j)
        /\ \A j \in Indices(t) : IsEmpty(u, j) <=> IsEmpty(t, j)
    BY DEF Overwrites, Exists, IsEmpty
  <1>3. /\ u.value \in [Indices(t) -> Values \cup {Dead}]
        /\ \A j \in Indices(t) : u.value[j] # Dead <=> t.value[j] # Dead
    BY ReservedAssumption DEF Shaped, Overwrites
  <1>4. Shaped(u)
    BY <1>1, <1>2, <1>3 DEF Shaped, Overwrites
  <1>5. Stored(u) = Stored(t) /\ Taken(u) = Taken(t)
    BY <1>1, <1>2 DEF Stored, Taken
  <1> QED
    BY <1>1, <1>2, <1>4, <1>5 DEF Counted, Overwrites

\* What storing makes of a table in which a bucket is empty.
LEMMA StoreIsCounted ==
  ASSUME NEW t, Shaped(t), Counted(t), NEW k \in Keys, NEW v \in Values,
         NEW displace, t.used < t.count,
         NEW i, i = SetIndex(t, k), NEW u, u = Store(t, k, v, displace)
  PROVE  /\ Shaped(u) /\ Counted(u) /\ u.count = t.count
         /\ u.used <= t.used + 1 /\ u.size <= t.size + 1
         /\ t.used = t.size => u.used = u.size
         /\ i \in Indices(t)
         /\ Exists(t, i) => t.key[i] = k /\ Overwrites(t, u, i, v, displace)
         /\ ~Exists(t, i) => Fills(t, u, i, k, v)
  <1>1. PICK e \in Indices(t) : IsEmpty(t, e)
    BY OneIsEmpty
  <1>2. i \in Indices(t) /\ (Exists(t, i) => t.key[i] = k)
    BY <1>1, SetStopsSomewhere
  <1>3. /\ IsTable(u) /\ u.count = t.count
        /\ Exists(t, i) => Overwrites(t, u, i, v, displace)
        /\ ~Exists(t, i) => Fills(t, u, i, k, v)
    BY StoreDoes
  <1>4. t.used \in Nat /\ t.size \in Nat
    BY DEF Shaped
  <1>5. CASE Exists(t, i)
    <2>1. Shaped(u) /\ Counted(u)
      BY <1>2, <1>3, <1>5, OverwritesIsCounted
    <2>2. u.used = t.used /\ u.size = t.size
      BY <1>3, <1>5 DEF Overwrites
    <2> QED
      BY <1>2, <1>3, <1>4, <1>5, <2>1, <2>2
  <1>6. CASE ~Exists(t, i)
    <2>1. Shaped(u) /\ Counted(u)
      BY <1>2, <1>3, <1>6, FillsIsCounted
    <2>2. u.used = (IF IsEmpty(t, i) THEN t.used + 1 ELSE t.used) /\ u.size = t.size + 1
      BY <1>3, <1>6 DEF Fills
    <2>3. t.used = t.size => u.used = u.size
      BY <1>2, <1>6, <2>2, NoTombstones
    <2>4. u.used <= t.used + 1 /\ u.size <= t.size + 1
      BY <1>4, <2>2
    <2> QED
      BY <1>2, <1>3, <1>6, <2>1, <2>3, <2>4
  <1> QED
    BY <1>5, <1>6
-----------------------------------------------------------------------------
\* Every entry is met on the way from its key's home, before an empty bucket
\* and before another entry with that key.
Reachable(t) ==
    \A i \in Indices(t) : Exists(t, i) =>
        \E s \in 0..t.count - 1 :
            Bucket(t, t.key[i], s) = i /\ SteppedOver(t, t.key[i], s)

\* What the table says of a key.
Holds(t, k, v) == \E i \in Indices(t) : Exists(t, i) /\ t.key[i] = k /\ t.value[i] = v
HasKey(t, k)   == \E i \in Indices(t) : Exists(t, i) /\ t.key[i] = k

\* A key that is stored is one of the Keys.
LEMMA StoredKeys ==
  ASSUME NEW t, Shaped(t), NEW i \in Indices(t), Exists(t, i)
  PROVE  t.key[i] \in Keys /\ t.value[i] \in Values
  BY DEF Shaped, Exists

\* No key is stored twice.
LEMMA KeysDiffer ==
  ASSUME NEW t, Shaped(t), Reachable(t), NEW i \in Indices(t), NEW j \in Indices(t),
         Exists(t, i), Exists(t, j), t.key[i] = t.key[j]
  PROVE  i = j
  <1> DEFINE k == t.key[i]
  <1>1. PICK s \in 0..t.count - 1 : Bucket(t, k, s) = i /\ SteppedOver(t, k, s)
    BY DEF Reachable
  <1>2. PICK r \in 0..t.count - 1 : Bucket(t, k, r) = j /\ SteppedOver(t, k, r)
    BY DEF Reachable
  <1>3. s \in Int /\ r \in Int
    BY DEF Shaped
  <1>4. ~(s < r)
    <2> SUFFICES ASSUME s < r PROVE FALSE
      OBVIOUS
    <2>1. s \in 0..r - 1
      BY <1>1, <1>2, <1>3
    <2> QED
      BY <1>1, <1>2, <2>1 DEF SteppedOver
  <1>5. ~(r < s)
    <2> SUFFICES ASSUME r < s PROVE FALSE
      OBVIOUS
    <2>1. r \in 0..s - 1
      BY <1>1, <1>2, <1>3
    <2> QED
      BY <1>1, <1>2, <2>1 DEF SteppedOver
  <1>6. s = r
    BY <1>3, <1>4, <1>5
  <1> QED
    BY <1>1, <1>2, <1>6

\* Without a tombstone, Set finds a key that is stored.
LEMMA SetFindsKey ==
  ASSUME NEW t, Shaped(t), Counted(t), Reachable(t), NEW k \in Keys, t.used < t.count,
         t.used = t.size, HasKey(t, k)
  PROVE  Exists(t, SetIndex(t, k))
  <1>1. PICK e \in Indices(t) : IsEmpty(t, e)
    BY OneIsEmpty
  <1>2. PICK s \in 0..t.count - 1 :
           /\ SetIndex(t, k) = Bucket(t, k, s) /\ SetIndex(t, k) \in Indices(t)
           /\ \A r \in 0..s - 1 : LET i == Bucket(t, k, r) IN
                 i \in Indices(t) /\ Exists(t, i) /\ t.key[i] # k
    BY <1>1, SetStopsSomewhere
  <1>3. PICK j \in Indices(t) : Exists(t, j) /\ t.key[j] = k
    BY DEF HasKey
  <1>4. PICK r \in 0..t.count - 1 : Bucket(t, k, r) = j /\ SteppedOver(t, k, r)
    BY <1>3 DEF Reachable
  <1>5. s \in Int /\ r \in Int
    BY DEF Shaped
  <1>6. ~(r < s)
    <2> SUFFICES ASSUME r < s PROVE FALSE
      OBVIOUS
    <2>1. r \in 0..s - 1
      BY <1>2, <1>4, <1>5
    <2> QED
      BY <1>2, <1>3, <1>4, <2>1
  <1>7. CASE s < r
    <2>1. s \in 0..r - 1
      BY <1>2, <1>4, <1>5, <1>7
    <2>2. ~IsEmpty(t, SetIndex(t, k))
      BY <1>2, <1>4, <2>1 DEF SteppedOver
    <2> QED
      BY <1>2, <2>2, NoTombstones
  <1>8. CASE s = r
    BY <1>2, <1>3, <1>4, <1>8
  <1> QED
    BY <1>5, <1>6, <1>7, <1>8

\* What storing a key does to a table: it stays reachable, says v of the key or
\* what it said before, and the same of every other key.  Set would find the
\* key there again.
LEMMA StoreIsReachable ==
  ASSUME NEW t, Shaped(t), Counted(t), Reachable(t), NEW k \in Keys, NEW v \in Values,
         NEW displace, t.used < t.count,
         t.used = t.size \/ ~HasKey(t, k),
         NEW u, u = Store(t, k, v, displace)
  PROVE  /\ Reachable(u)
         /\ \A j \in Keys, w \in Values :
               Holds(u, j, w) <=>
                   IF j # k THEN Holds(t, j, w)
                   ELSE IF HasKey(t, k) /\ ~displace THEN Holds(t, k, w)
                   ELSE w = v
  <1>1. PICK i : i = SetIndex(t, k)
    OBVIOUS
  <1>2. /\ Shaped(u) /\ Counted(u) /\ u.count = t.count
        /\ i \in Indices(t)
        /\ Exists(t, i) => t.key[i] = k /\ Overwrites(t, u, i, v, displace)
        /\ ~Exists(t, i) => Fills(t, u, i, k, v)
    BY <1>1, StoreIsCounted
  <1>3. Indices(u) = Indices(t) /\ \A j, s : Bucket(u, j, s) = Bucket(t, j, s)
    BY <1>2 DEF Indices, Bucket
  <1>4. CASE Exists(t, i)
    <2>1. /\ u.key = t.key /\ u.value[i] = IF displace THEN v ELSE t.value[i]
          /\ \A b \in Indices(t) : b # i => u.value[b] = t.value[b]
      BY <1>2, <1>4 DEF Overwrites, Shaped
    <2>2. \A b : (Exists(u, b) <=> Exists(t, b)) /\ (IsEmpty(u, b) <=> IsEmpty(t, b))
      BY <2>1 DEF Exists, IsEmpty
    <2>3. Reachable(u)
      BY <1>2, <1>3, <2>1, <2>2 DEF Reachable, SteppedOver
    <2>4. \A b \in Indices(t) : Exists(t, b) /\ t.key[b] = k => b = i
      BY <1>2, <1>4, KeysDiffer
    <2>5. HasKey(t, k)
      BY <1>2, <1>4 DEF HasKey
    <2>6. ASSUME NEW j \in Keys, NEW w \in Values, j # k PROVE Holds(u, j, w) <=> Holds(t, j, w)
      BY <1>2, <1>3, <2>1, <2>2, <2>6 DEF Holds
    <2>7. ASSUME NEW w \in Values
          PROVE Holds(u, k, w) <=> IF ~displace THEN Holds(t, k, w) ELSE w = v
      BY <1>2, <1>3, <1>4, <2>1, <2>2, <2>4 DEF Holds
    <2> QED
      BY <2>3, <2>5, <2>6, <2>7
  <1>5. CASE ~Exists(t, i)
    <2>1. ~HasKey(t, k)
      BY <1>1, <1>5, SetFindsKey
    <2>2. /\ \A j \in Indices(t) : Exists(u, j) <=> Exists(t, j) \/ j = i
          /\ \A j \in Indices(t) : IsEmpty(u, j) <=> IsEmpty(t, j) /\ j # i
      BY <1>2, <1>5, FillsIsCounted DEF Shaped
    <2>3. /\ u.key[i] = k /\ u.value[i] = v
          /\ \A b \in Indices(t) : b # i => u.key[b] = t.key[b] /\ u.value[b] = t.value[b]
      BY <1>2, <1>5 DEF Fills, Shaped
    <2>4. ASSUME NEW b \in Indices(u), Exists(u, b)
          PROVE \E s \in 0..u.count - 1 :
                   Bucket(u, u.key[b], s) = b /\ SteppedOver(u, u.key[b], s)
      <3>1. t.count \in Nat \ {0}
        BY <1>2 DEF Shaped, Indices
      <3>2. CASE b = i
        <4>1. PICK e \in Indices(t) : IsEmpty(t, e)
          BY OneIsEmpty
        <4>2. PICK s \in 0..t.count - 1 :
                 /\ i = Bucket(t, k, s)
                 /\ \A r \in 0..s - 1 : LET c == Bucket(t, k, r) IN
                       c \in Indices(t) /\ Exists(t, c) /\ t.key[c] # k
          BY <1>1, <4>1, SetStopsSomewhere
        <4>3. ASSUME NEW r \in 0..s - 1, NEW c, c = Bucket(t, k, r)
              PROVE ~IsEmpty(u, c) /\ u.key[c] # k
          <5>1. c \in Indices(t) /\ Exists(t, c) /\ t.key[c] # k /\ c # i
            BY <1>5, <4>2, <4>3
          <5> QED
            BY <2>2, <2>3, <5>1 DEF Exists, IsEmpty
        <4> QED
          BY <1>2, <1>3, <2>3, <3>2, <4>2, <4>3 DEF SteppedOver
      <3>3. CASE b # i
        <4>1. b \in Indices(t) /\ Exists(t, b) /\ u.key[b] = t.key[b] /\ t.key[b] # k
          BY <1>3, <2>1, <2>2, <2>3, <2>4, <3>3 DEF HasKey
        <4>2. t.key[b] \in Keys
          BY <4>1, StoredKeys
        <4>3. PICK s \in 0..t.count - 1 :
                 Bucket(t, t.key[b], s) = b /\ SteppedOver(t, t.key[b], s)
          BY <4>1 DEF Reachable
        <4>4. ASSUME NEW r \in 0..s - 1, NEW c, c = Bucket(t, t.key[b], r)
              PROVE ~IsEmpty(u, c) /\ u.key[c] # t.key[b]
          <5>1. r \in Nat
            BY <3>1, <4>3
          <5>2. c \in Indices(t)
            BY <3>1, <4>2, <4>4, <5>1, EveryBucketProbed
          <5>3. ~IsEmpty(t, c) /\ t.key[c] # t.key[b]
            BY <4>3, <4>4 DEF SteppedOver
          <5> QED
            BY <2>2, <2>3, <4>1, <5>2, <5>3
        <4> QED
          BY <1>2, <1>3, <4>1, <4>3, <4>4 DEF SteppedOver
      <3> QED
        BY <3>2, <3>3
    <2>5. Reachable(u)
      BY <2>4 DEF Reachable
    <2>6. ASSUME NEW j \in Keys, NEW w \in Values, j # k PROVE Holds(u, j, w) <=> Holds(t, j, w)
      BY <1>2, <1>3, <1>5, <2>2, <2>3, <2>6 DEF Holds
    <2>7. ASSUME NEW w \in Values PROVE Holds(u, k, w) <=> w = v
      BY <1>2, <1>3, <2>1, <2>2, <2>3 DEF Holds, HasKey
    <2> QED
      BY <2>1, <2>5, <2>6, <2>7
  <1> QED
    BY <1>4, <1>5
-----------------------------------------------------------------------------
\* What Resize does with one bucket.
MoveOne(t, m, i) ==
    IF Exists(t, i) THEN Store(m, t.key[i], t.value[i], FALSE) ELSE m

\* Its recursion can be carried out.
LEMMA ResizeMoves ==
  ASSUME NEW t, t.count \in Nat, NEW n
  PROVE  \E f : /\ f[0] = Fresh(n)
                /\ \A i \in 0..t.count - 1 : f[i + 1] = MoveOne(t, f[i], i)
                /\ Resize(t, n) = f[t.count]
  <1> DEFINE Step(f, i) == IF i = 0 THEN Fresh(n)
                           ELSE IF Exists(t, i - 1)
                                THEN Store(f[i - 1], t.key[i - 1], t.value[i - 1], FALSE)
                                ELSE f[i - 1]
             IsMoved(c, f) == f = [i \in 0..c |-> Step(f, i)]
             Reached == {c \in Nat : \E f : IsMoved(c, f)}
  <1>1. 0 \in Reached
    <2>1. IsMoved(0, [i \in 0..0 |-> Fresh(n)])
      OBVIOUS
    <2> QED
      BY <2>1
  <1>2. ASSUME NEW c \in Nat, c \in Reached PROVE c + 1 \in Reached
    <2>1. PICK f : IsMoved(c, f)
      BY <1>2
    <2> DEFINE g == [i \in 0..c + 1 |-> IF i = c + 1 THEN MoveOne(t, f[c], c) ELSE f[i]]
    <2>2. ASSUME NEW i \in 0..c + 1 PROVE g[i] = Step(g, i)
      <3>1. CASE i = c + 1
        <4>1. i # 0 /\ i - 1 = c /\ g[c] = f[c]
          BY <3>1
        <4> QED
          BY <3>1, <4>1 DEF MoveOne
      <3>2. CASE i # c + 1
        <4>1. i \in 0..c /\ g[i] = f[i] /\ (i # 0 => i - 1 \in 0..c /\ g[i - 1] = f[i - 1])
          BY <3>2
        <4>2. f[i] = Step(f, i)
          BY <2>1, <4>1
        <4> QED
          BY <4>1, <4>2
      <3> QED
        BY <3>1, <3>2
    <2>3. g = [i \in 0..c + 1 |-> Step(g, i)]
      BY <2>2
    <2> HIDE DEF g, Step
    <2>4. c + 1 \in Nat
      OBVIOUS
    <2> QED
      BY <2>3, <2>4
  <1> HIDE DEF Reached
  <1>3. t.count \in Reached
    BY <1>1, <1>2, AllNaturals
  <1>4. \E f : IsMoved(t.count, f)
    BY <1>3 DEF Reached
  <1> DEFINE moved == CHOOSE f : IsMoved(t.count, f)
  <1>5. IsMoved(t.count, moved)
    BY <1>4
  <1>6. Resize(t, n) = moved[t.count]
    BY DEF Resize
  <1> HIDE DEF moved
  <1>7. moved[0] = Fresh(n)
    BY <1>5
  <1>8. ASSUME NEW i \in 0..t.count - 1 PROVE moved[i + 1] = MoveOne(t, moved[i], i)
    <2>1. i + 1 \in 0..t.count /\ i + 1 # 0 /\ (i + 1) - 1 = i
      OBVIOUS
    <2> QED
      BY <1>5, <2>1 DEF MoveOne
  <1> QED
    BY <1>6, <1>7, <1>8

\* The entries among the first i buckets.
Before(t, i) == {j \in Stored(t) : j < i}

\* The new table when those have been moved.  If all of them can be reached in
\* the old table it says of each key what they say.
MovedAre(t, n, i, m) ==
    /\ Shaped(m) /\ Counted(m) /\ Reachable(m)
    /\ m.count = n /\ m.used = m.size /\ m.size <= Cardinality(Before(t, i))
    /\ Reachable(t) => \A k \in Keys, v \in Values :
          Holds(m, k, v) <=> \E j \in Before(t, i) : t.key[j] = k /\ t.value[j] = v

\* The entries among one more bucket.
LEMMA BeforeGrows ==
  ASSUME NEW t, Shaped(t), Counted(t), NEW i \in 0..t.count - 1
  PROVE  /\ Exists(t, i) => /\ Before(t, i + 1) = Before(t, i) \cup {i}
                            /\ Cardinality(Before(t, i + 1)) = Cardinality(Before(t, i)) + 1
         /\ ~Exists(t, i) => Before(t, i + 1) = Before(t, i)
         /\ Cardinality(Before(t, i)) \in Nat
         /\ Cardinality(Before(t, i + 1)) <= t.size
         /\ Before(t, t.count) = Stored(t)
  <1>1. t.count \in Nat /\ \A j \in Stored(t) : j \in 0..t.count - 1
    BY DEF Shaped, Stored, Indices
  <1>2. Exists(t, i) => Before(t, i + 1) = Before(t, i) \cup {i} /\ i \notin Before(t, i)
    BY <1>1 DEF Before, Stored, Indices
  <1>3. ~Exists(t, i) => Before(t, i + 1) = Before(t, i)
    BY <1>1 DEF Before, Stored, Indices
  <1>4. Before(t, t.count) = Stored(t)
    BY <1>1 DEF Before
  <1>5. Before(t, i) \in SUBSET Stored(t) /\ Before(t, i + 1) \in SUBSET Stored(t)
    BY DEF Before
  <1>6. IsFiniteSet(Stored(t))
    BY BucketsAreFinite
  <1>7. IsFiniteSet(Before(t, i)) /\ Cardinality(Before(t, i)) \in Nat
    BY <1>5, <1>6, FS_Subset, FS_CardinalityType
  <1>8. Cardinality(Before(t, i + 1)) <= t.size
    BY <1>5, <1>6, FS_Subset DEF Counted
  <1>9. Exists(t, i) => Cardinality(Before(t, i + 1)) = Cardinality(Before(t, i)) + 1
    BY <1>2, <1>7, FS_AddElement
  <1> QED
    BY <1>2, <1>3, <1>4, <1>7, <1>8, <1>9

\* One entry is moved.  There is room for it.
LEMMA MoveOneKeeps ==
  ASSUME NEW t, Shaped(t), Counted(t), NEW n \in Nat, t.size <= ResizeCount(n),
         NEW i \in 0..t.count - 1, NEW m, MovedAre(t, n, i, m)
  PROVE  MovedAre(t, n, i + 1, MoveOne(t, m, i))
  <1>0. t.count \in Nat /\ i \in Indices(t) /\ t.size \in Nat
    BY DEF Shaped, Indices
  <1>1. CASE ~Exists(t, i)
    BY <1>1, BeforeGrows DEF MoveOne, MovedAre
  <1>2. CASE Exists(t, i)
    <2>1. PICK k \in Keys, v \in Values : k = t.key[i] /\ v = t.value[i]
      BY <1>0, <1>2, StoredKeys
    <2>2. PICK keep, u : keep = FALSE /\ u = Store(m, k, v, keep)
      OBVIOUS
    <2>3. u = MoveOne(t, m, i)
      BY <1>2, <2>1, <2>2 DEF MoveOne
    <2>4. m.used < m.count
      <3>1. /\ Cardinality(Before(t, i)) \in Nat
            /\ Cardinality(Before(t, i)) + 1 <= t.size
        BY <1>2, BeforeGrows
      <3>2. m.size \in Nat /\ m.size <= Cardinality(Before(t, i)) /\ m.used = m.size /\ m.count = n
        BY DEF MovedAre, Shaped
      <3>3. m.size < ResizeCount(n) /\ ResizeCount(n) \in Nat
        BY <1>0, <3>1, <3>2, Thresholds
      <3> QED
        BY <3>2, <3>3, Thresholds
    <2>5. /\ Shaped(m) /\ Counted(m) /\ Reachable(m) /\ m.used = m.size /\ m.count = n
      BY DEF MovedAre
    <2>6. /\ Shaped(u) /\ Counted(u) /\ u.count = n /\ u.size <= m.size + 1 /\ u.used = u.size
      BY <2>2, <2>4, <2>5, StoreIsCounted
    <2>7. u.size <= Cardinality(Before(t, i + 1))
      <3>1. u.size \in Nat /\ m.size \in Nat /\ m.size <= Cardinality(Before(t, i))
        BY <2>6 DEF MovedAre, Shaped
      <3> QED
        BY <1>2, <2>6, <3>1, BeforeGrows
    <2>8. /\ Reachable(u)
          /\ \A j \in Keys, w \in Values :
                Holds(u, j, w) <=>
                    IF j # k THEN Holds(m, j, w)
                    ELSE IF HasKey(m, k) THEN Holds(m, k, w) ELSE w = v
      BY <2>2, <2>4, <2>5, StoreIsReachable
    <2>9. ASSUME Reachable(t), NEW j \in Keys, NEW w \in Values
          PROVE  Holds(u, j, w) <=>
                     \E b \in Before(t, i + 1) : t.key[b] = j /\ t.value[b] = w
      <3>1. Holds(m, j, w) <=> \E b \in Before(t, i) : t.key[b] = j /\ t.value[b] = w
        BY <2>9 DEF MovedAre
      <3>2. Before(t, i + 1) = Before(t, i) \cup {i}
        BY <1>2, BeforeGrows
      <3>3. CASE j # k
        BY <2>1, <2>8, <3>1, <3>2, <3>3
      <3>4. CASE j = k
        <4>1. \A b \in Before(t, i) : t.key[b] # k
          <5> SUFFICES ASSUME NEW b \in Before(t, i), t.key[b] = k PROVE FALSE
            OBVIOUS
          <5>1. b \in Indices(t) /\ Exists(t, b) /\ b < i
            BY DEF Before, Stored
          <5>2. b = i
            BY <1>0, <1>2, <2>1, <2>9, <5>1, KeysDiffer
          <5> QED
            BY <1>0, <5>1, <5>2
        <4>2. ~HasKey(m, k)
          <5> SUFFICES ASSUME HasKey(m, k) PROVE FALSE
            OBVIOUS
          <5>1. PICK b \in Indices(m) : Exists(m, b) /\ m.key[b] = k
            BY DEF HasKey
          <5>2. m.value[b] \in Values
            BY <2>5, <5>1, StoredKeys
          <5>3. Holds(m, k, m.value[b])
            BY <5>1 DEF Holds
          <5> QED
            BY <2>9, <4>1, <5>2, <5>3 DEF MovedAre
        <4> QED
          BY <2>1, <2>8, <3>2, <3>4, <4>1, <4>2
      <3> QED
        BY <3>3, <3>4
    <2> QED
      BY <2>3, <2>6, <2>7, <2>8, <2>9 DEF MovedAre
  <1> QED
    BY <1>1, <1>2

\* What Resize makes of a table that the new count leaves room for.
LEMMA ResizeIsSound ==
  ASSUME NEW t, Shaped(t), Counted(t), NEW n \in Nat, t.size <= ResizeCount(n),
         NEW u, u = Resize(t, n)
  PROVE  /\ Shaped(u) /\ Counted(u) /\ Reachable(u)
         /\ u.count = n /\ u.used = u.size /\ u.size <= t.size
         /\ Reachable(t) => \A k \in Keys, v \in Values : Holds(u, k, v) <=> Holds(t, k, v)
  <1>1. t.count \in Nat /\ t.size \in Nat
    BY DEF Shaped
  <1>2. PICK f : /\ f[0] = Fresh(n)
                 /\ \A i \in 0..t.count - 1 : f[i + 1] = MoveOne(t, f[i], i)
                 /\ u = f[t.count]
    BY <1>1, ResizeMoves
  <1> DEFINE Moved == {i \in Nat : i <= t.count => MovedAre(t, n, i, f[i])}
  <1>3. 0 \in Moved
    <2>1. Before(t, 0) = {}
      BY DEF Before, Stored, Indices
    <2>2. Cardinality(Before(t, 0)) = 0
      BY <2>1, FS_EmptySet
    <2>3. PICK m : m = Fresh(n)
      OBVIOUS
    <2>4. /\ Sound(m) /\ m.count = n /\ m.used = 0 /\ m.size = 0
          /\ \A i \in Indices(m) : ~Exists(m, i)
      BY <2>3, FreshIsSound
    <2>5. Reachable(m) /\ \A k, v : ~Holds(m, k, v)
      BY <2>4 DEF Reachable, Holds
    <2>6. MovedAre(t, n, 0, m)
      BY <2>1, <2>2, <2>4, <2>5 DEF MovedAre, Sound
    <2> QED
      BY <1>2, <2>3, <2>6
  <1>4. ASSUME NEW i \in Nat, i \in Moved PROVE i + 1 \in Moved
    <2> SUFFICES ASSUME i + 1 <= t.count PROVE MovedAre(t, n, i + 1, f[i + 1])
      OBVIOUS
    <2>1. i \in 0..t.count - 1 /\ MovedAre(t, n, i, f[i])
      BY <1>1, <1>4
    <2> QED
      BY <1>2, <2>1, MoveOneKeeps
  <1> HIDE DEF Moved
  <1>5. t.count \in Moved
    BY <1>1, <1>3, <1>4, AllNaturals
  <1>6. MovedAre(t, n, t.count, u)
    BY <1>1, <1>2, <1>5 DEF Moved
  <1>7. Before(t, t.count) = Stored(t)
    BY <1>1 DEF Before, Stored, Indices
  <1>8. u.size <= t.size
    BY <1>6, <1>7 DEF MovedAre, Counted
  <1>9. \A k, v : Holds(t, k, v) <=> \E j \in Stored(t) : t.key[j] = k /\ t.value[j] = v
    BY DEF Holds, Stored
  <1> QED
    BY <1>6, <1>7, <1>8, <1>9 DEF MovedAre
-----------------------------------------------------------------------------
\* A key is stored just when the table says something of it.
LEMMA HasKeyHolds ==
  ASSUME NEW t, Shaped(t), NEW k \in Keys
  PROVE  HasKey(t, k) <=> \E v \in Values : Holds(t, k, v)
  BY StoredKeys DEF HasKey, Holds

\* After storing a key Set would come to its bucket again.
LEMMA StoreIsFoundAgain ==
  ASSUME NEW t, Shaped(t), Counted(t), NEW k \in Keys, NEW v \in Values,
         NEW displace, t.used < t.count,
         NEW u, u = Store(t, k, v, displace)
  PROVE  /\ SetIndex(u, k) \in Indices(u)
         /\ Exists(u, SetIndex(u, k)) /\ u.key[SetIndex(u, k)] = k
  <1>1. PICK i : i = SetIndex(t, k)
    OBVIOUS
  <1>2. /\ Shaped(u) /\ u.count = t.count /\ Indices(u) = Indices(t)
        /\ i \in Indices(t)
        /\ Exists(t, i) => t.key[i] = k /\ Overwrites(t, u, i, v, displace)
        /\ ~Exists(t, i) => Fills(t, u, i, k, v)
    BY <1>1, StoreIsCounted DEF Indices
  <1>3. PICK e \in Indices(t) : IsEmpty(t, e)
    BY OneIsEmpty
  <1>4. PICK s \in 0..t.count - 1 :
           /\ i = Bucket(t, k, s)
           /\ \A r \in 0..s - 1 : LET c == Bucket(t, k, r) IN
                 c \in Indices(t) /\ Exists(t, c) /\ t.key[c] # k
    BY <1>1, <1>3, SetStopsSomewhere
  <1>5. u.key[i] = k /\ Exists(u, i)
    <2>1. k # Empty /\ k # Erased
      BY ReservedAssumption
    <2> QED
      BY <1>2, <2>1 DEF Overwrites, Fills, Exists, Shaped
  <1>6. \A j : Bucket(u, k, j) = Bucket(t, k, j)
    BY <1>2 DEF Bucket
  <1>7. s \in SetStops(u, k)
    BY <1>2, <1>4, <1>5, <1>6 DEF SetStops
  <1>8. ASSUME NEW r \in 0..s - 1 PROVE r \notin SetStops(u, k)
    <2>1. PICK c : c = Bucket(t, k, r)
      OBVIOUS
    <2>2. c \in Indices(t) /\ Exists(t, c) /\ t.key[c] # k
      BY <1>4, <2>1
    <2>3. c # i
      BY <1>2, <2>2
    <2>4. u.key[c] = t.key[c]
      BY <1>2, <2>2, <2>3 DEF Overwrites, Fills, Shaped
    <2> QED
      BY <1>6, <2>1, <2>2, <2>4 DEF SetStops, Exists
  <1>9. SetStops(u, k) \in SUBSET Nat /\ t.count \in Nat
    BY <1>2 DEF SetStops, Shaped
  <1>10. First(SetStops(u, k)) \in SetStops(u, k) /\ First(SetStops(u, k)) <= s
    BY <1>7, <1>9, FirstIsLeast
  <1>11. First(SetStops(u, k)) = s
    <2>1. First(SetStops(u, k)) \in Nat /\ s \in Nat
      BY <1>7, <1>9, <1>10
    <2>2. First(SetStops(u, k)) \notin 0..s - 1
      BY <1>8, <1>10
    <2> QED
      BY <1>10, <2>1, <2>2
  <1>12. SetIndex(u, k) = i
    BY <1>4, <1>6, <1>11 DEF SetIndex
  <1> QED
    BY <1>2, <1>5, <1>12

\* What the table that Set leaves says, if no tombstone or no entry hides k.
Says(t, u, k, v, displace) ==
    \A j \in Keys, w \in Values :
        Holds(u, j, w) <=>
            IF j # k THEN Holds(t, j, w)
            ELSE IF HasKey(t, k) /\ ~displace THEN Holds(t, k, w)
            ELSE w = v

\* Set: there is room after the table has grown, if it had to.
LEMMA SetIsSound ==
  ASSUME NEW t, Sound(t), NEW k \in Keys, NEW v \in Values, NEW displace,
         NEW u, u = Set(t, k, v, displace)
  PROVE  /\ Sound(u)
         /\ SetIndex(u, k) \in Indices(u)
         /\ Exists(u, SetIndex(u, k)) /\ u.key[SetIndex(u, k)] = k
         /\ Reachable(t) /\ (t.used = t.size \/ ~HasKey(t, k)) =>
               Reachable(u) /\ Says(t, u, k, v, displace)
  <1>0. /\ t.count \in Nat /\ t.used \in Nat /\ t.size \in Nat /\ t.size <= t.used
        /\ ResizeCount(t.count) \in Nat /\ t.used <= ResizeCount(t.count)
    BY SoundLeavesRoom, Thresholds DEF Sound, Shaped
  <1>1. PICK m : /\ m = IF t.used < ResizeCount(t.count) THEN t
                        ELSE Resize(t, IF t.count = 0 THEN 8 ELSE 2 * t.count)
                 /\ u = Store(m, k, v, displace)
    BY DEF Set
  <1>2. /\ Shaped(m) /\ Counted(m) /\ m.count \in Nat /\ m.used \in Nat
        /\ m.used < ResizeCount(m.count) /\ m.used < m.count
        /\ Reachable(t) => Reachable(m)
        /\ t.used = t.size => m.used = m.size
        /\ m.used = m.size \/ m = t
        /\ Reachable(t) => \A j \in Keys, w \in Values : Holds(m, j, w) <=> Holds(t, j, w)
    <2>1. CASE t.used < ResizeCount(t.count)
      <3>1. m = t
        BY <1>1, <2>1
      <3>2. t.used < t.count
        BY <1>0, <2>1, SoundLeavesRoom
      <3> QED
        BY <1>0, <2>1, <3>1, <3>2 DEF Sound
    <2>2. CASE ~(t.used < ResizeCount(t.count))
      <3>1. PICK n : n = IF t.count = 0 THEN 8 ELSE 2 * t.count
        OBVIOUS
      <3>2. n \in Nat /\ n # 0 /\ t.size < ResizeCount(n) /\ ResizeCount(n) \in Nat
                 /\ ResizeCount(n) < n
        <4>1. CASE t.count = 0
          <5>1. n = 8 /\ t.size = 0
            BY <1>0, <3>1, <4>1, Thresholds
          <5>2. ResizeCount(8) = 6
            BY Thresholds
          <5> QED
            BY <5>1, <5>2
        <4>2. CASE t.count # 0
          <5>1. n = 2 * t.count /\ n \in Nat /\ n # 0
            BY <1>0, <3>1, <4>2
          <5>2. ResizeCount(t.count) < ResizeCount(n)
            BY <1>0, <4>2, <5>1, Thresholds
          <5>3. ResizeCount(n) \in Nat /\ ResizeCount(n) < n
            BY <5>1, Thresholds
          <5> QED
            BY <1>0, <2>2, <5>1, <5>2, <5>3
        <4> QED
          BY <4>1, <4>2
      <3>3. m = Resize(t, n)
        BY <1>1, <2>2, <3>1
      <3>4. /\ Shaped(m) /\ Counted(m) /\ Reachable(m)
            /\ m.count = n /\ m.used = m.size /\ m.size <= t.size
            /\ Reachable(t) => \A j \in Keys, w \in Values : Holds(m, j, w) <=> Holds(t, j, w)
        BY <1>0, <3>2, <3>3, ResizeIsSound DEF Sound
      <3>5. m.size \in Nat
        BY <3>4 DEF Shaped
      <3> QED
        BY <1>0, <3>2, <3>4, <3>5
    <2> QED
      BY <2>1, <2>2
  <1>3. Shaped(u) /\ Counted(u) /\ u.count = m.count /\ u.used <= m.used + 1
    BY <1>1, <1>2, StoreIsCounted
  <1>4. Sound(u)
    <2>1. u.used \in Nat /\ ResizeCount(m.count) \in Nat
      BY <1>2, <1>3, Thresholds DEF Shaped
    <2> QED
      BY <1>2, <1>3, <2>1 DEF Sound
  <1>5. /\ SetIndex(u, k) \in Indices(u)
        /\ Exists(u, SetIndex(u, k)) /\ u.key[SetIndex(u, k)] = k
    BY <1>1, <1>2, StoreIsFoundAgain
  <1>6. ASSUME Reachable(t), t.used = t.size \/ ~HasKey(t, k)
        PROVE  Reachable(u) /\ Says(t, u, k, v, displace)
    <2>1. Reachable(m) /\ (m.used = m.size \/ ~HasKey(m, k))
      BY <1>2, <1>6
    <2>2. /\ Reachable(u)
          /\ \A j \in Keys, w \in Values :
                Holds(u, j, w) <=>
                    IF j # k THEN Holds(m, j, w)
                    ELSE IF HasKey(m, k) /\ ~displace THEN Holds(m, k, w)
                    ELSE w = v
      BY <1>1, <1>2, <2>1, StoreIsReachable
    <2>3. HasKey(m, k) <=> HasKey(t, k)
      BY <1>2, <1>6, HasKeyHolds DEF Sound
    <2> QED
      BY <1>2, <1>6, <2>2, <2>3 DEF Says
  <1> QED
    BY <1>4, <1>5, <1>6

\* Get: what it finds is the key, and what can be reached is found.
LEMMA GetIsSound ==
  ASSUME NEW t, Sound(t), NEW k \in Keys
  PROVE  /\ Get(t, k) \in 0..t.count
         /\ Found(t, k) => /\ Get(t, k) \in Indices(t) /\ Exists(t, Get(t, k))
                           /\ t.key[Get(t, k)] = k
         /\ Reachable(t) =>
               /\ Found(t, k) <=> HasKey(t, k)
               /\ \A i \in Indices(t) : Exists(t, i) /\ t.key[i] = k => Get(t, k) = i
  <1>0. t.count \in Nat /\ k # Empty /\ k # Erased /\ Shaped(t) /\ Counted(t)
    BY ReservedAssumption DEF Sound, Shaped
  <1>1. CASE t.count = 0
    <2>1. Indices(t) = {} /\ Get(t, k) = 0
      BY <1>1 DEF Indices, Get
    <2> QED
      BY <1>1, <2>1 DEF Found, HasKey
  <1>2. CASE t.count # 0
    <2>1. PICK e \in Indices(t) : IsEmpty(t, e)
      BY <1>0, <1>2, SoundLeavesRoom, OneIsEmpty
    <2>2. PICK s \in 0..t.count - 1, b \in Indices(t) :
             /\ b = Bucket(t, k, s)
             /\ IsEmpty(t, b) \/ t.key[b] = k
             /\ SteppedOver(t, k, s)
             /\ Get(t, k) = IF t.key[b] = k THEN b ELSE t.count
      BY <1>0, <2>1, GetStopsSomewhere
    <2>3. b \in 0..t.count - 1 /\ b \in Nat /\ b # t.count
      BY <1>0, <2>2 DEF Indices
    <2>4. Found(t, k) <=> t.key[b] = k
      BY <2>2, <2>3 DEF Found
    <2>5. t.key[b] = k => Exists(t, b)
      BY <1>0 DEF Exists
    <2>6. ASSUME Reachable(t), NEW i \in Indices(t), Exists(t, i), t.key[i] = k
          PROVE  i = b /\ t.key[b] = k
      <3>1. PICK r \in 0..t.count - 1 : Bucket(t, k, r) = i /\ SteppedOver(t, k, r)
        BY <2>6 DEF Reachable
      <3>2. r \in Int /\ s \in Int
        BY <1>0
      <3>3. ~(r < s)
        <4> SUFFICES ASSUME r < s PROVE FALSE
          OBVIOUS
        <4>1. r \in 0..s - 1
          BY <3>1, <3>2
        <4> QED
          BY <2>2, <2>6, <3>1, <4>1 DEF SteppedOver
      <3>4. ~(s < r)
        <4> SUFFICES ASSUME s < r PROVE FALSE
          OBVIOUS
        <4>1. s \in 0..r - 1
          BY <2>2, <3>2
        <4> QED
          BY <2>2, <3>1, <4>1 DEF SteppedOver
      <3>5. r = s
        BY <3>2, <3>3, <3>4
      <3> QED
        BY <2>2, <2>6, <3>1, <3>5
    <2>7. Get(t, k) \in 0..t.count
      BY <1>0, <2>2, <2>3
    <2> QED
      BY <2>2, <2>4, <2>5, <2>6, <2>7 DEF HasKey
  <1> QED
    BY <1>1, <1>2
-----------------------------------------------------------------------------
\* Making an entry a tombstone.
Buries(t, u, i) ==
    /\ IsTable(u) /\ u.count = t.count
    /\ u.key = [t.key EXCEPT ![i] = Erased] /\ u.value = [t.value EXCEPT ![i] = Dead]
    /\ u.size = t.size - 1 /\ u.used = t.used

\* The table stays sound, and what was behind the entry can still be reached.
LEMMA BuriesIsSound ==
  ASSUME NEW t, Sound(t), NEW i \in Indices(t), Exists(t, i), NEW u, Buries(t, u, i)
  PROVE  /\ Sound(u)
         /\ \A j \in Indices(t) : j # i =>
               u.key[j] = t.key[j] /\ u.value[j] = t.value[j]
         /\ Indices(u) = Indices(t) /\ u.key[i] = Erased /\ ~Exists(u, i)
         /\ Reachable(t) =>
               /\ Reachable(u)
               /\ \A k \in Keys, v \in Values :
                     Holds(u, k, v) <=> Holds(t, k, v) /\ k # t.key[i]
  <1>0. Shaped(t) /\ Counted(t) /\ Empty # Erased
    BY ReservedAssumption DEF Sound
  <1>1. Indices(u) = Indices(t) /\ \A j, s : Bucket(u, j, s) = Bucket(t, j, s)
    BY DEF Indices, Buries, Bucket
  <1>2. /\ u.key \in [Indices(t) -> Keys \cup {Empty, Erased}]
        /\ u.value \in [Indices(t) -> Values \cup {Dead}]
        /\ u.key[i] = Erased /\ u.value[i] = Dead
        /\ \A j \in Indices(t) : j # i => u.key[j] = t.key[j] /\ u.value[j] = t.value[j]
    BY <1>0 DEF Buries, Shaped
  <1>3. /\ \A j \in Indices(t) : Exists(u, j) <=> Exists(t, j) /\ j # i
        /\ \A j \in Indices(t) : IsEmpty(u, j) <=> IsEmpty(t, j)
    BY <1>0, <1>2 DEF Exists, IsEmpty
  <1>4. Stored(u) = Stored(t) \ {i} /\ i \in Stored(t) /\ Taken(u) = Taken(t)
    BY <1>1, <1>3 DEF Stored, Taken
  <1>5. Cardinality(Stored(u)) = Cardinality(Stored(t)) - 1
    <2>1. IsFiniteSet(Stored(t))
      BY <1>0, BucketsAreFinite
    <2> QED
      BY <1>4, <2>1, FS_RemoveElement
  <1>6. Counted(u)
    BY <1>0, <1>4, <1>5 DEF Counted, Buries
  <1>7. u.size \in Nat
    <2>1. IsFiniteSet(Stored(u))
      BY <1>0, <1>4, BucketsAreFinite, FS_RemoveElement
    <2> QED
      BY <1>6, <2>1, FS_CardinalityType DEF Counted
  <1>8. Shaped(u)
    BY <1>0, <1>1, <1>2, <1>3, <1>7 DEF Shaped, Buries
  <1>9. Sound(u)
    BY <1>6, <1>8 DEF Sound, Buries
  <1>10. ASSUME Reachable(t) PROVE Reachable(u)
    <2> SUFFICES ASSUME NEW b \in Indices(u), Exists(u, b)
                 PROVE  \E s \in 0..u.count - 1 :
                           Bucket(u, u.key[b], s) = b /\ SteppedOver(u, u.key[b], s)
      BY DEF Reachable
    <2>1. b \in Indices(t) /\ Exists(t, b) /\ b # i /\ u.key[b] = t.key[b]
      BY <1>1, <1>2, <1>3
    <2>2. t.key[b] \in Keys /\ t.key[b] # Erased /\ t.count \in Nat /\ t.count # 0
      BY <1>0, <2>1, StoredKeys, ReservedAssumption DEF Shaped, Indices
    <2>3. PICK s \in 0..t.count - 1 :
             Bucket(t, t.key[b], s) = b /\ SteppedOver(t, t.key[b], s)
      BY <1>10, <2>1 DEF Reachable
    <2>4. ASSUME NEW r \in 0..s - 1, NEW c, c = Bucket(t, t.key[b], r)
          PROVE ~IsEmpty(u, c) /\ u.key[c] # t.key[b]
      <3>1. r \in Nat
        BY <2>2, <2>3
      <3>2. c \in Indices(t)
        BY <1>0, <2>2, <2>4, <3>1, EveryBucketProbed
      <3>3. ~IsEmpty(t, c) /\ t.key[c] # t.key[b]
        BY <2>3, <2>4 DEF SteppedOver
      <3> QED
        BY <1>2, <1>3, <2>2, <3>2, <3>3
    <2> QED
      BY <1>1, <2>1, <2>3, <2>4 DEF SteppedOver, Buries
  <1>11. ASSUME Reachable(t), NEW k \in Keys, NEW v \in Values
         PROVE  Holds(u, k, v) <=> Holds(t, k, v) /\ k # t.key[i]
    <2>1. \A j \in Indices(t) : Exists(t, j) /\ t.key[j] = t.key[i] => j = i
      BY <1>0, <1>11, KeysDiffer
    <2> QED
      BY <1>1, <1>2, <1>3, <2>1 DEF Holds
  <1> QED
    BY <1>1, <1>2, <1>3, <1>9, <1>10, <1>11

\* Delete: where no entry is nothing happens; a table that shrinks has room for
\* those that are left.
LEMMA DeleteIsSound ==
  ASSUME NEW t, Sound(t), NEW i \in 0..t.count, NEW u, u = Delete(t, i)
  PROVE  /\ Sound(u)
         /\ i \notin Indices(t) \/ ~Exists(t, i) => u = t
         /\ i \in Indices(t) /\ Exists(t, i) /\ u.count = t.count => Buries(t, u, i)
         /\ Reachable(t) =>
               /\ Reachable(u)
               /\ i \in Indices(t) /\ Exists(t, i) =>
                     \A k \in Keys, v \in Values :
                        Holds(u, k, v) <=> Holds(t, k, v) /\ k # t.key[i]
  <1>0. /\ t.count \in Nat /\ t.size \in Nat /\ t.used \in Nat
        /\ Shaped(t) /\ Counted(t)
    BY DEF Sound, Shaped
  <1>1. CASE i >= t.count \/ ~Exists(t, i)
    <2>1. i \notin Indices(t) \/ ~Exists(t, i)
      BY <1>0, <1>1 DEF Indices
    <2>2. u = t
      BY <1>1 DEF Delete
    <2> QED
      BY <2>1, <2>2
  <1>2. CASE ~(i >= t.count \/ ~Exists(t, i))
    <2>1. i \in Indices(t) /\ Exists(t, i)
      BY <1>0, <1>2 DEF Indices
    <2>2. PICK d : d = [t EXCEPT !.key[i] = Erased, !.value[i] = Dead, !.size = @ - 1]
      OBVIOUS
    <2>3. u = IF d.size < ShrinkCount(t.count) /\ t.count > 8
              THEN Resize(d, t.count \div 2) ELSE d
      BY <1>2, <2>2 DEF Delete
    <2>4. Buries(t, d, i)
      <3>1. PICK c, f, g, n, m : t = [count |-> c, key |-> f, value |-> g, size |-> n, used |-> m]
        BY <1>0 DEF Shaped, IsTable
      <3>2. t.count = c /\ t.key = f /\ t.value = g /\ t.size = n /\ t.used = m
        BY <3>1
      <3>3. d = [count |-> c, key |-> [f EXCEPT ![i] = Erased],
                 value |-> [g EXCEPT ![i] = Dead], size |-> n - 1, used |-> m]
        BY <2>2, <3>1
      <3>4. /\ d.count = c /\ d.key = [f EXCEPT ![i] = Erased]
            /\ d.value = [g EXCEPT ![i] = Dead] /\ d.size = n - 1 /\ d.used = m
        BY <3>3
      <3> QED
        BY <3>2, <3>3, <3>4, Zenon DEF Buries, IsTable
    <2>5. /\ Sound(d)
          /\ Reachable(t) =>
                /\ Reachable(d)
                /\ \A k \in Keys, v \in Values :
                      Holds(d, k, v) <=> Holds(t, k, v) /\ k # t.key[i]
      BY <2>1, <2>4, BuriesIsSound
    <2>6. CASE d.size < ShrinkCount(t.count) /\ t.count > 8
      <3>1. PICK n : n = t.count \div 2
        OBVIOUS
      <3>2. u = Resize(d, n)
        BY <2>3, <2>6, <3>1
      <3>3. d.size \in Nat /\ Shaped(d) /\ Counted(d)
        BY <2>5 DEF Sound, Shaped
      <3>4. /\ n \in Nat /\ n # t.count /\ ShrinkCount(t.count) \in Nat
            /\ ShrinkCount(t.count) <= ResizeCount(n) /\ ResizeCount(n) \in Nat
        BY <1>0, <2>6, <3>1, Thresholds
      <3>5. d.size <= ResizeCount(n)
        BY <2>6, <3>3, <3>4
      <3>6. /\ Shaped(u) /\ Counted(u) /\ Reachable(u)
            /\ u.count = n /\ u.used = u.size /\ u.size <= d.size
            /\ Reachable(d) => \A k \in Keys, v \in Values : Holds(u, k, v) <=> Holds(d, k, v)
        BY <3>2, <3>3, <3>4, <3>5, ResizeIsSound
      <3>7. Sound(u)
        <4>1. u.size \in Nat
          BY <3>6 DEF Shaped
        <4> QED
          BY <3>3, <3>4, <3>5, <3>6, <4>1 DEF Sound
      <3> QED
        BY <2>1, <2>5, <3>4, <3>6, <3>7
    <2>7. CASE ~(d.size < ShrinkCount(t.count) /\ t.count > 8)
      <3>1. u = d
        BY <2>3, <2>7
      <3> QED
        BY <2>1, <2>4, <2>5, <3>1
    <2> QED
      BY <2>6, <2>7
  <1> QED
    BY <1>1, <1>2

\* Assigning a value to an entry, as operator[] does.
LEMMA AssignIsSound ==
  ASSUME NEW t, Sound(t), NEW i \in Indices(t), Exists(t, i), NEW v \in Values,
         NEW u, u = [t EXCEPT !.value[i] = v]
  PROVE  /\ Sound(u)
         /\ Reachable(t) =>
               /\ Reachable(u)
               /\ \A k \in Keys, w \in Values :
                     Holds(u, k, w) <=> IF k = t.key[i] THEN w = v ELSE Holds(t, k, w)
  <1>0. Shaped(t) /\ Counted(t)
    BY DEF Sound
  <1>1. PICK c, f, g, n, m : t = [count |-> c, key |-> f, value |-> g, size |-> n, used |-> m]
    BY <1>0 DEF Shaped, IsTable
  <1>2. t.count = c /\ t.key = f /\ t.value = g /\ t.size = n /\ t.used = m
    BY <1>1
  <1>3. u = [count |-> c, key |-> f, value |-> [g EXCEPT ![i] = v], size |-> n, used |-> m]
    BY <1>1
  <1>4. /\ u.count = t.count /\ u.key = t.key /\ u.value = [t.value EXCEPT ![i] = v]
        /\ u.size = t.size /\ u.used = t.used
    BY <1>2, <1>3
  <1>5. IsTable(u)
    BY <1>2, <1>3, <1>4, Zenon DEF IsTable
  <1>6. PICK displace : displace = TRUE
    OBVIOUS
  <1>7. Overwrites(t, u, i, v, displace)
    BY <1>4, <1>6 DEF Overwrites
  <1>8. /\ Shaped(u) /\ Counted(u) /\ Indices(u) = Indices(t)
        /\ \A j \in Indices(t) : Exists(u, j) <=> Exists(t, j)
        /\ \A j \in Indices(t) : IsEmpty(u, j) <=> IsEmpty(t, j)
    BY <1>0, <1>4, <1>5, <1>7, OverwritesIsCounted, ZenonT(40)
  <1>9. Sound(u)
    BY <1>4, <1>8 DEF Sound
  <1>10. ASSUME Reachable(t) PROVE Reachable(u)
    <2>1. \A b : (Exists(u, b) <=> Exists(t, b)) /\ (IsEmpty(u, b) <=> IsEmpty(t, b))
      BY <1>4 DEF Exists, IsEmpty
    <2>2. \A j, s : Bucket(u, j, s) = Bucket(t, j, s)
      BY <1>4 DEF Bucket
    <2> QED
      BY <1>4, <1>8, <1>10, <2>1, <2>2 DEF Reachable, SteppedOver
  <1>11. ASSUME Reachable(t), NEW k \in Keys, NEW w \in Values
         PROVE  Holds(u, k, w) <=> IF k = t.key[i] THEN w = v ELSE Holds(t, k, w)
    <2>1. \A j \in Indices(t) : Exists(t, j) /\ t.key[j] = t.key[i] => j = i
      BY <1>0, <1>11, KeysDiffer
    <2>2. u.value[i] = v /\ \A j \in Indices(t) : j # i => u.value[j] = t.value[j]
      BY <1>0, <1>4 DEF Shaped
    <2> QED
      BY <1>4, <1>8, <2>1, <2>2 DEF Holds
  <1> QED
    BY <1>9, <1>10, <1>11

\* A copy is as the original.
LEMMA CopyIsSame ==
  ASSUME NEW t, Sound(t), NEW from, Sound(from)
  PROVE  Copy(t, from) = from
  <1>1. CASE t.count # from.count
    BY <1>1 DEF Copy
  <1>2. CASE t.count = from.count
    <2>1. PICK c, f, g, n, m :
             from = [count |-> c, key |-> f, value |-> g, size |-> n, used |-> m]
      BY DEF Sound, Shaped, IsTable
    <2>2. from.count = c /\ from.key = f /\ from.value = g /\ from.size = n /\ from.used = m
      BY <2>1
    <2>3. PICK h : h = [i \in 0..t.count - 1 |->
              IF t.key[i] = from.key[i] /\ ~Exists(t, i) THEN t.value[i] ELSE from.value[i]]
      OBVIOUS
    <2>4. Copy(t, from) = [from EXCEPT !.value = h]
      BY <1>2, <2>3 DEF Copy
    <2>5. ASSUME NEW i \in Indices(t), t.key[i] = from.key[i], ~Exists(t, i)
          PROVE  t.value[i] = from.value[i]
      <3>1. t.value[i] = Dead
        BY <2>5 DEF Sound, Shaped
      <3>2. i \in Indices(from) /\ ~Exists(from, i)
        BY <1>2, <2>5 DEF Indices, Exists
      <3>3. from.value[i] = Dead
        BY <3>2 DEF Sound, Shaped
      <3> QED
        BY <3>1, <3>3
    <2>6. h = [i \in Indices(t) |-> from.value[i]]
      BY <2>3, <2>5 DEF Indices
    <2>7. from.value = [i \in Indices(t) |-> from.value[i]]
      BY <1>2 DEF Sound, Shaped, Indices
    <2>8. h = g
      BY <2>2, <2>6, <2>7
    <2> QED
      BY <2>1, <2>4, <2>8
  <1> QED
    BY <1>1, <1>2
-----------------------------------------------------------------------------
\* The inductive invariant.  An iterator has entries before it that it has met,
\* and what it has not met of those that it was to meet is behind it.
AllSound == table = [m \in Maps |-> table[m]] /\ \A m \in Maps : Sound(table[m])

Behind(t, i) == {j \in Stored(t) : j > i}

Walking ==
    /\ iter = [map |-> iter.map, at |-> iter.at] /\ iter.at \in Nat
    /\ walk = [whole |-> walk.whole, met |-> walk.met, resized |-> walk.resized]
    /\ iter # NoIterator =>
          /\ iter.map \in Maps
          /\ ~walk.resized =>
                /\ iter.at <= table[iter.map].count
                /\ walk.whole = walk.met \cup {table[iter.map].key[j] :
                                                  j \in Behind(table[iter.map], iter.at)}

IInv == client \in Clients /\ AllSound /\ Walking

\* Where all clients are careful every entry can be reached.
Careful == \A c \in Clients : c.careful

AllReachable == \A m \in Maps : Reachable(table[m])

\* What a client may call its maps' operations with.
LEMMA ClientHas ==
  ASSUME client \in Clients
  PROVE  /\ client.maps \subseteq Maps /\ client.keys \subseteq Keys
         /\ client.values \subseteq Values /\ client.counts \subseteq Nat
  BY ClientAssumption

\* The iterator stops at the first entry, or at the end.
LEMMA FromOnStops ==
  ASSUME NEW t, Shaped(t), NEW i \in 0..t.count
  PROVE  /\ FromOn(t, i) \in i..t.count
         /\ FromOn(t, i) = t.count \/ Exists(t, FromOn(t, i))
         /\ \A j \in Stored(t) : j >= i => j >= FromOn(t, i)
  <1>1. t.count \in Nat
    BY DEF Shaped
  <1> DEFINE S == {j \in i..t.count : j = t.count \/ Exists(t, j)}
  <1>2. S \in SUBSET Nat /\ t.count \in S
    BY <1>1
  <1>3. First(S) \in S /\ \A y \in S : First(S) <= y
    BY <1>2, FirstIsLeast
  <1>4. FromOn(t, i) = First(S)
    BY DEF FromOn
  <1>5. ASSUME NEW j \in Stored(t), j >= i PROVE j \in S
    BY <1>1, <1>5 DEF Stored, Indices
  <1>6. First(S) \in Int /\ \A j \in Stored(t) : j \in Int
    BY <1>1, <1>2, <1>3 DEF Stored, Indices
  <1> HIDE DEF S
  <1> QED
    BY <1>3, <1>4, <1>5, <1>6 DEF S

\* So the entries from there on are the one that it stops at and those behind.
LEMMA FromOnMeets ==
  ASSUME NEW t, Shaped(t), NEW i \in 0..t.count, NEW f, f = FromOn(t, i)
  PROVE  {t.key[j] : j \in {b \in Stored(t) : b >= i}} =
             KeyAt(t, f) \cup {t.key[j] : j \in Behind(t, f)}
  <1>1. /\ f \in i..t.count /\ (f = t.count \/ Exists(t, f))
        /\ \A j \in Stored(t) : j >= i => j >= f
    BY FromOnStops
  <1>2. t.count \in Nat /\ \A j \in Stored(t) : j \in 0..t.count - 1 /\ Exists(t, j)
    BY DEF Shaped, Stored, Indices
  <1>3. f < t.count /\ Exists(t, f) => f \in Stored(t)
    BY <1>1, <1>2 DEF Stored, Indices
  <1>4. CASE f < t.count /\ Exists(t, f)
    <2>1. {b \in Stored(t) : b >= i} = {f} \cup Behind(t, f)
      BY <1>1, <1>2, <1>3, <1>4 DEF Behind
    <2>2. KeyAt(t, f) = {t.key[f]}
      BY <1>4 DEF KeyAt
    <2> QED
      BY <2>1, <2>2
  <1>5. CASE ~(f < t.count /\ Exists(t, f))
    <2>1. f = t.count
      BY <1>1, <1>2, <1>5
    <2>2. {b \in Stored(t) : b >= i} = Behind(t, f)
      BY <1>1, <1>2, <2>1 DEF Behind
    <2>3. KeyAt(t, f) = {}
      BY <1>5 DEF KeyAt
    <2> QED
      BY <2>2, <2>3
  <1> QED
    BY <1>4, <1>5

\* At first no map has anything in it.
LEMMA InitIInv == Init => IInv /\ AllReachable
  <1> SUFFICES ASSUME Init PROVE IInv /\ AllReachable
    OBVIOUS
  <1>1. PICK t : t = Fresh(0)
    OBVIOUS
  <1>2. Sound(t) /\ \A i \in Indices(t) : ~Exists(t, i)
    BY <1>1, FreshIsSound
  <1>3. Reachable(t)
    BY <1>2 DEF Reachable
  <1>4. table = [m \in Maps |-> t]
    BY <1>1 DEF Init
  <1>5. AllSound /\ AllReachable
    BY <1>2, <1>3, <1>4 DEF AllSound, AllReachable
  <1>6. Walking
    BY DEF Init, Walking, NoIterator, NoWalk
  <1> QED
    BY <1>5, <1>6 DEF Init, IInv

\* A call that leaves sound tables keeps the invariant.
LEMMA CallKeeps ==
  ASSUME IInv, NEW c, NEW t, Returns(t, c),
         t = [m \in Maps |-> t[m]], \A m \in Maps : Sound(t[m])
  PROVE  IInv'
  <1>1. AllSound'
    BY DEF Returns, AllSound
  <1>2. Walking'
    BY DEF Returns, IInv, Walking
  <1> QED
    BY <1>1, <1>2 DEF IInv, Returns

\* One that changes one of them.
LEMMA OneCallKeeps ==
  ASSUME IInv, NEW c, NEW m \in Maps, NEW u, Sound(u), Becomes(m, u, c)
  PROVE  IInv' /\ (AllReachable /\ Reachable(u) => AllReachable')
  <1> DEFINE t == [table EXCEPT ![m] = u]
  <1>1. /\ t = [n \in Maps |-> t[n]]
        /\ \A n \in Maps : t[n] = IF n = m THEN u ELSE table[n]
    BY DEF IInv, AllSound
  <1>2. Returns(t, c)
    BY DEF Becomes
  <1> HIDE DEF t
  <1>3. \A n \in Maps : Sound(t[n])
    BY <1>1 DEF IInv, AllSound
  <1>4. table' = t
    BY <1>2 DEF Returns
  <1> QED
    BY <1>1, <1>2, <1>3, <1>4, CallKeeps DEF AllReachable
-----------------------------------------------------------------------------
\* What a careful client inserts is not hidden behind a tombstone.
LEMMA InsertsVisible ==
  ASSUME IInv, NEW m \in Maps, NEW k \in Keys, Inserts(m, k), client.careful,
         Reachable(table[m])
  PROVE  table[m].used = table[m].size \/ ~HasKey(table[m], k)
  BY GetIsSound DEF Inserts, IInv, AllSound

\* The table that operator[] leaves.
LEMMA SubscriptIsSound ==
  ASSUME NEW t, Sound(t), NEW k \in Keys, NEW d \in Values, NEW v \in Values,
         NEW keep, NEW s, s = Set(t, k, d, keep),
         NEW i, i = SetIndex(s, k), NEW u, u = [s EXCEPT !.value[i] = v]
  PROVE  /\ Sound(u)
         /\ Reachable(t) /\ (t.used = t.size \/ ~HasKey(t, k)) =>
               /\ Reachable(u)
               /\ \A j \in Keys, w \in Values :
                     Holds(u, j, w) <=> IF j = k THEN w = v ELSE Holds(t, j, w)
  <1>1. Sound(s) /\ i \in Indices(s) /\ Exists(s, i) /\ s.key[i] = k
    BY SetIsSound
  <1>2. Sound(u)
    BY <1>1, AssignIsSound
  <1>3. ASSUME Reachable(t), t.used = t.size \/ ~HasKey(t, k)
        PROVE  /\ Reachable(u)
               /\ \A j \in Keys, w \in Values :
                     Holds(u, j, w) <=> IF j = k THEN w = v ELSE Holds(t, j, w)
    <2>1. Reachable(s) /\ Says(t, s, k, d, keep)
      BY <1>3, SetIsSound
    <2>2. /\ Reachable(u)
          /\ \A j \in Keys, w \in Values :
                Holds(u, j, w) <=> IF j = s.key[i] THEN w = v ELSE Holds(s, j, w)
      BY <1>1, <2>1, AssignIsSound
    <2> QED
      BY <1>1, <2>1, <2>2 DEF Says
  <1> QED
    BY <1>2, <1>3

\* erase through the iterator leaves what is behind it, unless the table shrinks.
LEMMA EraseHereKeeps ==
  ASSUME IInv, EraseHere
  PROVE  /\ IInv'
         /\ AllReachable => AllReachable'
  <1>1. PICK m, i, t, u : m = iter.map /\ i = iter.at /\ t = table[m] /\ u = Delete(t, i)
    OBVIOUS
  <1>2. /\ iter # NoIterator /\ i < t.count
        /\ \E k \in KeyAt(t, i) : call' = <<"erase", m, k>>
        /\ table' = [table EXCEPT ![m] = u]
        /\ walk' = [walk EXCEPT !.resized = @ \/ u.count # t.count]
        /\ client' = client /\ iter' = iter
    BY <1>1 DEF EraseHere
  <1>3. m \in Maps /\ Sound(t) /\ i \in Nat /\ t.count \in Nat
    BY <1>1, <1>2 DEF IInv, Walking, AllSound, Sound, Shaped
  <1>4. i \in 0..t.count /\ i \in Indices(t) /\ Exists(t, i)
    BY <1>2, <1>3 DEF KeyAt, Indices
  <1>5. /\ Sound(u)
        /\ u.count = t.count => Buries(t, u, i)
        /\ Reachable(t) => Reachable(u)
    BY <1>1, <1>3, <1>4, DeleteIsSound
  <1>6. /\ table' = [n \in Maps |-> table'[n]]
        /\ \A n \in Maps : table'[n] = IF n = m THEN u ELSE table[n]
    BY <1>2, <1>3 DEF IInv, AllSound
  <1>7. AllSound' /\ (AllReachable => AllReachable')
    BY <1>1, <1>3, <1>5, <1>6 DEF AllSound, AllReachable, IInv
  <1>8. PICK whole, met, resized :
           walk = [whole |-> whole, met |-> met, resized |-> resized]
    BY DEF IInv, Walking
  <1>9. walk' = [whole |-> whole, met |-> met, resized |-> resized \/ u.count # t.count]
    BY <1>2, <1>8
  <1>10. /\ walk'.whole = walk.whole /\ walk'.met = walk.met
         /\ ~walk'.resized => ~walk.resized /\ u.count = t.count
    BY <1>8, <1>9
  <1>11. ASSUME ~walk'.resized
         PROVE  /\ i <= u.count
                /\ walk'.whole = walk'.met \cup {u.key[j] : j \in Behind(u, i)}
    <2>1. Buries(t, u, i) /\ u.count = t.count
      BY <1>5, <1>10, <1>11
    <2>2. /\ Indices(u) = Indices(t) /\ ~Exists(u, i)
          /\ \A j \in Indices(t) : j # i => u.key[j] = t.key[j]
      BY <1>3, <1>4, <2>1, BuriesIsSound
    <2>3. Behind(u, i) = Behind(t, i) /\ \A j \in Behind(t, i) : u.key[j] = t.key[j]
      <3>1. \A j \in Indices(t) : j > i => j # i
        BY <1>3 DEF Indices
      <3>2. \A j \in Indices(t) : j > i => (Exists(u, j) <=> Exists(t, j))
        BY <2>2, <3>1 DEF Exists
      <3> QED
        BY <2>2, <3>1, <3>2 DEF Behind, Stored
    <2>4. walk.whole = walk.met \cup {t.key[j] : j \in Behind(t, i)} /\ i <= t.count
      BY <1>1, <1>2, <1>10, <1>11 DEF IInv, Walking
    <2> QED
      BY <1>10, <2>1, <2>3, <2>4
  <1>12. Walking'
    <2>1. iter' = [map |-> iter'.map, at |-> iter'.at] /\ iter'.at \in Nat
      BY <1>2 DEF IInv, Walking
    <2>2. walk' = [whole |-> walk'.whole, met |-> walk'.met, resized |-> walk'.resized]
      BY <1>9
    <2>3. iter'.map = m /\ iter'.at = i /\ table'[m] = u
      BY <1>1, <1>2, <1>3, <1>6
    <2> QED
      BY <1>3, <1>11, <2>1, <2>2, <2>3 DEF Walking
  <1> QED
    BY <1>2, <1>7, <1>12 DEF IInv

\* begin and ++ leave the tables alone and meet the next entry.
LEMMA BeginKeeps ==
  ASSUME IInv, NEW m \in Maps, Begin(m)
  PROVE  IInv'
  <1>1. PICK t, i : t = table[m] /\ i = FromOn(t, 0)
    OBVIOUS
  <1>2. PICK whole : whole = {t.key[j] : j \in {b \in 0..t.count - 1 : Exists(t, b)}}
    OBVIOUS
  <1>3. /\ iter' = [map |-> m, at |-> i]
        /\ walk' = [whole |-> whole, met |-> KeyAt(t, i), resized |-> FALSE]
        /\ client' = client /\ table' = table
    BY <1>1, <1>2 DEF Begin
  <1>4. Sound(t) /\ Shaped(t) /\ t.count \in Nat
    BY <1>1 DEF IInv, AllSound, Sound, Shaped
  <1>5. i \in 0..t.count
    BY <1>1, <1>4, FromOnStops
  <1>6. whole = KeyAt(t, i) \cup {t.key[j] : j \in Behind(t, i)}
    <2>1. {b \in 0..t.count - 1 : Exists(t, b)} = {b \in Stored(t) : b >= 0}
      BY <1>4 DEF Stored, Indices
    <2>2. 0 \in 0..t.count
      BY <1>4
    <2> QED
      BY <1>1, <1>2, <1>4, <2>1, <2>2, FromOnMeets
  <1>7. iter'.map = m /\ iter'.at = i /\ walk'.whole = whole /\ walk'.met = KeyAt(t, i)
    BY <1>3
  <1>8. Walking'
    <2>1. iter' = [map |-> iter'.map, at |-> iter'.at] /\ iter'.at \in Nat
      BY <1>3, <1>4, <1>5
    <2>2. walk' = [whole |-> walk'.whole, met |-> walk'.met, resized |-> walk'.resized]
      BY <1>3
    <2>3. i <= t.count
      BY <1>4, <1>5
    <2> QED
      BY <1>1, <1>3, <1>6, <1>7, <2>1, <2>2, <2>3 DEF Walking
  <1>9. AllSound'
    BY <1>3 DEF IInv, AllSound
  <1> QED
    BY <1>3, <1>8, <1>9 DEF IInv

\* An increment meets the next entry, and no other lies between.
LEMMA IncrementKeeps ==
  ASSUME IInv, Increment
  PROVE  IInv'
  <1>1. PICK m, t, f, i : m = iter.map /\ t = table[m] /\ f = iter.at /\ i = FromOn(t, f + 1)
    OBVIOUS
  <1>2. /\ iter # NoIterator /\ f < t.count
        /\ iter' = [iter EXCEPT !.at = i]
        /\ walk' = [walk EXCEPT !.met = @ \cup KeyAt(t, i)]
        /\ client' = client /\ table' = table
    BY <1>1 DEF Increment
  <1>3. m \in Maps /\ Sound(t) /\ Shaped(t) /\ f \in Nat /\ t.count \in Nat
    BY <1>1, <1>2 DEF IInv, Walking, AllSound, Sound, Shaped
  <1>4. f + 1 \in 0..t.count
    BY <1>2, <1>3
  <1>5. i \in 0..t.count
    BY <1>1, <1>3, <1>4, FromOnStops
  <1>6. {t.key[j] : j \in Behind(t, f)} = KeyAt(t, i) \cup {t.key[j] : j \in Behind(t, i)}
    <2>1. PICK n : n = f + 1
      OBVIOUS
    <2>2. n \in 0..t.count /\ i = FromOn(t, n)
      BY <1>1, <1>4, <2>1
    <2>3. Behind(t, f) = {b \in Stored(t) : b >= n}
      BY <1>3, <2>1 DEF Behind, Stored, Indices
    <2> QED
      BY <1>3, <2>2, <2>3, FromOnMeets
  <1>7. iter' = [map |-> m, at |-> i]
    BY <1>1, <1>2 DEF IInv, Walking
  <1>8. PICK whole, met, resized :
           walk = [whole |-> whole, met |-> met, resized |-> resized]
    BY DEF IInv, Walking
  <1>9. walk' = [whole |-> whole, met |-> met \cup KeyAt(t, i), resized |-> resized]
    BY <1>2, <1>8
  <1>10. Walking'
    <2>1. /\ iter'.map = m /\ iter'.at = i
          /\ iter' = [map |-> iter'.map, at |-> iter'.at] /\ iter'.at \in Nat
      BY <1>3, <1>5, <1>7
    <2>2. walk' = [whole |-> walk'.whole, met |-> walk'.met, resized |-> walk'.resized]
      BY <1>9
    <2>3. i <= t.count
      BY <1>3, <1>5
    <2>4. walk'.whole = walk.whole /\ walk'.met = walk.met \cup KeyAt(t, i)
              /\ walk'.resized = walk.resized
      BY <1>8, <1>9
    <2>5. ~walk.resized => walk.whole = walk.met \cup {t.key[j] : j \in Behind(t, f)}
      BY <1>1, <1>2 DEF IInv, Walking
    <2>6. ~walk'.resized => walk'.whole = walk'.met \cup {t.key[j] : j \in Behind(t, i)}
      BY <1>6, <2>4, <2>5
    <2> QED
      BY <1>1, <1>2, <1>3, <2>1, <2>2, <2>3, <2>6 DEF Walking
  <1>11. AllSound'
    BY <1>2 DEF IInv, AllSound
  <1> QED
    BY <1>2, <1>10, <1>11 DEF IInv
-----------------------------------------------------------------------------
\* The function that a map holds is what its table says.
LEMMA ContentsAre ==
  ASSUME NEW t, Sound(t), Reachable(t)
  PROVE  /\ Contents(t) = [k \in DOMAIN Contents(t) |-> Contents(t)[k]]
         /\ DOMAIN Contents(t) \subseteq Keys
         /\ \A k \in DOMAIN Contents(t) : Contents(t)[k] \in Values
         /\ \A k \in Keys : k \in DOMAIN Contents(t) <=> HasKey(t, k)
         /\ \A k \in Keys, v \in Values :
               Holds(t, k, v) <=> k \in DOMAIN Contents(t) /\ Contents(t)[k] = v
  <1>1. /\ DOMAIN Contents(t) = {k \in Keys : Found(t, k)}
        /\ Contents(t) = [k \in DOMAIN Contents(t) |-> Contents(t)[k]]
        /\ \A k \in DOMAIN Contents(t) : Contents(t)[k] = t.value[Get(t, k)]
    BY DEF Contents
  <1> HIDE DEF Contents
  <1>2. Shaped(t)
    BY DEF Sound
  <1>3. ASSUME NEW k \in Keys
        PROVE  /\ Found(t, k) <=> HasKey(t, k)
               /\ Found(t, k) => /\ Get(t, k) \in Indices(t) /\ Exists(t, Get(t, k))
                                 /\ t.key[Get(t, k)] = k
                                 /\ t.value[Get(t, k)] \in Values
               /\ \A i \in Indices(t) : Exists(t, i) /\ t.key[i] = k => Get(t, k) = i
    BY <1>2, GetIsSound, StoredKeys
  <1>4. ASSUME NEW k \in Keys, NEW v \in Values
        PROVE  Holds(t, k, v) <=> Found(t, k) /\ t.value[Get(t, k)] = v
    BY <1>3 DEF Holds, HasKey
  <1> QED
    BY <1>1, <1>3, <1>4

\* A function that says the same is the same.
LEMMA ContentsEqual ==
  ASSUME NEW t, Sound(t), Reachable(t), NEW D \in SUBSET Keys, NEW f,
         f = [k \in D |-> f[k]], \A k \in D : f[k] \in Values,
         \A k \in Keys, v \in Values : Holds(t, k, v) <=> k \in D /\ f[k] = v
  PROVE  Contents(t) = f
  <1>1. PICK g : g = Contents(t)
    OBVIOUS
  <1>2. /\ g = [k \in DOMAIN g |-> g[k]]
        /\ DOMAIN g \subseteq Keys /\ \A k \in DOMAIN g : g[k] \in Values
        /\ \A k \in Keys, v \in Values : Holds(t, k, v) <=> k \in DOMAIN g /\ g[k] = v
    BY <1>1, ContentsAre
  <1>3. ASSUME NEW k \in D PROVE k \in DOMAIN g /\ g[k] = f[k]
    BY <1>2
  <1>4. ASSUME NEW k \in DOMAIN g PROVE k \in D
    BY <1>2
  <1>5. DOMAIN g = D
    BY <1>3, <1>4
  <1>6. g = f
    BY <1>2, <1>3, <1>5
  <1> QED
    BY <1>1, <1>6

\* A table without entries holds the function without a key.
LEMMA FreshIsNowhere ==
  ASSUME NEW n \in Nat, NEW t, t = Fresh(n)
  PROVE  Sound(t) /\ Reachable(t) /\ Contents(t) = Abstract!Nowhere
  <1>1. Sound(t) /\ \A i \in Indices(t) : ~Exists(t, i)
    BY FreshIsSound
  <1>2. Reachable(t) /\ \A k, v : ~Holds(t, k, v)
    BY <1>1 DEF Reachable, Holds
  <1>3. PICK f : f = Abstract!Nowhere
    OBVIOUS
  <1>4. f = [k \in {} |-> f[k]] /\ \A k \in {} : f[k] \in Values
    BY <1>3 DEF Abstract!Nowhere
  <1>5. {} \in SUBSET Keys
    OBVIOUS
  <1>6. Contents(t) = f
    BY <1>1, <1>2, <1>4, <1>5, ContentsEqual
  <1> QED
    BY <1>1, <1>2, <1>3, <1>6

\* The functions that the maps hold, and what they become.
Functions == [m \in Maps |-> Contents(table[m])]

\* A call that changes one map's table changes one function.
LEMMA OneFunctionChanges ==
  ASSUME IInv, NEW c, NEW m \in Maps, NEW u, Becomes(m, u, c)
  PROVE  Functions' = [Functions EXCEPT ![m] = Contents(u)] /\ call' = c
  <1>1. \A n \in Maps : table'[n] = IF n = m THEN u ELSE table[n]
    BY DEF Becomes, Returns, IInv, AllSound
  <1>2. Functions' = [n \in Maps |-> Contents(table'[n])]
    BY DEF Functions, Contents, Found, Get, GetStops, Bucket, Exists, IsEmpty, First
  <1> HIDE DEF Contents
  <1>3. Functions' = [n \in Maps |-> IF n = m THEN Contents(u) ELSE Contents(table[n])]
    BY <1>1, <1>2
  <1>4. call' = c
    BY DEF Becomes, Returns
  <1> QED
    BY <1>3, <1>4 DEF Functions
-----------------------------------------------------------------------------
\* Each call keeps the invariant.  If the client is careful and every entry can
\* be reached it also keeps that, and does to the functions what it should.
LEMMA ConstructKeeps ==
  ASSUME IInv, NEW m \in Maps, NEW n \in Nat, Construct(m, n)
  PROVE  /\ IInv'
         /\ AllReachable => AllReachable' /\ Abstract!Construct(m)
  <1>1. PICK p \in Nat : p = IF n = 0 THEN 0 ELSE NextPowTwo(n)
    BY NextPowTwoIsFound
  <1>2. PICK u : u = Fresh(p)
    OBVIOUS
  <1>3. Becomes(m, u, <<"construct", m>>)
    BY <1>1, <1>2 DEF Construct
  <1>4. Sound(u) /\ Reachable(u) /\ Contents(u) = Abstract!Nowhere
    BY <1>2, FreshIsNowhere
  <1>5. Functions' = [Functions EXCEPT ![m] = Contents(u)] /\ call' = <<"construct", m>>
    BY <1>3, OneFunctionChanges
  <1>6. Abstract!Construct(m)
    BY <1>4, <1>5 DEF Abstract!Construct, Abstract!Becomes, Functions
  <1> QED
    BY <1>3, <1>4, <1>6, OneCallKeeps

\* clear() keeps the buckets' number and nothing else.
LEMMA ClearKeeps ==
  ASSUME IInv, NEW m \in Maps, Clear(m)
  PROVE  /\ IInv'
         /\ AllReachable => AllReachable' /\ Abstract!Clear(m)
  <1>1. table[m].count \in Nat
    BY DEF IInv, AllSound, Sound, Shaped
  <1>2. PICK u : u = Fresh(table[m].count)
    OBVIOUS
  <1>3. Becomes(m, u, <<"clear", m>>)
    BY <1>2 DEF Clear
  <1>4. Sound(u) /\ Reachable(u) /\ Contents(u) = Abstract!Nowhere
    BY <1>1, <1>2, FreshIsNowhere
  <1>5. Functions' = [Functions EXCEPT ![m] = Contents(u)] /\ call' = <<"clear", m>>
    BY <1>3, OneFunctionChanges
  <1>6. Abstract!Clear(m)
    BY <1>4, <1>5 DEF Abstract!Clear, Abstract!Becomes, Functions
  <1> QED
    BY <1>3, <1>4, <1>6, OneCallKeeps

\* insert() and emplace() add a key that is not there.
LEMMA InsertKeeps ==
  ASSUME IInv, NEW m \in Maps, NEW k \in Keys, NEW v \in Values, Insert(m, k, v)
  PROVE  /\ IInv'
         /\ AllReachable /\ client.careful => AllReachable' /\ Abstract!Insert(m, k, v)
  <1>1. PICK t, keep, u : t = table[m] /\ keep = FALSE /\ u = Set(t, k, v, keep)
    OBVIOUS
  <1>2. Becomes(m, u, <<"insert", m, k, v>>) /\ Inserts(m, k)
    BY <1>1 DEF Insert
  <1>3. Sound(t) /\ Sound(u)
    BY <1>1, SetIsSound DEF IInv, AllSound
  <1>4. ASSUME AllReachable, client.careful PROVE Reachable(u) /\ Abstract!Insert(m, k, v)
    <2>1. Reachable(t) /\ (t.used = t.size \/ ~HasKey(t, k))
      BY <1>1, <1>2, <1>4, InsertsVisible DEF AllReachable
    <2>2. Reachable(u) /\ Says(t, u, k, v, keep)
      BY <1>1, <1>3, <2>1, SetIsSound
    <2>3. PICK f : f = Contents(t)
      OBVIOUS
    <2>4. /\ f = [j \in DOMAIN f |-> f[j]]
          /\ DOMAIN f \subseteq Keys /\ \A j \in DOMAIN f : f[j] \in Values
          /\ k \in DOMAIN f <=> HasKey(t, k)
          /\ \A j \in Keys, w \in Values : Holds(t, j, w) <=> j \in DOMAIN f /\ f[j] = w
      BY <1>3, <2>1, <2>3, ContentsAre
    <2>5. PICK g : g = IF k \in DOMAIN f THEN f ELSE Abstract!With(f, k, v)
      OBVIOUS
    <2>6. /\ DOMAIN g = DOMAIN f \cup {k} /\ g = [j \in DOMAIN g |-> g[j]]
          /\ \A j \in DOMAIN f : g[j] = f[j]
          /\ k \notin DOMAIN f => g[k] = v
      BY <2>4, <2>5 DEF Abstract!With
    <2>7. \A j \in Keys, w \in Values : Holds(u, j, w) <=> j \in DOMAIN g /\ g[j] = w
      BY <1>1, <2>2, <2>4, <2>6 DEF Says
    <2>8. DOMAIN g \in SUBSET Keys /\ \A j \in DOMAIN g : g[j] \in Values
      BY <2>4, <2>6
    <2>9. Contents(u) = g
      BY <1>3, <2>2, <2>6, <2>7, <2>8, ContentsEqual
    <2>10. Functions[m] = f
      BY <1>1, <2>3 DEF Functions
    <2>11. Functions' = [Functions EXCEPT ![m] = g] /\ call' = <<"insert", m, k, v>>
      BY <1>2, <2>9, OneFunctionChanges
    <2> QED
      BY <2>2, <2>5, <2>10, <2>11 DEF Abstract!Insert, Abstract!Becomes, Functions
  <1> QED
    BY <1>2, <1>3, <1>4, OneCallKeeps

\* The function with one more pair, or with another value.
LEMMA ContentsWith ==
  ASSUME NEW t, Sound(t), Reachable(t), NEW k \in Keys, NEW v \in Values,
         NEW u, Sound(u), Reachable(u),
         \A j \in Keys, w \in Values :
            Holds(u, j, w) <=> IF j = k THEN w = v ELSE Holds(t, j, w)
  PROVE  Contents(u) = Abstract!With(Contents(t), k, v)
  <1>1. PICK f : f = Contents(t)
    OBVIOUS
  <1>2. /\ DOMAIN f \subseteq Keys /\ \A j \in DOMAIN f : f[j] \in Values
        /\ \A j \in Keys, w \in Values : Holds(t, j, w) <=> j \in DOMAIN f /\ f[j] = w
    BY <1>1, ContentsAre
  <1>3. PICK g : g = Abstract!With(f, k, v)
    OBVIOUS
  <1>4. /\ DOMAIN g = DOMAIN f \cup {k} /\ g = [j \in DOMAIN g |-> g[j]]
        /\ \A j \in DOMAIN f : j # k => g[j] = f[j]
        /\ g[k] = v
    BY <1>3 DEF Abstract!With
  <1>5. DOMAIN g \in SUBSET Keys /\ \A j \in DOMAIN g : g[j] \in Values
    BY <1>2, <1>4
  <1>6. \A j \in Keys, w \in Values : Holds(u, j, w) <=> j \in DOMAIN g /\ g[j] = w
    BY <1>2, <1>4
  <1>7. Contents(u) = g
    BY <1>4, <1>5, <1>6, ContentsEqual
  <1> QED
    BY <1>1, <1>3, <1>7

\* insert_or_assign() does so, and gives a key that is there its new value.
LEMMA InsertOrAssignKeeps ==
  ASSUME IInv, NEW m \in Maps, NEW k \in Keys, NEW v \in Values, InsertOrAssign(m, k, v)
  PROVE  /\ IInv'
         /\ AllReachable /\ client.careful => AllReachable' /\ Abstract!Assign(m, k, v)
  <1>1. PICK t, keep, u : t = table[m] /\ keep = TRUE /\ u = Set(t, k, v, keep)
    OBVIOUS
  <1>2. Becomes(m, u, <<"insert_or_assign", m, k, v>>) /\ Inserts(m, k)
    BY <1>1 DEF InsertOrAssign
  <1>3. Sound(t) /\ Sound(u)
    BY <1>1, SetIsSound DEF IInv, AllSound
  <1>4. ASSUME AllReachable, client.careful PROVE Reachable(u) /\ Abstract!Assign(m, k, v)
    <2>1. Reachable(t) /\ (t.used = t.size \/ ~HasKey(t, k))
      BY <1>1, <1>2, <1>4, InsertsVisible DEF AllReachable
    <2>2. Reachable(u) /\ Says(t, u, k, v, keep)
      BY <1>1, <1>3, <2>1, SetIsSound
    <2>3. \A j \in Keys, w \in Values :
             Holds(u, j, w) <=> IF j = k THEN w = v ELSE Holds(t, j, w)
      BY <1>1, <2>2 DEF Says
    <2>4. Contents(u) = Abstract!With(Contents(t), k, v)
      BY <1>3, <2>1, <2>2, <2>3, ContentsWith
    <2>5. Functions[m] = Contents(t)
      BY <1>1 DEF Functions
    <2>6. /\ Functions' = [Functions EXCEPT ![m] = Contents(u)]
          /\ call' = <<"insert_or_assign", m, k, v>>
      BY <1>2, OneFunctionChanges
    <2> QED
      BY <2>2, <2>4, <2>5, <2>6 DEF Abstract!Assign, Abstract!Becomes, Functions
  <1> QED
    BY <1>2, <1>3, <1>4, OneCallKeeps

\* So does the assignment through operator[].
LEMMA SubscriptKeeps ==
  ASSUME IInv, NEW m \in Maps, NEW k \in Keys, NEW v \in Values, Subscript(m, k, v)
  PROVE  /\ IInv'
         /\ AllReachable /\ client.careful => AllReachable' /\ Abstract!Assign(m, k, v)
  <1>1. PICK d \in Values : d = CHOOSE e \in Values : TRUE
    OBVIOUS
  <1>2. PICK t, keep, s, i, u : /\ t = table[m] /\ keep = FALSE /\ s = Set(t, k, d, keep)
                                /\ i = SetIndex(s, k) /\ u = [s EXCEPT !.value[i] = v]
    OBVIOUS
  <1>3. Becomes(m, u, <<"subscript", m, k, v>>) /\ Inserts(m, k)
    BY <1>1, <1>2 DEF Subscript
  <1>4. Sound(t)
    BY <1>2 DEF IInv, AllSound
  <1>5. Sound(u)
    BY <1>2, <1>4, SubscriptIsSound
  <1>6. ASSUME AllReachable, client.careful PROVE Reachable(u) /\ Abstract!Assign(m, k, v)
    <2>1. Reachable(t) /\ (t.used = t.size \/ ~HasKey(t, k))
      BY <1>2, <1>3, <1>6, InsertsVisible DEF AllReachable
    <2>2. /\ Reachable(u)
          /\ \A j \in Keys, w \in Values :
                Holds(u, j, w) <=> IF j = k THEN w = v ELSE Holds(t, j, w)
      BY <1>2, <1>4, <2>1, SubscriptIsSound
    <2>3. Contents(u) = Abstract!With(Contents(t), k, v)
      BY <1>4, <1>5, <2>1, <2>2, ContentsWith
    <2>4. Functions[m] = Contents(t)
      BY <1>2 DEF Functions
    <2>5. /\ Functions' = [Functions EXCEPT ![m] = Contents(u)]
          /\ call' = <<"subscript", m, k, v>>
      BY <1>3, OneFunctionChanges
    <2> QED
      BY <2>2, <2>3, <2>4, <2>5 DEF Abstract!Assign, Abstract!Becomes, Functions
  <1> QED
    BY <1>3, <1>5, <1>6, OneCallKeeps

\* The function without a key.
Without(f, k) == [j \in DOMAIN f \ {k} |-> f[j]]

\* What a table's function becomes when a key's entry has gone.
LEMMA ContentsWithout ==
  ASSUME NEW t, Sound(t), Reachable(t), NEW k,
         NEW u, Sound(u), Reachable(u),
         \A j \in Keys, w \in Values : Holds(u, j, w) <=> Holds(t, j, w) /\ j # k
  PROVE  Contents(u) = Without(Contents(t), k)
  <1>1. PICK f : f = Contents(t)
    OBVIOUS
  <1>2. /\ DOMAIN f \subseteq Keys /\ \A j \in DOMAIN f : f[j] \in Values
        /\ \A j \in Keys, w \in Values : Holds(t, j, w) <=> j \in DOMAIN f /\ f[j] = w
    BY <1>1, ContentsAre
  <1>3. PICK g : g = Without(f, k)
    OBVIOUS
  <1>4. /\ DOMAIN g = DOMAIN f \ {k} /\ g = [j \in DOMAIN g |-> g[j]]
        /\ \A j \in DOMAIN f : j # k => g[j] = f[j]
    BY <1>3 DEF Without
  <1>5. DOMAIN g \in SUBSET Keys /\ \A j \in DOMAIN g : g[j] \in Values
    BY <1>2, <1>4
  <1>6. \A j \in Keys, w \in Values : Holds(u, j, w) <=> j \in DOMAIN g /\ g[j] = w
    BY <1>2, <1>4
  <1>7. Contents(u) = g
    BY <1>4, <1>5, <1>6, ContentsEqual
  <1> QED
    BY <1>1, <1>3, <1>7

\* Bucket i has key k, or i is the end and none has it.
IsAt(t, k, i) ==
    \/ i \in Indices(t) /\ Exists(t, i) /\ t.key[i] = k
    \/ i \notin Indices(t) /\ ~HasKey(t, k)

\* Deleting the bucket of a key, or none if it is not stored.
LEMMA ErasedContents ==
  ASSUME NEW t, Sound(t), Reachable(t), NEW k \in Keys, NEW i \in 0..t.count,
         IsAt(t, k, i), NEW u, u = Delete(t, i)
  PROVE  /\ Sound(u) /\ Reachable(u) /\ ~Found(u, k)
         /\ Contents(u) = Without(Contents(t), k)
  <1>1. Sound(u) /\ Reachable(u) /\ Shaped(u) /\ Shaped(t)
    BY DeleteIsSound DEF Sound
  <1>2. \A j \in Keys, w \in Values : Holds(u, j, w) <=> Holds(t, j, w) /\ j # k
    <2>1. CASE i \in Indices(t) /\ Exists(t, i) /\ t.key[i] = k
      BY <2>1, DeleteIsSound
    <2>2. CASE i \notin Indices(t) /\ ~HasKey(t, k)
      <3>1. u = t
        BY <2>2, DeleteIsSound
      <3> QED
        BY <1>1, <2>2, <3>1, HasKeyHolds
    <2> QED
      BY <2>1, <2>2 DEF IsAt
  <1>3. ~HasKey(u, k)
    BY <1>1, <1>2, HasKeyHolds
  <1>4. ~Found(u, k)
    BY <1>1, <1>3, GetIsSound
  <1>5. Contents(u) = Without(Contents(t), k)
    BY <1>1, <1>2, ContentsWithout
  <1> QED
    BY <1>1, <1>4, <1>5

\* erase(key) takes the key out, or does nothing.
LEMMA EraseKeeps ==
  ASSUME IInv, NEW m \in Maps, NEW k \in Keys, Erase(m, k)
  PROVE  /\ IInv'
         /\ AllReachable => AllReachable' /\ Abstract!Erase(m, k) /\ ~Found(table'[m], k)
         /\ call' = <<"erase", m, k>>
  <1>1. PICK t, i, u : t = table[m] /\ i = Get(t, k) /\ u = Delete(t, i)
    OBVIOUS
  <1>2. Becomes(m, u, <<"erase", m, k>>)
    BY <1>1 DEF Erase
  <1>3. Sound(t) /\ i \in 0..t.count
    BY <1>1, GetIsSound DEF IInv, AllSound
  <1>4. Sound(u)
    BY <1>1, <1>3, DeleteIsSound
  <1>5. ASSUME AllReachable
        PROVE  Reachable(u) /\ Abstract!Erase(m, k) /\ ~Found(table'[m], k)
    <2>1. Reachable(t)
      BY <1>1, <1>5 DEF AllReachable
    <2>2. IsAt(t, k, i)
      <3>1. CASE Found(t, k)
        BY <1>1, <1>3, <3>1, GetIsSound DEF IsAt
      <3>2. CASE ~Found(t, k)
        <4>1. i = t.count /\ t.count \in Nat
          BY <1>1, <1>3, <3>2 DEF Found, Sound, Shaped
        <4>2. i \notin Indices(t)
          BY <4>1 DEF Indices
        <4> QED
          BY <1>3, <2>1, <3>2, <4>2, GetIsSound DEF IsAt
      <3> QED
        BY <3>1, <3>2
    <2>3. Reachable(u) /\ ~Found(u, k)
      BY <1>1, <1>3, <2>1, <2>2, ErasedContents
    <2>4. Contents(u) = Without(Contents(t), k)
      BY <1>1, <1>3, <2>1, <2>2, ErasedContents
    <2>5. Functions[m] = Contents(t)
      BY <1>1 DEF Functions
    <2>6. /\ Functions' = [Functions EXCEPT ![m] = Contents(u)]
          /\ call' = <<"erase", m, k>>
      BY <1>2, OneFunctionChanges
    <2>7. table'[m] = u
      BY <1>2 DEF Becomes, Returns, IInv, AllSound
    <2> QED
      BY <2>3, <2>4, <2>5, <2>6, <2>7 DEF Abstract!Erase, Abstract!Becomes, Functions, Without
  <1>6. call' = <<"erase", m, k>>
    BY <1>2 DEF Becomes, Returns
  <1> QED
    BY <1>2, <1>4, <1>5, <1>6, OneCallKeeps

\* erase through the iterator is an erase of the key it is at.
LEMMA EraseHereErases ==
  ASSUME IInv, EraseHere, AllReachable
  PROVE  \E m \in Maps, k \in Keys :
            /\ Abstract!Erase(m, k) /\ ~Found(table'[m], k)
            /\ call' = <<"erase", m, k>>
  <1>1. PICK m, i, t, u : m = iter.map /\ i = iter.at /\ t = table[m] /\ u = Delete(t, i)
    OBVIOUS
  <1>2. PICK k \in KeyAt(t, i) :
           /\ iter # NoIterator /\ i < t.count
           /\ call' = <<"erase", m, k>>
           /\ table' = [table EXCEPT ![m] = u]
    BY <1>1 DEF EraseHere
  <1>3. m \in Maps /\ Sound(t) /\ Shaped(t) /\ i \in Nat /\ t.count \in Nat /\ Reachable(t)
    BY <1>1, <1>2 DEF IInv, Walking, AllSound, AllReachable, Sound, Shaped
  <1>4. i \in 0..t.count /\ i \in Indices(t) /\ Exists(t, i) /\ t.key[i] = k
    BY <1>2, <1>3 DEF KeyAt, Indices
  <1>5. k \in Keys /\ IsAt(t, k, i)
    BY <1>3, <1>4, StoredKeys DEF IsAt
  <1>6. ~Found(u, k)
    BY <1>1, <1>3, <1>4, <1>5, ErasedContents
  <1>7. Contents(u) = Without(Contents(t), k)
    BY <1>1, <1>3, <1>4, <1>5, ErasedContents
  <1>8. \A n \in Maps : table'[n] = IF n = m THEN u ELSE table[n]
    BY <1>2 DEF IInv, AllSound
  <1>9. Functions' = [n \in Maps |-> IF n = m THEN Contents(u) ELSE Contents(table[n])]
    <2>1. Functions' = [n \in Maps |-> Contents(table'[n])]
      BY DEF Functions, Contents, Found, Get, GetStops, Bucket, Exists, IsEmpty, First
    <2> HIDE DEF Contents
    <2> QED
      BY <1>8, <2>1
  <1>10. Functions[m] = Contents(t)
    BY <1>1, <1>3 DEF Functions
  <1>11. Abstract!Erase(m, k)
    <2>1. Functions' = [Functions EXCEPT ![m] =
                            [j \in DOMAIN Functions[m] \ {k} |-> Functions[m][j]]]
      BY <1>9, <1>10, <1>7 DEF Functions, Without
    <2> QED
      BY <1>2, <2>1 DEF Abstract!Erase, Abstract!Becomes, Functions
  <1> QED
    BY <1>2, <1>3, <1>5, <1>6, <1>8, <1>11

\* operator= makes two functions the same.
LEMMA CopyAssignKeeps ==
  ASSUME IInv, NEW m \in Maps, NEW other \in Maps, CopyAssign(m, other)
  PROVE  /\ IInv'
         /\ AllReachable => AllReachable' /\ Abstract!Copy(m, other)
  <1>1. PICK u : u = table[other]
    OBVIOUS
  <1>2. Sound(table[m]) /\ Sound(u)
    BY <1>1 DEF IInv, AllSound
  <1>3. Copy(table[m], table[other]) = u
    BY <1>1, <1>2, CopyIsSame
  <1>4. Becomes(m, u, <<"copy", m, other>>)
    BY <1>3 DEF CopyAssign
  <1>5. /\ Functions' = [Functions EXCEPT ![m] = Contents(u)]
        /\ call' = <<"copy", m, other>>
    BY <1>4, OneFunctionChanges
  <1>6. Functions[other] = Contents(u)
    BY <1>1 DEF Functions
  <1>7. Abstract!Copy(m, other)
    BY <1>5, <1>6 DEF Abstract!Copy, Abstract!Becomes, Functions
  <1>8. AllReachable => Reachable(u)
    BY <1>1 DEF AllReachable
  <1> QED
    BY <1>2, <1>4, <1>7, <1>8, OneCallKeeps

\* A call that changes two maps.
Changed(f, m, x, n, y) == [f EXCEPT ![m] = x, ![n] = y]

\* What it does to the functions.
LEMMA TwoFunctionsChange ==
  ASSUME IInv, NEW c, NEW m \in Maps, NEW n \in Maps, m # n,
         NEW t, Sound(t), NEW u, Sound(u),
         NEW T, T = Changed(table, m, t, n, u), Returns(T, c)
  PROVE  /\ IInv'
         /\ AllReachable /\ Reachable(t) /\ Reachable(u) => AllReachable'
         /\ Functions' = Changed(Functions, m, Contents(t), n, Contents(u))
         /\ call' = c
  <1>1. /\ T = [x \in Maps |-> T[x]]
        /\ \A x \in Maps : T[x] = IF x = n THEN u ELSE IF x = m THEN t ELSE table[x]
    BY DEF IInv, AllSound, Changed
  <1>3. \A x \in Maps : Sound(T[x])
    BY <1>1 DEF IInv, AllSound
  <1>4. table' = T /\ call' = c
    BY DEF Returns
  <1>5. IInv'
    BY <1>1, <1>3, CallKeeps
  <1>6. AllReachable /\ Reachable(t) /\ Reachable(u) => AllReachable'
    BY <1>1, <1>4 DEF AllReachable
  <1>7. Functions' = [x \in Maps |-> Contents(table'[x])]
    BY DEF Functions, Contents, Found, Get, GetStops, Bucket, Exists, IsEmpty, First
  <1> HIDE DEF Contents
  <1>8. Functions' = [x \in Maps |-> IF x = n THEN Contents(u)
                                     ELSE IF x = m THEN Contents(t) ELSE Contents(table[x])]
    BY <1>1, <1>4, <1>7
  <1> QED
    BY <1>4, <1>5, <1>6, <1>8 DEF Functions, Changed

\* The moving operator= leaves nothing in the other map.
LEMMA MoveAssignKeeps ==
  ASSUME IInv, NEW m \in Maps, NEW other \in Maps, m # other, MoveAssign(m, other)
  PROVE  /\ IInv'
         /\ AllReachable => AllReachable' /\ Abstract!Move(m, other)
  <1>1. PICK t, u : t = table[other] /\ u = Fresh(0)
    OBVIOUS
  <1>2. PICK T : /\ T = Changed(table, m, t, other, u)
                 /\ Returns(T, <<"move", m, other>>)
    BY <1>1 DEF MoveAssign, Changed
  <1>3. Sound(t) /\ Sound(u) /\ Reachable(u) /\ Contents(u) = Abstract!Nowhere
    BY <1>1, FreshIsNowhere DEF IInv, AllSound
  <1>4. AllReachable => Reachable(t)
    BY <1>1 DEF AllReachable
  <1>5. IInv' /\ (AllReachable => AllReachable')
    BY <1>2, <1>3, <1>4, TwoFunctionsChange
  <1>6. /\ Functions' = Changed(Functions, m, Contents(t), other, Contents(u))
        /\ call' = <<"move", m, other>>
    BY <1>2, <1>3, <1>4, TwoFunctionsChange
  <1>7. Functions[other] = Contents(t)
    BY <1>1 DEF Functions
  <1>8. Abstract!Move(m, other)
    BY <1>3, <1>7, <1>6 DEF Abstract!Move, Functions, Changed
  <1> QED
    BY <1>5, <1>8

\* swap() exchanges the two.
LEMMA SwapKeeps ==
  ASSUME IInv, NEW m \in Maps, NEW other \in Maps, m # other, Swap(m, other)
  PROVE  /\ IInv'
         /\ AllReachable => AllReachable' /\ Abstract!Swap(m, other)
  <1>1. PICK t, u : t = table[other] /\ u = table[m]
    OBVIOUS
  <1>2. PICK T : /\ T = Changed(table, m, t, other, u)
                 /\ Returns(T, <<"swap", m, other>>)
    BY <1>1 DEF Swap, Changed
  <1>3. Sound(t) /\ Sound(u)
    BY <1>1 DEF IInv, AllSound
  <1>4. AllReachable => Reachable(t) /\ Reachable(u)
    BY <1>1 DEF AllReachable
  <1>5. IInv' /\ (AllReachable => AllReachable')
    BY <1>2, <1>3, <1>4, TwoFunctionsChange
  <1>6. /\ Functions' = Changed(Functions, m, Contents(t), other, Contents(u))
        /\ call' = <<"swap", m, other>>
    BY <1>2, <1>3, <1>4, TwoFunctionsChange
  <1>7. Functions[other] = Contents(t) /\ Functions[m] = Contents(u)
    BY <1>1 DEF Functions
  <1>8. Abstract!Swap(m, other)
    BY <1>7, <1>6 DEF Abstract!Swap, Functions, Changed
  <1> QED
    BY <1>5, <1>8
-----------------------------------------------------------------------------
\* What a careful client's step does besides.
DoesRight ==
    client.careful /\ AllReachable =>
        /\ AllReachable'
        /\ [Abstract!Next]_Abstract!vars
        /\ ErasedIsGone => ErasedIsGone'

\* A call of another operation erases nothing.
LEMMA OtherCall ==
  ASSUME call'[1] # "erase"
  PROVE  ErasedIsGone'
  BY DEF ErasedIsGone

\* A step that leaves tables and call alone does nothing to the functions.
LEMMA Stutter ==
  ASSUME table' = table, call' = call
  PROVE  DoesRight
  <1>1. AllReachable => AllReachable'
    BY DEF AllReachable
  <1>2. ASSUME ErasedIsGone PROVE ErasedIsGone'
    <2> SUFFICES ASSUME NEW m \in Maps, NEW k \in Keys, call' = <<"erase", m, k>>
                 PROVE  ~Found(table'[m], k)
      BY DEF ErasedIsGone
    <2>1. call = <<"erase", m, k>>
      OBVIOUS
    <2>2. ~Found(table[m], k)
      BY <1>2, <2>1 DEF ErasedIsGone
    <2> QED
      BY <2>2
  <1>3. Functions' = Functions
    BY DEF Functions, Contents, Found, Get, GetStops, Bucket, IsEmpty, First
  <1>4. UNCHANGED Abstract!vars
    BY <1>3 DEF Abstract!vars, Functions
  <1> QED
    BY <1>1, <1>2, <1>4 DEF DoesRight

\* A call that erases k from m.
LEMMA ErasingIsRight ==
  ASSUME NEW m \in Maps, NEW k \in Keys, AllReachable => AllReachable',
         AllReachable => Abstract!Erase(m, k),
         AllReachable => ~Found(table'[m], k),
         call' = <<"erase", m, k>>
  PROVE  DoesRight
  <1>1. AllReachable => ErasedIsGone'
    <2> SUFFICES ASSUME AllReachable, NEW n \in Maps, NEW j \in Keys,
                        call' = <<"erase", n, j>>
                 PROVE  ~Found(table'[n], j)
      BY DEF ErasedIsGone
    <2>1. n = m /\ j = k
      OBVIOUS
    <2> QED
      BY <2>1
  <1>2. AllReachable => Abstract!Next
    BY DEF Abstract!Next
  <1> QED
    BY <1>1, <1>2 DEF DoesRight

\* One action after the other.
LEMMA StepKeeps ==
  ASSUME IInv, [Next]_vars
  PROVE  IInv' /\ DoesRight
  <1>1. CASE Increment
    BY <1>1, IncrementKeeps, Stutter DEF Increment
  <1>2. CASE EraseHere
    <2>1. IInv' /\ (AllReachable => AllReachable')
      BY <1>2, EraseHereKeeps
    <2>2. CASE AllReachable
      <3>1. PICK m \in Maps, k \in Keys :
               /\ Abstract!Erase(m, k) /\ ~Found(table'[m], k)
               /\ call' = <<"erase", m, k>>
        BY <1>2, <2>2, EraseHereErases
      <3> QED
        BY <2>1, <3>1, ErasingIsRight
    <2>3. CASE ~AllReachable
      BY <2>1, <2>3 DEF DoesRight
    <2> QED
      BY <2>2, <2>3
  <1>3. CASE EndWalk
    <2>1. Walking' /\ AllSound'
      BY <1>3 DEF EndWalk, IInv, Walking, AllSound, NoIterator, NoWalk
    <2> QED
      BY <1>3, <2>1, Stutter DEF EndWalk, IInv
  <1>4. ASSUME NEW m \in client.maps, Clear(m) PROVE IInv' /\ DoesRight
    <2>1. m \in Maps
      BY ClientHas DEF IInv
    <2>2. IInv' /\ (AllReachable => AllReachable' /\ Abstract!Clear(m))
      BY <1>4, <2>1, ClearKeeps
    <2>3. ErasedIsGone'
      BY <1>4, OtherCall DEF Clear, Becomes, Returns
    <2> QED
      BY <2>1, <2>2, <2>3 DEF DoesRight, Abstract!Next
  <1>5. ASSUME NEW m \in client.maps, Begin(m) PROVE IInv' /\ DoesRight
    <2>1. m \in Maps
      BY ClientHas DEF IInv
    <2> QED
      BY <1>5, <2>1, BeginKeeps, Stutter DEF Begin
  <1>6. ASSUME NEW m \in client.maps, NEW n \in client.counts, Construct(m, n)
        PROVE  IInv' /\ DoesRight
    <2>1. m \in Maps /\ n \in Nat
      BY ClientHas DEF IInv
    <2>2. IInv' /\ (AllReachable => AllReachable' /\ Abstract!Construct(m))
      BY <1>6, <2>1, ConstructKeeps
    <2>3. ErasedIsGone'
      BY <1>6, OtherCall DEF Construct, Becomes, Returns
    <2> QED
      BY <2>1, <2>2, <2>3 DEF DoesRight, Abstract!Next
  <1>7. ASSUME NEW m \in client.maps, NEW k \in client.keys, Erase(m, k)
        PROVE  IInv' /\ DoesRight
    <2>1. m \in Maps /\ k \in Keys
      BY ClientHas DEF IInv
    <2>2. /\ IInv' /\ call' = <<"erase", m, k>>
          /\ AllReachable => AllReachable' /\ Abstract!Erase(m, k) /\ ~Found(table'[m], k)
      BY <1>7, <2>1, EraseKeeps
    <2> QED
      BY <2>1, <2>2, ErasingIsRight
  <1>8. ASSUME NEW m \in client.maps, NEW k \in client.keys, NEW v \in client.values,
               Insert(m, k, v)
        PROVE  IInv' /\ DoesRight
    <2>1. m \in Maps /\ k \in Keys /\ v \in Values
      BY ClientHas DEF IInv
    <2>2. /\ IInv'
          /\ AllReachable /\ client.careful => AllReachable' /\ Abstract!Insert(m, k, v)
      BY <1>8, <2>1, InsertKeeps
    <2>3. ErasedIsGone'
      BY <1>8, OtherCall DEF Insert, Becomes, Returns
    <2> QED
      BY <2>1, <2>2, <2>3 DEF DoesRight, Abstract!Next
  <1>9. ASSUME NEW m \in client.maps, NEW k \in client.keys, NEW v \in client.values,
               InsertOrAssign(m, k, v)
        PROVE  IInv' /\ DoesRight
    <2>1. m \in Maps /\ k \in Keys /\ v \in Values
      BY ClientHas DEF IInv
    <2>2. /\ IInv'
          /\ AllReachable /\ client.careful => AllReachable' /\ Abstract!Assign(m, k, v)
      BY <1>9, <2>1, InsertOrAssignKeeps
    <2>3. ErasedIsGone'
      BY <1>9, OtherCall DEF InsertOrAssign, Becomes, Returns
    <2> QED
      BY <2>1, <2>2, <2>3 DEF DoesRight, Abstract!Next
  <1>10. ASSUME NEW m \in client.maps, NEW k \in client.keys, NEW v \in client.values,
                Subscript(m, k, v)
         PROVE  IInv' /\ DoesRight
    <2>1. m \in Maps /\ k \in Keys /\ v \in Values
      BY ClientHas DEF IInv
    <2>2. /\ IInv'
          /\ AllReachable /\ client.careful => AllReachable' /\ Abstract!Assign(m, k, v)
      BY <1>10, <2>1, SubscriptKeeps
    <2>3. ErasedIsGone'
      BY <1>10, OtherCall DEF Subscript, Becomes, Returns
    <2> QED
      BY <2>1, <2>2, <2>3 DEF DoesRight, Abstract!Next
  <1>11. ASSUME NEW m \in client.maps, NEW other \in client.maps \ {m}, CopyAssign(m, other)
         PROVE  IInv' /\ DoesRight
    <2>1. m \in Maps /\ other \in Maps \ {m}
      BY ClientHas DEF IInv
    <2>2. IInv' /\ (AllReachable => AllReachable' /\ Abstract!Copy(m, other))
      BY <1>11, <2>1, CopyAssignKeeps
    <2>3. ErasedIsGone'
      BY <1>11, OtherCall DEF CopyAssign, Becomes, Returns
    <2> QED
      BY <2>1, <2>2, <2>3 DEF DoesRight, Abstract!Next
  <1>12. ASSUME NEW m \in client.maps, NEW other \in client.maps \ {m}, MoveAssign(m, other)
         PROVE  IInv' /\ DoesRight
    <2>1. m \in Maps /\ other \in Maps \ {m}
      BY ClientHas DEF IInv
    <2>2. IInv' /\ (AllReachable => AllReachable' /\ Abstract!Move(m, other))
      BY <1>12, <2>1, MoveAssignKeeps
    <2>3. ErasedIsGone'
      BY <1>12, OtherCall DEF MoveAssign, Returns
    <2> QED
      BY <2>1, <2>2, <2>3 DEF DoesRight, Abstract!Next
  <1>13. ASSUME NEW m \in client.maps, NEW other \in client.maps \ {m}, Swap(m, other)
         PROVE  IInv' /\ DoesRight
    <2>1. m \in Maps /\ other \in Maps \ {m}
      BY ClientHas DEF IInv
    <2>2. IInv' /\ (AllReachable => AllReachable' /\ Abstract!Swap(m, other))
      BY <1>13, <2>1, SwapKeeps
    <2>3. ErasedIsGone'
      BY <1>13, OtherCall DEF Swap, Returns
    <2> QED
      BY <2>1, <2>2, <2>3 DEF DoesRight, Abstract!Next
  <1>14. CASE UNCHANGED vars
    <2>1. /\ client' = client /\ table' = table /\ call' = call
          /\ iter' = iter /\ walk' = walk
      BY <1>14 DEF vars
    <2> QED
      BY <2>1, Stutter DEF IInv, Walking, AllSound
  <1> QED
    BY <1>1, <1>2, <1>3, <1>4, <1>5, <1>6, <1>7, <1>8, <1>9, <1>10, <1>11, <1>12, <1>13,
       <1>14 DEF Next

\* The invariant holds throughout, for every client.
LEMMA Invariance == Spec => []IInv
  <1>1. IInv /\ [Next]_vars => IInv'
    BY StepKeeps
  <1> QED
    BY <1>1, InitIInv, PTL DEF Spec

\* The same for the client, which stays what it is.
LEMMA CarefulInvariance ==
  ASSUME Careful
  PROVE  Spec => [](IInv /\ AllReachable /\ ErasedIsGone)
  <1>1. Init => IInv /\ AllReachable /\ ErasedIsGone
    BY InitIInv DEF Init, ErasedIsGone
  <1>2. IInv /\ AllReachable /\ ErasedIsGone /\ [Next]_vars
            => (IInv /\ AllReachable /\ ErasedIsGone)'
    <2> SUFFICES ASSUME IInv, AllReachable, ErasedIsGone, [Next]_vars
                 PROVE  (IInv /\ AllReachable /\ ErasedIsGone)'
      OBVIOUS
    <2>1. client.careful
      BY DEF Careful, IInv
    <2> QED
      BY <2>1, StepKeeps DEF DoesRight
  <1> QED
    BY <1>1, <1>2, PTL DEF Spec
-----------------------------------------------------------------------------
\* Whatever the client does, the tables of linear_hashmap.h keep their shape,
\* and exactly the stored values are constructed (Set, Delete, Resize and Copy
\* of linear_hashmap-inl.h).
THEOREM TypesAreKept == Spec => []TypeOK
  <1>1. IInv => TypeOK
    <2> SUFFICES ASSUME IInv, NEW m \in Maps
                 PROVE  LET t == table[m] IN
                        /\ t.count \in Nat /\ t.size \in Nat /\ t.used \in Nat
                        /\ t.key \in [Indices(t) -> Keys \cup {Empty, Erased}]
                        /\ t.value \in [Indices(t) -> Values \cup {Dead}]
                        /\ \A i \in Indices(t) : t.value[i] # Dead <=> i \in Stored(t)
                        /\ iter.map = m /\ ~walk.resized => iter.at <= t.count
      BY DEF TypeOK
    <2>1. Shaped(table[m])
      BY DEF IInv, AllSound, Sound
    <2>2. iter.map = m /\ ~walk.resized => iter.at <= table[m].count
      <3>1. CASE iter = NoIterator
        <4>1. iter.at = 0 /\ table[m].count \in Nat
          BY <2>1, <3>1 DEF NoIterator, Shaped
        <4> QED
          BY <4>1
      <3>2. CASE iter # NoIterator
        BY <3>2 DEF IInv, Walking
      <3> QED
        BY <3>1, <3>2
    <2> QED
      BY <2>1, <2>2 DEF Shaped, Stored
  <1> QED
    BY <1>1, Invariance, PTL

\* Probing ends in every table, and the Set of a Resize never resizes in turn:
\* the thresholds of linear_hashmap.h keep a bucket empty, for tables of any size
\* (linear_hashmap-inl.h:73 and 88).
THEOREM ProbingEnds == Spec => []NeverFull
  <1>1. IInv => NeverFull
    <2> SUFFICES ASSUME IInv, NEW m \in Maps
                 PROVE  LET t == table[m] IN
                        /\ t.count # 0 => \E i \in Indices(t) : IsEmpty(t, i)
                        /\ t.used <= ResizeCount(t.count)
                        /\ t.used = ResizeCount(t.count) => t.size <= ResizeCount(2 * t.count)
                        /\ t.count > 8 => ShrinkCount(t.count) <= ResizeCount(t.count \div 2)
      BY DEF NeverFull
    <2>1. PICK t : t = table[m]
      OBVIOUS
    <2>2. Sound(t) /\ Shaped(t) /\ Counted(t)
      BY <2>1 DEF IInv, AllSound, Sound
    <2>3. t.count # 0 => \E i \in Indices(t) : IsEmpty(t, i)
      BY <2>2, SoundLeavesRoom, OneIsEmpty
    <2>4. /\ t.count \in Nat /\ t.used \in Nat /\ t.size \in Nat
          /\ t.used <= ResizeCount(t.count) /\ t.size <= t.used
      BY <2>2, SoundLeavesRoom DEF Sound, Shaped
    <2>5. t.used = ResizeCount(t.count) => t.size <= ResizeCount(2 * t.count)
      <3>1. CASE t.count = 0
        BY <2>4, <3>1, Thresholds
      <3>2. CASE t.count # 0
        <4>1. 2 * t.count \in Nat
          BY <2>4
        <4>2. ResizeCount(t.count) < ResizeCount(2 * t.count)
          BY <2>4, <3>2, Thresholds
        <4>3. ResizeCount(t.count) \in Nat /\ ResizeCount(2 * t.count) \in Nat
          BY <2>4, <4>1, Thresholds
        <4> QED
          BY <2>4, <4>2, <4>3
      <3> QED
        BY <3>1, <3>2
    <2>6. t.count > 8 => ShrinkCount(t.count) <= ResizeCount(t.count \div 2)
      BY <2>4, Thresholds
    <2> QED
      BY <2>1, <2>3, <2>4, <2>5, <2>6
  <1> QED
    BY <1>1, Invariance, PTL

\* size_ and used_ are right after any calls, growing, shrinking and reused
\* tombstones included (linear_hashmap.h:393 and 394).
THEOREM CountsAreRight == Spec => []CountsAgree
  <1>1. IInv => CountsAgree
    BY DEF IInv, AllSound, Sound, Counted, CountsAgree, Taken
  <1> QED
    BY <1>1, Invariance, PTL

\* A traversal that erases on its way still meets all there was, whatever the
\* hash function and the number of buckets (begin and erase of linear_hashmap.h,
\* increment of linear_hashmap-inl.h).
THEOREM TraversalsMeetAll == Spec => []TraversalMeetsAll
  <1>1. IInv => TraversalMeetsAll
    <2> SUFFICES ASSUME IInv, iter # NoIterator, ~walk.resized,
                        iter.at = table[iter.map].count
                 PROVE  walk.met = walk.whole
      BY DEF TraversalMeetsAll
    <2>1. PICK t : t = table[iter.map]
      OBVIOUS
    <2>2. /\ iter.map \in Maps
          /\ walk.whole = walk.met \cup {t.key[j] : j \in Behind(t, iter.at)}
      BY <2>1 DEF IInv, Walking
    <2>3. t.count \in Nat /\ iter.at = t.count
      BY <2>1, <2>2 DEF IInv, AllSound, Sound, Shaped
    <2>4. Behind(t, iter.at) = {}
      BY <2>3 DEF Behind, Stored, Indices
    <2> QED
      BY <2>2, <2>4
  <1> QED
    BY <1>1, Invariance, PTL

\* If the clients look before they insert, find comes to every entry that a
\* traversal meets, and no key is stored twice (Get, Set, Delete and Resize of
\* linear_hashmap-inl.h).
THEOREM EntriesAreFound ==
  ASSUME Careful
  PROVE  Spec => []EntriesFound
  <1>1. IInv /\ AllReachable => EntriesFound
    <2> SUFFICES ASSUME IInv, AllReachable, NEW m \in Maps, NEW i \in Stored(table[m])
                 PROVE  Get(table[m], table[m].key[i]) = i
      BY DEF EntriesFound
    <2>1. PICK t : t = table[m]
      OBVIOUS
    <2>2. Sound(t) /\ Shaped(t) /\ Reachable(t) /\ i \in Indices(t) /\ Exists(t, i)
      BY <2>1 DEF IInv, AllSound, AllReachable, Sound, Stored
    <2>3. t.key[i] \in Keys
      BY <2>2, StoredKeys
    <2> QED
      BY <2>1, <2>2, <2>3, GetIsSound
  <1> QED
    BY <1>1, CarefulInvariance, PTL

\* For such clients a key that was erased is not found, which others see violated
\* (erase of linear_hashmap.h).
THEOREM ErasedStaysAway ==
  ASSUME Careful
  PROVE  Spec => []ErasedIsGone
  BY CarefulInvariance, PTL

\* For such clients the hashmap is a finite function for each map object: every
\* call does to it what its name says (linear_hashmap.h and linear_hashmap-inl.h).
THEOREM HashmapIsAMap ==
  ASSUME Careful
  PROVE  Spec => MapSpec
  <1>1. Init => Abstract!Init
    <2> SUFFICES ASSUME Init PROVE Abstract!Init
      OBVIOUS
    <2>1. PICK u : u = Fresh(0)
      OBVIOUS
    <2>2. Contents(u) = Abstract!Nowhere
      BY <2>1, FreshIsNowhere
    <2>3. \A m \in Maps : table[m] = u
      BY <2>1 DEF Init
    <2>4. Functions = [m \in Maps |-> Abstract!Nowhere]
      BY <2>2, <2>3 DEF Functions
    <2> QED
      BY <2>4 DEF Init, Abstract!Init, Functions
  <1>2. IInv /\ AllReachable /\ [Next]_vars => [Abstract!Next]_Abstract!vars
    <2> SUFFICES ASSUME IInv, AllReachable, [Next]_vars
                 PROVE  [Abstract!Next]_Abstract!vars
      OBVIOUS
    <2>1. client.careful
      BY DEF Careful, IInv
    <2> QED
      BY <2>1, StepKeeps DEF DoesRight
  <1> QED
    BY <1>1, <1>2, CarefulInvariance, PTL DEF Spec, MapSpec, Abstract!Spec
-----------------------------------------------------------------------------
\* What AlignHash.tla says of its constants.
LEMMA SlotConstants ==
  /\ TableHash \in [TableKeys -> Nat]
  /\ EmptyFlag # DeletedFlag /\ EmptyFlag \notin TableKeys /\ DeletedFlag \notin TableKeys
  /\ Junk \notin TableValues /\ Junk \notin Nat
  /\ MaxBuckets \in Nat
  BY VendoredAssumption
     DEF Aln!HashAssumption, Aln!ReservedAssumption, Aln!BucketAssumption

\* A table of align_hash_map has the members of another one, with flags.
SlotShaped(t) ==
    /\ IsTable(t)
    /\ t.count \in Nat /\ t.size \in Nat /\ t.used \in Nat
    /\ t.key \in [Indices(t) -> TableKeys \cup {EmptyFlag, DeletedFlag}]
    /\ t.value \in [Indices(t) -> TableValues \cup {Junk}]
    /\ \A i \in Indices(t) : Aln!Exists(t, i) => t.value[i] \in TableValues

\* Its entries, and its entries and tombstones.
SlotEntries(t) == {i \in Indices(t) : Aln!Exists(t, i)}
SlotTaken(t)   == {i \in Indices(t) : t.key[i] # EmptyFlag}

SlotCounted(t) ==
    t.size = Cardinality(SlotEntries(t)) /\ t.used = Cardinality(SlotTaken(t))

\* What a map's table is, whatever its client does.
SlotSound(t) ==
    SlotShaped(t) /\ SlotCounted(t) /\ t.used <= Aln!Sup(t.count) /\ t.count # 1

\* Half of the buckets are fewer than there are, and than half of twice as many.
LEMMA Halves ==
  ASSUME NEW n \in Nat
  PROVE  /\ Aln!Sup(n) \in Nat /\ Aln!Sup(n) <= n
         /\ n > 1 => Aln!Sup(n) < n /\ Aln!Sup(2 * n) = n
         /\ Aln!Sup(0) = 0 /\ Aln!Sup(2) = 1
  BY DEF Aln!Sup

\* The buckets are finitely many, and entries are among those taken.
LEMMA SlotsAreFinite ==
  ASSUME NEW t, SlotShaped(t)
  PROVE  /\ IsFiniteSet(Indices(t)) /\ Cardinality(Indices(t)) = t.count
         /\ SlotEntries(t) \subseteq SlotTaken(t) /\ SlotTaken(t) \subseteq Indices(t)
         /\ IsFiniteSet(SlotTaken(t)) /\ Cardinality(SlotTaken(t)) \in Nat
         /\ IsFiniteSet(SlotEntries(t)) /\ Cardinality(SlotEntries(t)) \in Nat
         /\ Cardinality(SlotEntries(t)) <= Cardinality(SlotTaken(t))
  <1>1. IsFiniteSet(Indices(t)) /\ Cardinality(Indices(t)) = t.count
    <2>1. t.count \in Nat
      BY DEF SlotShaped
    <2>2. t.count - 1 \in Int /\ 0 \in Int
      BY <2>1
    <2>3. /\ IsFiniteSet(0..t.count - 1)
          /\ Cardinality(0..t.count - 1) = IF 0 > t.count - 1 THEN 0 ELSE t.count - 1 - 0 + 1
      BY <2>2, FS_Interval
    <2> QED
      BY <2>1, <2>3 DEF Indices
  <1>2. SlotEntries(t) \subseteq SlotTaken(t) /\ SlotTaken(t) \subseteq Indices(t)
    BY DEF SlotEntries, SlotTaken, Aln!Exists
  <1>3. IsFiniteSet(SlotTaken(t)) /\ Cardinality(SlotTaken(t)) \in Nat
    BY <1>1, <1>2, FS_Subset, FS_CardinalityType
  <1> QED
    BY <1>1, <1>2, <1>3, FS_Subset, FS_CardinalityType

\* If not all buckets are used, one is empty.
LEMMA OneSlotIsEmpty ==
  ASSUME NEW t, SlotShaped(t), Cardinality(SlotTaken(t)) < t.count
  PROVE  \E i \in Indices(t) : t.key[i] = EmptyFlag
  <1> SUFFICES ASSUME \A i \in Indices(t) : t.key[i] # EmptyFlag PROVE FALSE
    OBVIOUS
  <1>1. SlotTaken(t) = Indices(t)
    BY DEF SlotTaken
  <1> QED
    BY <1>1, SlotsAreFinite DEF SlotShaped

\* A new table has nothing in it.
LEMMA FreshSlots ==
  ASSUME NEW n \in Nat, n # 1, NEW t, t = Aln!Fresh(n)
  PROVE  /\ SlotSound(t) /\ t.count = n
         /\ \A i \in Indices(t) : ~Aln!Exists(t, i) /\ t.key[i] = EmptyFlag
  <1>1. /\ t.count = n /\ t.used = 0 /\ t.size = 0
        /\ t.key = [i \in 0..n - 1 |-> EmptyFlag]
        /\ t.value = [i \in 0..n - 1 |-> Junk]
        /\ IsTable(t)
    BY DEF Aln!Fresh, IsTable
  <1>2. \A i \in Indices(t) : ~Aln!Exists(t, i) /\ t.key[i] = EmptyFlag
    BY <1>1 DEF Indices, Aln!Exists
  <1>3. SlotEntries(t) = {} /\ SlotTaken(t) = {}
    BY <1>2 DEF SlotEntries, SlotTaken
  <1>4. SlotCounted(t)
    BY <1>1, <1>3, FS_EmptySet DEF SlotCounted
  <1>5. SlotShaped(t)
    BY <1>1, <1>2 DEF SlotShaped, Indices
  <1>6. 0 <= Aln!Sup(n)
    BY Halves
  <1> HIDE DEF SlotShaped, SlotCounted
  <1> QED
    BY <1>1, <1>2, <1>4, <1>5, <1>6 DEF SlotSound
-----------------------------------------------------------------------------
\* A key's probing comes by every bucket.
LEMMA EverySlotProbed ==
  ASSUME NEW n \in Nat \ {0}, NEW k \in TableKeys
  PROVE  /\ \A s \in Nat : Aln!Home(n, k, s) \in 0..n - 1
         /\ \A i \in 0..n - 1 : \E s \in 0..n - 1 : Aln!Home(n, k, s) = i
  <1>1. PICK h \in Nat : h = TableHash[k]
    BY SlotConstants
  <1>2. \A s \in Nat : (h + s) % n \in 0..n - 1
    OBVIOUS
  <1>3. ASSUME NEW i \in 0..n - 1 PROVE \E s \in 0..n - 1 : (h + s) % n = i
    <2>1. PICK q \in Nat, r \in 0..n - 1 : h = n * q + r
      BY Division
    <2>2. CASE r <= i
      <3>1. i - r \in 0..n - 1 /\ h + (i - r) \in Nat /\ h + (i - r) = n * q + i
        BY <2>1, <2>2
      <3>2. (h + (i - r)) % n = i
        BY <3>1, Remainder
      <3> QED
        BY <3>1, <3>2
    <2>3. CASE i < r
      <3>1. /\ i + n - r \in 0..n - 1 /\ h + (i + n - r) \in Nat
            /\ h + (i + n - r) = n * q + n + i
        BY <2>1, <2>3
      <3>2. n * q + n = n * (q + 1) /\ q + 1 \in Nat
        BY <2>1
      <3>3. h + (i + n - r) = n * (q + 1) + i
        BY <3>1, <3>2
      <3>4. (h + (i + n - r)) % n = i
        BY <3>1, <3>2, <3>3, Remainder
      <3> QED
        BY <3>1, <3>4
    <2> QED
      BY <2>1, <2>2, <2>3
  <1> QED
    BY <1>1, <1>2, <1>3 DEF Aln!Home

\* All that a search for k steps over before its step s.
SlotsPassed(t, k, s) ==
    \A r \in 0..s - 1 : LET i == Aln!Home(t.count, k, r) IN
        i \in Indices(t) /\ t.key[i] # EmptyFlag /\ t.key[i] # k

\* The loops of get and set stop, at the first bucket where they may.
LEMMA SlotSearchStops ==
  ASSUME NEW t, SlotShaped(t), NEW k \in TableKeys,
         NEW e \in Indices(t), t.key[e] = EmptyFlag
  PROVE  \E s \in 0..t.count - 1 :
            /\ s = Aln!First(Aln!Stops(t, k)) /\ Aln!Stops(t, k) # {}
            /\ Aln!Home(t.count, k, s) \in Indices(t)
            /\ t.key[Aln!Home(t.count, k, s)] \in {EmptyFlag, k}
            /\ SlotsPassed(t, k, s)
  <1>1. t.count \in Nat \ {0} /\ Indices(t) = 0..t.count - 1
    BY DEF SlotShaped, Indices
  <1>2. /\ \A s \in Nat : Aln!Home(t.count, k, s) \in Indices(t)
        /\ \E s \in 0..t.count - 1 : Aln!Home(t.count, k, s) = e
    BY <1>1, EverySlotProbed
  <1>3. Aln!Stops(t, k) \in SUBSET Nat /\ Aln!Stops(t, k) # {}
    <2>1. PICK s \in 0..t.count - 1 : Aln!Home(t.count, k, s) = e
      BY <1>2
    <2>2. s \in Aln!Stops(t, k)
      BY <2>1 DEF Aln!Stops
    <2>3. Aln!Stops(t, k) \subseteq 0..t.count - 1
      BY DEF Aln!Stops
    <2> QED
      BY <1>1, <2>2, <2>3
  <1>4. PICK s \in Aln!Stops(t, k) :
           s = Aln!First(Aln!Stops(t, k)) /\ \A r \in Aln!Stops(t, k) : s <= r
    BY <1>3, FirstIsLeast DEF Aln!First, First
  <1>5. s \in 0..t.count - 1 /\ s \in Nat
    BY <1>1, <1>4 DEF Aln!Stops
  <1>6. SlotsPassed(t, k, s)
    <2> SUFFICES ASSUME NEW r \in 0..s - 1
                 PROVE  LET i == Aln!Home(t.count, k, r) IN
                        i \in Indices(t) /\ t.key[i] # EmptyFlag /\ t.key[i] # k
      BY DEF SlotsPassed
    <2>1. r \in 0..t.count - 1 /\ r \in Nat /\ ~(s <= r)
      BY <1>1, <1>5
    <2>2. r \notin Aln!Stops(t, k)
      BY <1>4, <2>1
    <2> QED
      BY <1>2, <2>1, <2>2 DEF Aln!Stops
  <1>7. t.key[Aln!Home(t.count, k, s)] \in {EmptyFlag, k}
    BY <1>4 DEF Aln!Stops
  <1> QED
    BY <1>2, <1>3, <1>4, <1>5, <1>6, <1>7

\* What get finds.
LEMMA SlotGetFinds ==
  ASSUME NEW t, SlotShaped(t), NEW k \in TableKeys,
         NEW e \in Indices(t), t.key[e] = EmptyFlag
  PROVE  \E s \in 0..t.count - 1 : LET i == Aln!Home(t.count, k, s) IN
            /\ i \in Indices(t)
            /\ t.key[i] \in {EmptyFlag, k}
            /\ SlotsPassed(t, k, s)
            /\ Aln!Get(t, k) = IF t.key[i] = k THEN i ELSE t.count
  <1>1. PICK s \in 0..t.count - 1 :
           /\ s = Aln!First(Aln!Stops(t, k)) /\ Aln!Stops(t, k) # {}
           /\ Aln!Home(t.count, k, s) \in Indices(t)
           /\ t.key[Aln!Home(t.count, k, s)] \in {EmptyFlag, k}
           /\ SlotsPassed(t, k, s)
    BY SlotSearchStops
  <1>2. PICK i : i = Aln!Home(t.count, k, s)
    OBVIOUS
  <1>3. Aln!Get(t, k) = IF t.key[i] = EmptyFlag THEN t.count ELSE i
    BY <1>1, <1>2 DEF Aln!Get
  <1>4. k # EmptyFlag
    BY SlotConstants
  <1> QED
    BY <1>1, <1>2, <1>3, <1>4

\* A set of naturals below a bound has a greatest element.
LEMMA LatestIsGreatest ==
  ASSUME NEW n \in Nat, NEW S \in SUBSET (0..n), S # {}
  PROVE  /\ Aln!Latest(S) \in S
         /\ \A y \in S : y <= Aln!Latest(S)
  <1> DEFINE D == {n - x : x \in S}
  <1>1. D \in SUBSET Nat /\ D # {}
    OBVIOUS
  <1>2. PICK d \in D : \A j \in D : ~(j < d)
    BY <1>1, LeastNatural
  <1>3. PICK x \in S : d = n - x
    OBVIOUS
  <1>4. ASSUME NEW y \in S PROVE y <= x
    <2>1. n - y \in D
      OBVIOUS
    <2>2. ~(n - y < n - x)
      BY <1>2, <1>3, <2>1
    <2> QED
      BY <1>3, <2>2
  <1> QED
    BY <1>3, <1>4 DEF Aln!Latest

\* Where set stores: in the bucket of the key, or in one that has no entry, and
\* what it steps over on the way there has other keys or is a tombstone.
LEMMA SlotSiteIsRight ==
  ASSUME NEW t, SlotShaped(t), NEW k \in TableKeys,
         NEW e \in Indices(t), t.key[e] = EmptyFlag, NEW i, i = Aln!Site(t, k)
  PROVE  \E s \in 0..t.count - 1 :
            /\ i = Aln!Home(t.count, k, s) /\ i \in Indices(t)
            /\ ~Aln!Exists(t, i) \/ t.key[i] = k
            /\ SlotsPassed(t, k, s)
            /\ ~Aln!Exists(t, i) =>
                  \E stop \in s..t.count - 1 :
                      /\ t.key[Aln!Home(t.count, k, stop)] = EmptyFlag
                      /\ SlotsPassed(t, k, stop)
  <1>1. PICK stop \in 0..t.count - 1 :
           /\ stop = Aln!First(Aln!Stops(t, k))
           /\ Aln!Home(t.count, k, stop) \in Indices(t)
           /\ t.key[Aln!Home(t.count, k, stop)] \in {EmptyFlag, k}
           /\ SlotsPassed(t, k, stop)
    BY SlotSearchStops
  <1>2. t.count \in Nat \ {0} /\ Indices(t) = 0..t.count - 1 /\ stop \in Nat
    BY DEF SlotShaped, Indices
  <1>3. k # EmptyFlag /\ k # DeletedFlag /\ EmptyFlag # DeletedFlag
    BY SlotConstants
  <1>4. PICK tombs : tombs = {s \in 0..stop : t.key[Aln!Home(t.count, k, s)] = DeletedFlag}
    OBVIOUS
  <1>5. i = Aln!Home(t.count, k,
                IF t.key[Aln!Home(t.count, k, stop)] = k \/ tombs = {} THEN stop
                ELSE Aln!Latest(tombs))
    BY <1>1, <1>4 DEF Aln!Site
  <1>6. CASE t.key[Aln!Home(t.count, k, stop)] = k \/ tombs = {}
    <2>1. i = Aln!Home(t.count, k, stop)
      BY <1>5, <1>6
    <2>2. stop \in stop..t.count - 1
      BY <1>2
    <2>3. ~Aln!Exists(t, i) => t.key[i] = EmptyFlag
      BY <1>1, <1>3, <2>1 DEF Aln!Exists
    <2>4. ~Aln!Exists(t, i) \/ t.key[i] = k
      BY <1>1, <2>1 DEF Aln!Exists
    <2> QED
      BY <1>1, <2>1, <2>2, <2>3, <2>4
  <1>7. CASE ~(t.key[Aln!Home(t.count, k, stop)] = k \/ tombs = {})
    <2>1. PICK s : s = Aln!Latest(tombs)
      OBVIOUS
    <2>2. s \in 0..stop /\ t.key[Aln!Home(t.count, k, s)] = DeletedFlag
      <3>1. tombs \in SUBSET (0..stop) /\ tombs # {}
        BY <1>4, <1>7
      <3>2. s \in tombs
        BY <1>2, <2>1, <3>1, LatestIsGreatest
      <3> QED
        BY <1>4, <3>2
    <2>3. i = Aln!Home(t.count, k, s)
      BY <1>5, <1>7, <2>1
    <2>4. s \in 0..t.count - 1 /\ s \in Nat /\ stop \in s..t.count - 1
      BY <1>2, <2>2
    <2>5. i \in Indices(t)
      BY <1>2, <2>3, <2>4, EverySlotProbed
    <2>6. ~Aln!Exists(t, i)
      BY <2>2, <2>3 DEF Aln!Exists
    <2>7. SlotsPassed(t, k, s)
      <3>1. \A r \in 0..s - 1 : r \in 0..stop - 1
        BY <1>2, <2>4
      <3> QED
        BY <1>1, <3>1 DEF SlotsPassed
    <2>8. t.key[Aln!Home(t.count, k, stop)] = EmptyFlag
      BY <1>1, <1>7
    <2> QED
      BY <1>1, <2>3, <2>4, <2>5, <2>6, <2>7, <2>8
  <1> QED
    BY <1>6, <1>7
-----------------------------------------------------------------------------
\* An entry is stored in bucket i, which has none.
SlotFills(t, u, i, k, v) ==
    /\ u.key = [t.key EXCEPT ![i] = k] /\ u.value = [t.value EXCEPT ![i] = v]
    /\ u.size = t.size + 1
    /\ u.used = IF t.key[i] = EmptyFlag THEN t.used + 1 ELSE t.used

\* set does one or the other at the bucket that it chooses.
LEMMA SlotStoreDoes ==
  ASSUME NEW t, SlotShaped(t), NEW k, NEW v, NEW displace,
         NEW i, i = Aln!Site(t, k), NEW u, u = Aln!Store(t, k, v, displace)
  PROVE  /\ IsTable(u) /\ u.count = t.count
         /\ Aln!Exists(t, i) => Overwrites(t, u, i, v, displace)
         /\ ~Aln!Exists(t, i) => SlotFills(t, u, i, k, v)
  <1>1. PICK c, f, g, n, m : t = [count |-> c, key |-> f, value |-> g, size |-> n, used |-> m]
    BY DEF SlotShaped, IsTable
  <1>2. CASE Aln!Exists(t, i) /\ displace
    <2>1. u = [t EXCEPT !.value[i] = v]
      BY <1>2 DEF Aln!Store
    <2>2. u = [count |-> c, key |-> f, value |-> [g EXCEPT ![i] = v], size |-> n, used |-> m]
      BY <1>1, <2>1
    <2>3. t.count = c /\ t.key = f /\ t.value = g /\ t.size = n /\ t.used = m
      BY <1>1
    <2>4. /\ u.count = c /\ u.key = f /\ u.value = [g EXCEPT ![i] = v]
          /\ u.size = n /\ u.used = m
      BY <2>2
    <2>5. IsTable(u)
      BY <2>2, <2>4, Zenon DEF IsTable
    <2> QED
      BY <1>2, <2>3, <2>4, <2>5, Zenon DEF Overwrites
  <1>3. CASE Aln!Exists(t, i) /\ ~displace
    <2>1. u = t
      BY <1>3 DEF Aln!Store
    <2> QED
      BY <1>1, <1>3, <2>1 DEF IsTable, Overwrites
  <1>4. CASE ~Aln!Exists(t, i)
    <2>1. u = [t EXCEPT !.key[i] = k, !.value[i] = v, !.size = @ + 1,
                        !.used = IF t.key[i] = EmptyFlag THEN @ + 1 ELSE @]
      BY <1>4 DEF Aln!Store
    <2>2. u = [count |-> c, key |-> [f EXCEPT ![i] = k], value |-> [g EXCEPT ![i] = v],
               size |-> n + 1, used |-> IF t.key[i] = EmptyFlag THEN m + 1 ELSE m]
      BY <1>1, <2>1
    <2>3. t.count = c /\ t.key = f /\ t.value = g /\ t.size = n /\ t.used = m
      BY <1>1
    <2>4. /\ u.count = c /\ u.key = [f EXCEPT ![i] = k] /\ u.value = [g EXCEPT ![i] = v]
          /\ u.size = n + 1 /\ u.used = IF t.key[i] = EmptyFlag THEN m + 1 ELSE m
      BY <2>2
    <2>5. IsTable(u)
      BY <2>2, <2>4, Zenon DEF IsTable
    <2>6. SlotFills(t, u, i, k, v)
      BY <2>3, <2>4, Zenon DEF SlotFills
    <2> QED
      BY <1>4, <2>3, <2>4, <2>5, <2>6
  <1> QED
    BY <1>2, <1>3, <1>4

\* Filling a bucket keeps the table's shape and counts it.
LEMMA SlotFillsIsCounted ==
  ASSUME NEW t, SlotShaped(t), SlotCounted(t), NEW u, IsTable(u), u.count = t.count,
         NEW i \in Indices(t), ~Aln!Exists(t, i), NEW k \in TableKeys, NEW v \in TableValues,
         SlotFills(t, u, i, k, v)
  PROVE  /\ SlotShaped(u) /\ SlotCounted(u) /\ Indices(u) = Indices(t)
         /\ u.key[i] = k /\ u.value[i] = v
         /\ \A j \in Indices(t) : j # i => u.key[j] = t.key[j] /\ u.value[j] = t.value[j]
         /\ \A j \in Indices(t) : Aln!Exists(u, j) <=> Aln!Exists(t, j) \/ j = i
         /\ \A j \in Indices(t) : u.key[j] = EmptyFlag <=> t.key[j] = EmptyFlag /\ j # i
  <1>1. Indices(u) = Indices(t)
    BY DEF Indices
  <1>2. k # EmptyFlag /\ k # DeletedFlag
    BY SlotConstants
  <1>3. /\ u.key \in [Indices(t) -> TableKeys \cup {EmptyFlag, DeletedFlag}]
        /\ u.value \in [Indices(t) -> TableValues \cup {Junk}]
    BY DEF SlotShaped, SlotFills
  <1>4. /\ u.key[i] = k /\ u.value[i] = v
        /\ \A j \in Indices(t) : j # i => u.key[j] = t.key[j] /\ u.value[j] = t.value[j]
    BY DEF SlotShaped, SlotFills
  <1>5. \A j \in Indices(t) : Aln!Exists(u, j) <=> Aln!Exists(t, j) \/ j = i
    BY <1>2, <1>4 DEF Aln!Exists
  <1>6. \A j \in Indices(t) : u.key[j] = EmptyFlag <=> t.key[j] = EmptyFlag /\ j # i
    BY <1>2, <1>4
  <1>7. SlotShaped(u)
    <2>1. u.count \in Nat /\ u.size \in Nat /\ u.used \in Nat
      BY DEF SlotShaped, SlotFills
    <2>2. \A j \in Indices(t) : Aln!Exists(u, j) => u.value[j] \in TableValues
      BY <1>4, <1>5 DEF SlotShaped
    <2> QED
      BY <1>1, <1>3, <2>1, <2>2 DEF SlotShaped
  <1>8. SlotEntries(u) = SlotEntries(t) \cup {i} /\ i \notin SlotEntries(t)
    BY <1>1, <1>5 DEF SlotEntries
  <1>9. SlotTaken(u) = SlotTaken(t) \cup {i} /\ (i \in SlotTaken(t) <=> t.key[i] # EmptyFlag)
    BY <1>1, <1>6 DEF SlotTaken
  <1>10. Cardinality(SlotEntries(u)) = Cardinality(SlotEntries(t)) + 1
    <2>1. IsFiniteSet(SlotEntries(t))
      BY SlotsAreFinite
    <2> QED
      BY <1>8, <2>1, FS_AddElement
  <1>11. Cardinality(SlotTaken(u)) =
           IF t.key[i] = EmptyFlag THEN Cardinality(SlotTaken(t)) + 1
                                   ELSE Cardinality(SlotTaken(t))
    <2>1. IsFiniteSet(SlotTaken(t))
      BY SlotsAreFinite
    <2>2. CASE t.key[i] = EmptyFlag
      BY <1>9, <2>1, <2>2, FS_AddElement
    <2>3. CASE t.key[i] # EmptyFlag
      <3>1. SlotTaken(u) = SlotTaken(t)
        BY <1>9, <2>3
      <3> QED
        BY <2>3, <3>1
    <2> QED
      BY <2>2, <2>3
  <1>12. SlotCounted(u)
    BY <1>10, <1>11 DEF SlotCounted, SlotFills
  <1> QED
    BY <1>1, <1>4, <1>5, <1>6, <1>7, <1>12

\* So does overwriting a value.
LEMMA SlotOverwritesIsCounted ==
  ASSUME NEW t, SlotShaped(t), SlotCounted(t), NEW u, IsTable(u), u.count = t.count,
         NEW i \in Indices(t), Aln!Exists(t, i), NEW v \in TableValues, NEW displace,
         Overwrites(t, u, i, v, displace)
  PROVE  /\ SlotShaped(u) /\ SlotCounted(u) /\ Indices(u) = Indices(t) /\ u.key = t.key
         /\ u.value[i] = IF displace THEN v ELSE t.value[i]
         /\ \A j \in Indices(t) : j # i => u.value[j] = t.value[j]
         /\ \A j : Aln!Exists(u, j) <=> Aln!Exists(t, j)
  <1>1. Indices(u) = Indices(t) /\ u.key = t.key
    BY DEF Indices, Overwrites
  <1>2. \A j : Aln!Exists(u, j) <=> Aln!Exists(t, j)
    BY <1>1 DEF Aln!Exists
  <1>3. /\ u.value \in [Indices(t) -> TableValues \cup {Junk}]
        /\ u.value[i] = IF displace THEN v ELSE t.value[i]
        /\ \A j \in Indices(t) : j # i => u.value[j] = t.value[j]
    BY DEF SlotShaped, Overwrites
  <1>4. \A j \in Indices(t) : Aln!Exists(u, j) => u.value[j] \in TableValues
    BY <1>2, <1>3 DEF SlotShaped
  <1>5. SlotShaped(u)
    BY <1>1, <1>3, <1>4 DEF SlotShaped, Overwrites
  <1>6. SlotEntries(u) = SlotEntries(t) /\ SlotTaken(u) = SlotTaken(t)
    BY <1>1, <1>2 DEF SlotEntries, SlotTaken
  <1> QED
    BY <1>1, <1>2, <1>3, <1>5, <1>6 DEF SlotCounted, Overwrites
-----------------------------------------------------------------------------
\* Every entry is met on the way from its key's home, before an empty bucket
\* and before another entry with that key.
SlotReachable(t) ==
    \A i \in Indices(t) : Aln!Exists(t, i) =>
        \E s \in 0..t.count - 1 :
            Aln!Home(t.count, t.key[i], s) = i /\ SlotsPassed(t, t.key[i], s)

\* What the table says of a key.
SlotHolds(t, k, v) ==
    \E i \in Indices(t) : Aln!Exists(t, i) /\ t.key[i] = k /\ t.value[i] = v
SlotHasKey(t, k) == \E i \in Indices(t) : Aln!Exists(t, i) /\ t.key[i] = k

\* A key that is stored is a key.
LEMMA SlotKeys ==
  ASSUME NEW t, SlotShaped(t), NEW i \in Indices(t), Aln!Exists(t, i)
  PROVE  t.key[i] \in TableKeys /\ t.value[i] \in TableValues
  BY DEF SlotShaped, Aln!Exists

\* It is stored where the search for it ends.
LEMMA SlotSearchEnds ==
  ASSUME NEW t, SlotShaped(t), SlotReachable(t), NEW k \in TableKeys,
         NEW j \in Indices(t), Aln!Exists(t, j), t.key[j] = k,
         NEW s \in 0..t.count - 1, SlotsPassed(t, k, s),
         t.key[Aln!Home(t.count, k, s)] \in {EmptyFlag, k}
  PROVE  j = Aln!Home(t.count, k, s)
  <1>1. PICK r \in 0..t.count - 1 : Aln!Home(t.count, k, r) = j /\ SlotsPassed(t, k, r)
    BY DEF SlotReachable
  <1>2. s \in Int /\ r \in Int
    BY DEF SlotShaped
  <1>3. ~(r < s)
    <2> SUFFICES ASSUME r < s PROVE FALSE
      OBVIOUS
    <2>1. r \in 0..s - 1
      BY <1>1, <1>2
    <2> QED
      BY <1>1, <2>1 DEF SlotsPassed
  <1>4. ~(s < r)
    <2> SUFFICES ASSUME s < r PROVE FALSE
      OBVIOUS
    <2>1. s \in 0..r - 1
      BY <1>1, <1>2
    <2> QED
      BY <1>1, <2>1 DEF SlotsPassed
  <1>5. s = r
    BY <1>2, <1>3, <1>4
  <1> QED
    BY <1>1, <1>5

\* No key is stored twice.
LEMMA SlotKeysDiffer ==
  ASSUME NEW t, SlotShaped(t), SlotReachable(t), NEW i \in Indices(t), NEW j \in Indices(t),
         Aln!Exists(t, i), Aln!Exists(t, j), t.key[i] = t.key[j]
  PROVE  i = j
  <1>1. PICK k \in TableKeys : k = t.key[i]
    BY SlotKeys
  <1>2. PICK s \in 0..t.count - 1 : Aln!Home(t.count, k, s) = i /\ SlotsPassed(t, k, s)
    BY <1>1 DEF SlotReachable
  <1>3. t.key[Aln!Home(t.count, k, s)] \in {EmptyFlag, k}
    BY <1>1, <1>2
  <1>4. j = Aln!Home(t.count, k, s)
    BY <1>1, <1>2, <1>3, SlotSearchEnds
  <1> QED
    BY <1>2, <1>4

\* If set chooses a bucket without an entry, the key is not stored.
LEMMA SlotSiteIsNew ==
  ASSUME NEW t, SlotShaped(t), SlotReachable(t), NEW k \in TableKeys,
         NEW e \in Indices(t), t.key[e] = EmptyFlag, ~Aln!Exists(t, Aln!Site(t, k))
  PROVE  ~SlotHasKey(t, k)
  <1>1. PICK stop \in 0..t.count - 1 :
           /\ t.key[Aln!Home(t.count, k, stop)] = EmptyFlag
           /\ SlotsPassed(t, k, stop)
    <2>1. t.count \in Nat
      BY DEF SlotShaped
    <2>2. PICK s \in 0..t.count - 1 : \E stop \in s..t.count - 1 :
                      /\ t.key[Aln!Home(t.count, k, stop)] = EmptyFlag
                      /\ SlotsPassed(t, k, stop)
      BY SlotSiteIsRight
    <2>3. \A stop \in s..t.count - 1 : stop \in 0..t.count - 1
      BY <2>1
    <2> QED
      BY <2>2, <2>3
  <1> SUFFICES ASSUME NEW j \in Indices(t), Aln!Exists(t, j), t.key[j] = k PROVE FALSE
    BY DEF SlotHasKey
  <1>2. j = Aln!Home(t.count, k, stop)
    BY <1>1, SlotSearchEnds
  <1> QED
    BY <1>1, <1>2, SlotConstants
-----------------------------------------------------------------------------
\* What the table u says, compared with t, if k was stored with v.
SlotSays(t, u, k, v, displace) ==
    \A j \in TableKeys, w \in TableValues :
        SlotHolds(u, j, w) <=>
            IF j # k THEN SlotHolds(t, j, w)
            ELSE IF SlotHasKey(t, k) /\ ~displace THEN SlotHolds(t, k, w)
            ELSE w = v

\* A new key in a bucket on its way: everything can be reached.
LEMMA SlotFillsIsReachable ==
  ASSUME NEW t, SlotShaped(t), SlotReachable(t), NEW k \in TableKeys, ~SlotHasKey(t, k),
         NEW i \in Indices(t), ~Aln!Exists(t, i),
         NEW s \in 0..t.count - 1, i = Aln!Home(t.count, k, s), SlotsPassed(t, k, s),
         NEW u, u.count = t.count, u.key = [t.key EXCEPT ![i] = k]
  PROVE  SlotReachable(u)
  <1>1. Indices(u) = Indices(t) /\ u.count = t.count
    BY DEF Indices
  <1>2. k # EmptyFlag /\ k # DeletedFlag
    BY SlotConstants
  <1>3. u.key[i] = k /\ \A j \in Indices(t) : j # i => u.key[j] = t.key[j]
    BY DEF SlotShaped
  <1>0. PICK f \in 0..t.count - 1 :
           i = Aln!Home(t.count, k, f) /\ SlotsPassed(t, k, f)
           /\ \A r \in 0..f - 1 : i # Aln!Home(t.count, k, r)
    <2> DEFINE D == {x \in 0..s : i = Aln!Home(t.count, k, x)}
    <2>0. t.count \in Nat /\ s \in Nat
      BY DEF SlotShaped
    <2>1. D \in SUBSET Nat /\ D # {}
      BY <2>0
    <2>2. PICK f \in D : \A j \in D : ~(j < f)
      BY <2>1, LeastNatural
    <2>3. f \in 0..t.count - 1 /\ f \in 0..s /\ i = Aln!Home(t.count, k, f)
      BY <2>0, <2>2
    <2>4. ASSUME NEW r \in 0..f - 1 PROVE r \in 0..s - 1 /\ i # Aln!Home(t.count, k, r)
      <3>1. r \in 0..s - 1 /\ r \in 0..s /\ r < f
        BY <2>0, <2>3
      <3> QED
        BY <2>2, <3>1
    <2>5. SlotsPassed(t, k, f)
      BY <2>4 DEF SlotsPassed
    <2> QED
      BY <2>3, <2>4, <2>5
  <1> SUFFICES ASSUME NEW b \in Indices(t), Aln!Exists(u, b)
               PROVE  \E r \in 0..t.count - 1 :
                        Aln!Home(t.count, u.key[b], r) = b /\ SlotsPassed(u, u.key[b], r)
    BY <1>1 DEF SlotReachable
  <1>4. CASE b = i
    <2>1. SlotsPassed(u, k, f)
      <3> SUFFICES ASSUME NEW r \in 0..f - 1, NEW c, c = Aln!Home(t.count, k, r)
                   PROVE  c \in Indices(t) /\ u.key[c] # EmptyFlag /\ u.key[c] # k
        BY <1>1 DEF SlotsPassed
      <3>1. c \in Indices(t) /\ t.key[c] # EmptyFlag /\ t.key[c] # k /\ c # i
        BY <1>0 DEF SlotsPassed
      <3> QED
        BY <1>3, <3>1
    <2> QED
      BY <1>0, <1>3, <1>4, <2>1
  <1>5. CASE b # i
    <2>1. Aln!Exists(t, b) /\ u.key[b] = t.key[b]
      BY <1>3, <1>5 DEF Aln!Exists
    <2>2. t.key[b] # k
      BY <2>1 DEF SlotHasKey
    <2>3. PICK r \in 0..t.count - 1 :
             Aln!Home(t.count, t.key[b], r) = b /\ SlotsPassed(t, t.key[b], r)
      BY <2>1 DEF SlotReachable
    <2>4. SlotsPassed(u, t.key[b], r)
      <3> SUFFICES ASSUME NEW x \in 0..r - 1, NEW c, c = Aln!Home(t.count, t.key[b], x)
                   PROVE  c \in Indices(t) /\ u.key[c] # EmptyFlag /\ u.key[c] # t.key[b]
        BY <1>1 DEF SlotsPassed
      <3>1. c \in Indices(t) /\ t.key[c] # EmptyFlag /\ t.key[c] # t.key[b]
        BY <2>3 DEF SlotsPassed
      <3> QED
        BY <1>2, <1>3, <2>2, <3>1
    <2> QED
      BY <2>1, <2>3, <2>4
  <1> QED
    BY <1>4, <1>5
-----------------------------------------------------------------------------
\* Overwriting a value does not change what can be reached.
LEMMA SlotSameKeysReachable ==
  ASSUME NEW t, SlotReachable(t), NEW u, u.count = t.count, u.key = t.key
  PROVE  SlotReachable(u)
  <1>1. Indices(u) = Indices(t) /\ \A i : Aln!Exists(u, i) <=> Aln!Exists(t, i)
    BY DEF Indices, Aln!Exists
  <1>2. \A k, s : SlotsPassed(u, k, s) <=> SlotsPassed(t, k, s)
    BY <1>1 DEF SlotsPassed
  <1> QED
    BY <1>1, <1>2 DEF SlotReachable

\* What set makes of a table with an empty bucket.
LEMMA SlotStoreIsSound ==
  ASSUME NEW t, SlotShaped(t), SlotCounted(t), SlotReachable(t),
         NEW k \in TableKeys, NEW v \in TableValues, NEW displace,
         NEW e \in Indices(t), t.key[e] = EmptyFlag, NEW u, u = Aln!Store(t, k, v, displace)
  PROVE  /\ SlotShaped(u) /\ SlotCounted(u) /\ SlotReachable(u)
         /\ u.count = t.count /\ u.used <= t.used + 1
         /\ SlotSays(t, u, k, v, displace)
         /\ SlotHasKey(u, k)
  <1>1. PICK i : i = Aln!Site(t, k)
    OBVIOUS
  <1>2. PICK s \in 0..t.count - 1 :
           /\ i = Aln!Home(t.count, k, s) /\ i \in Indices(t)
           /\ ~Aln!Exists(t, i) \/ t.key[i] = k
           /\ SlotsPassed(t, k, s)
    BY <1>1, SlotSiteIsRight
  <1>3. /\ IsTable(u) /\ u.count = t.count
        /\ Aln!Exists(t, i) => Overwrites(t, u, i, v, displace)
        /\ ~Aln!Exists(t, i) => SlotFills(t, u, i, k, v)
    BY <1>1, SlotStoreDoes
  <1>4. CASE Aln!Exists(t, i)
    <2>1. /\ SlotShaped(u) /\ SlotCounted(u) /\ Indices(u) = Indices(t) /\ u.key = t.key
          /\ u.value[i] = IF displace THEN v ELSE t.value[i]
          /\ \A j \in Indices(t) : j # i => u.value[j] = t.value[j]
          /\ \A j : Aln!Exists(u, j) <=> Aln!Exists(t, j)
      BY <1>2, <1>3, <1>4, SlotOverwritesIsCounted
    <2>2. SlotReachable(u)
      BY <1>3, <2>1, SlotSameKeysReachable
    <2>3. u.used = t.used /\ t.used \in Nat
      BY <1>3, <1>4 DEF Overwrites, SlotShaped
    <2>4. \A b \in Indices(t) : Aln!Exists(t, b) /\ t.key[b] = k => b = i
      BY <1>2, <1>4, SlotKeysDiffer
    <2>5. SlotHasKey(t, k) /\ SlotHasKey(u, k)
      BY <1>2, <1>4, <2>1 DEF SlotHasKey
    <2>6. ASSUME NEW j \in TableKeys, NEW w \in TableValues, j # k
          PROVE  SlotHolds(u, j, w) <=> SlotHolds(t, j, w)
      BY <1>2, <1>4, <2>1, <2>6 DEF SlotHolds
    <2>7. ASSUME NEW w \in TableValues
          PROVE  SlotHolds(u, k, w) <=> IF ~displace THEN SlotHolds(t, k, w) ELSE w = v
      BY <1>2, <1>4, <2>1, <2>4 DEF SlotHolds
    <2>8. SlotSays(t, u, k, v, displace)
      BY <2>5, <2>6, <2>7 DEF SlotSays
    <2> QED
      BY <1>3, <2>1, <2>2, <2>3, <2>5, <2>8
  <1>5. CASE ~Aln!Exists(t, i)
    <2>1. ~SlotHasKey(t, k)
      BY <1>1, <1>5, SlotSiteIsNew
    <2>2. SlotFills(t, u, i, k, v)
      BY <1>3, <1>5
    <2>3. /\ SlotShaped(u) /\ SlotCounted(u) /\ Indices(u) = Indices(t)
          /\ u.key[i] = k /\ u.value[i] = v
          /\ \A j \in Indices(t) : j # i => u.key[j] = t.key[j] /\ u.value[j] = t.value[j]
          /\ \A j \in Indices(t) : Aln!Exists(u, j) <=> Aln!Exists(t, j) \/ j = i
      BY <1>2, <1>3, <1>5, <2>2, SlotFillsIsCounted
    <2>4. SlotReachable(u)
      <3>1. u.key = [t.key EXCEPT ![i] = k]
        BY <2>2 DEF SlotFills
      <3> QED
        BY <1>2, <1>3, <1>5, <2>1, <3>1, SlotFillsIsReachable
    <2>5. u.used <= t.used + 1
      BY <2>2 DEF SlotFills, SlotShaped
    <2>6. SlotHasKey(u, k)
      BY <1>2, <2>3 DEF SlotHasKey
    <2>7. ASSUME NEW j \in TableKeys, NEW w \in TableValues, j # k
          PROVE  SlotHolds(u, j, w) <=> SlotHolds(t, j, w)
      BY <1>2, <1>5, <2>3, <2>7 DEF SlotHolds
    <2>8. ASSUME NEW w \in TableValues
          PROVE  SlotHolds(u, k, w) <=> w = v
      BY <1>2, <2>1, <2>3 DEF SlotHolds, SlotHasKey
    <2>9. SlotSays(t, u, k, v, displace)
      BY <2>1, <2>7, <2>8 DEF SlotSays
    <2> QED
      BY <1>3, <2>3, <2>4, <2>5, <2>6, <2>9
  <1> QED
    BY <1>4, <1>5
-----------------------------------------------------------------------------
\* u is t with one more entry, in bucket i; or without the one in bucket i,
\* which becomes a tombstone.  The counters are another matter.
SlotGains(t, u, i, k, v) ==
    /\ IsTable(u) /\ u.count = t.count /\ u.size \in Nat /\ u.used \in Nat
    /\ u.key = [t.key EXCEPT ![i] = k] /\ u.value = [t.value EXCEPT ![i] = v]
SlotLoses(t, u, i) ==
    /\ IsTable(u) /\ u.count = t.count /\ u.size \in Nat /\ u.used \in Nat
    /\ u.key = [t.key EXCEPT ![i] = DeletedFlag]
    /\ u.value = t.value \/ u.value = [t.value EXCEPT ![i] = Junk]

\* What there is after an entry came in.
LEMMA SlotPutsIn ==
  ASSUME NEW t, SlotShaped(t), NEW u, NEW i \in Indices(t), ~Aln!Exists(t, i),
         NEW k \in TableKeys, NEW v \in TableValues, SlotGains(t, u, i, k, v)
  PROVE  /\ SlotShaped(u) /\ Indices(u) = Indices(t)
         /\ u.key[i] = k /\ u.value[i] = v
         /\ \A j \in Indices(t) : j # i => u.key[j] = t.key[j] /\ u.value[j] = t.value[j]
         /\ \A j \in Indices(t) : Aln!Exists(u, j) <=> Aln!Exists(t, j) \/ j = i
         /\ Cardinality(SlotEntries(u)) = Cardinality(SlotEntries(t)) + 1
  <1>1. Indices(u) = Indices(t)
    BY DEF Indices, SlotGains
  <1>2. k # EmptyFlag /\ k # DeletedFlag
    BY SlotConstants
  <1>3. /\ u.key \in [Indices(t) -> TableKeys \cup {EmptyFlag, DeletedFlag}]
        /\ u.value \in [Indices(t) -> TableValues \cup {Junk}]
    BY DEF SlotShaped, SlotGains
  <1>4. /\ u.key[i] = k /\ u.value[i] = v
        /\ \A j \in Indices(t) : j # i => u.key[j] = t.key[j] /\ u.value[j] = t.value[j]
    BY DEF SlotShaped, SlotGains
  <1>5. \A j \in Indices(t) : Aln!Exists(u, j) <=> Aln!Exists(t, j) \/ j = i
    BY <1>2, <1>4 DEF Aln!Exists
  <1>6. SlotShaped(u)
    <2>1. \A j \in Indices(t) : Aln!Exists(u, j) => u.value[j] \in TableValues
      BY <1>4, <1>5 DEF SlotShaped
    <2> QED
      BY <1>1, <1>3, <2>1 DEF SlotShaped, SlotGains
  <1>7. SlotEntries(u) = SlotEntries(t) \cup {i} /\ i \notin SlotEntries(t)
    BY <1>1, <1>5 DEF SlotEntries
  <1>8. IsFiniteSet(SlotEntries(t))
    BY SlotsAreFinite
  <1> QED
    BY <1>1, <1>4, <1>5, <1>6, <1>7, <1>8, FS_AddElement

\* What there is after one was taken out.
LEMMA SlotTakesOut ==
  ASSUME NEW t, SlotShaped(t), NEW u, NEW i \in Indices(t), Aln!Exists(t, i),
         SlotLoses(t, u, i)
  PROVE  /\ SlotShaped(u) /\ Indices(u) = Indices(t)
         /\ u.key[i] = DeletedFlag
         /\ \A j \in Indices(t) : j # i => u.key[j] = t.key[j] /\ u.value[j] = t.value[j]
         /\ \A j \in Indices(t) : Aln!Exists(u, j) <=> Aln!Exists(t, j) /\ j # i
         /\ SlotTaken(u) = SlotTaken(t)
         /\ Cardinality(SlotEntries(u)) = Cardinality(SlotEntries(t)) - 1
  <1>1. Indices(u) = Indices(t)
    BY DEF Indices, SlotLoses
  <1>2. /\ u.key \in [Indices(t) -> TableKeys \cup {EmptyFlag, DeletedFlag}]
        /\ u.value \in [Indices(t) -> TableValues \cup {Junk}]
    BY DEF SlotShaped, SlotLoses
  <1>3. /\ u.key[i] = DeletedFlag
        /\ \A j \in Indices(t) : j # i => u.key[j] = t.key[j] /\ u.value[j] = t.value[j]
    BY DEF SlotShaped, SlotLoses
  <1>4. \A j \in Indices(t) : Aln!Exists(u, j) <=> Aln!Exists(t, j) /\ j # i
    BY <1>3 DEF Aln!Exists
  <1>5. SlotShaped(u)
    <2>1. \A j \in Indices(t) : Aln!Exists(u, j) => u.value[j] \in TableValues
      BY <1>3, <1>4 DEF SlotShaped
    <2> QED
      BY <1>1, <1>2, <2>1 DEF SlotShaped, SlotLoses
  <1>6. SlotEntries(u) = SlotEntries(t) \ {i} /\ i \in SlotEntries(t)
    BY <1>1, <1>4 DEF SlotEntries
  <1>7. SlotTaken(u) = SlotTaken(t)
    BY <1>1, <1>3, SlotConstants DEF SlotTaken, Aln!Exists
  <1>8. IsFiniteSet(SlotEntries(t))
    BY SlotsAreFinite
  <1> QED
    BY <1>1, <1>3, <1>4, <1>5, <1>6, <1>7, <1>8, FS_RemoveElement
-----------------------------------------------------------------------------
\* The state of resize between two rounds.
IsMove(s) == s = [old |-> s.old, grown |-> s.grown, key |-> s.key, val |-> s.val, j |-> s.j]

\* The entry of old bucket i is in hand.
TakenFrom(s, u, i) ==
    /\ IsMove(u) /\ u.grown = s.grown /\ u.j = s.j
    /\ u.key = s.old.key[i] /\ u.val = s.old.value[i]
    /\ IsTable(u.old) /\ u.old.count = s.old.count /\ u.old.value = s.old.value
    /\ u.old.size = s.old.size /\ u.old.used = s.old.used
    /\ u.old.key = [s.old.key EXCEPT ![i] = DeletedFlag]

\* That is what taking it out of the old table does.
LEMMA TakeDoes ==
  ASSUME NEW s, IsMove(s), IsTable(s.old), NEW i, NEW u, u = Aln!Take(s, i)
  PROVE  TakenFrom(s, u, i)
  <1>1. PICK o, g, k, v, j : s = [old |-> o, grown |-> g, key |-> k, val |-> v, j |-> j]
    BY DEF IsMove
  <1>2. s.old = o /\ s.grown = g /\ s.key = k /\ s.val = v /\ s.j = j
    BY <1>1
  <1>3. PICK c, f, w, n, m : o = [count |-> c, key |-> f, value |-> w, size |-> n, used |-> m]
    BY <1>2 DEF IsTable
  <1>4. o.count = c /\ o.key = f /\ o.value = w /\ o.size = n /\ o.used = m
    BY <1>3
  <1>5. PICK p : p = [count |-> c, key |-> [f EXCEPT ![i] = DeletedFlag], value |-> w,
                      size |-> n, used |-> m]
    OBVIOUS
  <1>6. /\ p.count = c /\ p.key = [f EXCEPT ![i] = DeletedFlag] /\ p.value = w
        /\ p.size = n /\ p.used = m
    BY <1>5
  <1>7. u = [old |-> p, grown |-> g, key |-> f[i], val |-> w[i], j |-> j]
    <2>1. u = [s EXCEPT !.old.key[i] = DeletedFlag, !.key = f[i], !.val = w[i]]
      BY <1>2, <1>4 DEF Aln!Take
    <2>2. u = [old |-> [o EXCEPT !.key[i] = DeletedFlag], grown |-> g,
               key |-> f[i], val |-> w[i], j |-> j]
      BY <1>1, <2>1
    <2>3. [o EXCEPT !.key[i] = DeletedFlag] = p
      BY <1>3, <1>5
    <2> QED
      BY <2>2, <2>3
  <1>8. u.old = p /\ u.grown = g /\ u.key = f[i] /\ u.val = w[i] /\ u.j = j
    BY <1>7
  <1>9. IsMove(u)
    BY <1>7, <1>8, Zenon DEF IsMove
  <1>10. IsTable(p)
    BY <1>5, <1>6, Zenon DEF IsTable
  <1> QED
    BY <1>2, <1>4, <1>6, <1>8, <1>9, <1>10 DEF TakenFrom

\* What putting the entry into the new table does.
LEMMA PlaceDoes ==
  ASSUME NEW s, IsMove(s), IsTable(s.grown), NEW i, i = Aln!Vacant(s.grown, s.key),
         NEW u, u = Aln!Place(s)
  PROVE  /\ IsMove(u) /\ u.old = s.old /\ u.j = s.j
         /\ u.key = EmptyFlag /\ u.val = Junk
         /\ IsTable(u.grown) /\ u.grown.count = s.grown.count
         /\ u.grown.size = s.grown.size /\ u.grown.used = s.grown.used
         /\ u.grown.key = [s.grown.key EXCEPT ![i] = s.key]
         /\ u.grown.value = [s.grown.value EXCEPT ![i] = s.val]
  <1>1. PICK o, g, k, v, j : s = [old |-> o, grown |-> g, key |-> k, val |-> v, j |-> j]
    BY DEF IsMove
  <1>2. s.old = o /\ s.grown = g /\ s.key = k /\ s.val = v /\ s.j = j
    BY <1>1
  <1>3. PICK c, f, w, n, m : g = [count |-> c, key |-> f, value |-> w, size |-> n, used |-> m]
    BY <1>2 DEF IsTable
  <1>4. g.count = c /\ g.key = f /\ g.value = w /\ g.size = n /\ g.used = m
    BY <1>3
  <1>5. PICK p : p = [count |-> c, key |-> [f EXCEPT ![i] = k], value |-> [w EXCEPT ![i] = v],
                      size |-> n, used |-> m]
    OBVIOUS
  <1>6. /\ p.count = c /\ p.key = [f EXCEPT ![i] = k] /\ p.value = [w EXCEPT ![i] = v]
        /\ p.size = n /\ p.used = m
    BY <1>5
  <1>7. u = [old |-> o, grown |-> p, key |-> EmptyFlag, val |-> Junk, j |-> j]
    <2>1. u = [s EXCEPT !.grown.key[i] = k, !.grown.value[i] = v,
                        !.key = EmptyFlag, !.val = Junk]
      BY <1>2 DEF Aln!Place
    <2>2. PICK q : q = [count |-> c, key |-> [f EXCEPT ![i] = k], value |-> w,
                        size |-> n, used |-> m]
      OBVIOUS
    <2>3. q = [g EXCEPT !.key[i] = k]
      BY <1>3, <2>2
    <2>4. p = [q EXCEPT !.value[i] = v]
      BY <1>5, <2>2
    <2>5. PICK h : h = [s EXCEPT !.grown.key[i] = k]
      OBVIOUS
    <2>6. h = [old |-> o, grown |-> q, key |-> k, val |-> v, j |-> j]
      BY <1>1, <2>3, <2>5
    <2>7. u = [h EXCEPT !.grown.value[i] = v, !.key = EmptyFlag, !.val = Junk]
      BY <2>1, <2>5
    <2> QED
      BY <2>4, <2>6, <2>7
  <1>8. u.old = o /\ u.grown = p /\ u.key = EmptyFlag /\ u.val = Junk /\ u.j = j
    BY <1>7
  <1>9. IsMove(u)
    BY <1>7, <1>8, Zenon DEF IsMove
  <1>10. IsTable(p)
    BY <1>5, <1>6, Zenon DEF IsTable
  <1> QED
    BY <1>2, <1>4, <1>6, <1>8, <1>9, <1>10
-----------------------------------------------------------------------------
\* One round of resize, and what it starts with.
OneRound(s) == IF s.key = EmptyFlag THEN Aln!Look(s) ELSE Aln!Put(s)
Started(t, n) == [old |-> t, grown |-> [Aln!Fresh(n) EXCEPT !.size = t.size, !.used = t.size],
                  key |-> EmptyFlag, val |-> Junk, j |-> 0]

\* Its recursion can be carried out.
LEMMA SlotResizeRounds ==
  ASSUME NEW t, t.count \in Nat, NEW n
  PROVE  \E f : /\ f[0] = Started(t, n)
                /\ \A r \in 0..2 * t.count - 1 : f[r + 1] = OneRound(f[r])
                /\ Aln!Resize(t, n) = f[2 * t.count].grown
  <1> DEFINE Step(f, r) == IF r = 0 THEN Started(t, n) ELSE OneRound(f[r - 1])
             IsRun(c, f) == f = [r \in 0..c |-> Step(f, r)]
             Reached == {c \in Nat : \E f : IsRun(c, f)}
  <1>1. 0 \in Reached
    <2>1. IsRun(0, [r \in 0..0 |-> Started(t, n)])
      OBVIOUS
    <2> QED
      BY <2>1
  <1>2. ASSUME NEW c \in Nat, c \in Reached PROVE c + 1 \in Reached
    <2>1. PICK f : IsRun(c, f)
      BY <1>2
    <2> DEFINE g == [r \in 0..c + 1 |-> IF r = c + 1 THEN OneRound(f[c]) ELSE f[r]]
    <2>2. ASSUME NEW r \in 0..c + 1 PROVE g[r] = Step(g, r)
      <3>1. CASE r = c + 1
        <4>1. r # 0 /\ r - 1 = c /\ g[c] = f[c]
          BY <3>1
        <4> QED
          BY <3>1, <4>1
      <3>2. CASE r # c + 1
        <4>1. r \in 0..c /\ g[r] = f[r] /\ (r # 0 => r - 1 \in 0..c /\ g[r - 1] = f[r - 1])
          BY <3>2
        <4>2. f[r] = Step(f, r)
          BY <2>1, <4>1
        <4> QED
          BY <4>1, <4>2
      <3> QED
        BY <3>1, <3>2
    <2>3. g = [r \in 0..c + 1 |-> Step(g, r)]
      BY <2>2
    <2> HIDE DEF g, Step
    <2>4. c + 1 \in Nat
      OBVIOUS
    <2> QED
      BY <2>3, <2>4
  <1> HIDE DEF Reached
  <1>3. 2 * t.count \in Nat
    OBVIOUS
  <1>4. 2 * t.count \in Reached
    BY <1>1, <1>2, <1>3, AllNaturals
  <1>5. \E f : IsRun(2 * t.count, f)
    BY <1>4 DEF Reached
  <1> DEFINE round == CHOOSE f : IsRun(2 * t.count, f)
  <1>6. IsRun(2 * t.count, round)
    BY <1>5
  <1>7. Aln!Resize(t, n) = round[2 * t.count].grown
    BY DEF Aln!Resize, Started, OneRound
  <1> HIDE DEF round
  <1>8. round[0] = Started(t, n)
    BY <1>3, <1>6
  <1>9. ASSUME NEW r \in 0..2 * t.count - 1 PROVE round[r + 1] = OneRound(round[r])
    <2>1. r + 1 \in 0..2 * t.count /\ r + 1 # 0 /\ (r + 1) - 1 = r
      BY <1>3
    <2> QED
      BY <1>6, <2>1
  <1> QED
    BY <1>7, <1>8, <1>9
-----------------------------------------------------------------------------
\* What is left of the table t, and the new one with n buckets.
OldIs(t, o) ==
    /\ SlotShaped(o) /\ o.count = t.count /\ o.value = t.value
    /\ \A i \in Indices(t) : Aln!Exists(o, i) => Aln!Exists(t, i) /\ o.key[i] = t.key[i]
GrownIs(t, n, g) ==
    /\ SlotShaped(g) /\ SlotReachable(g)
    /\ g.count = n /\ g.size = t.size /\ g.used = t.size
    /\ \A i \in Indices(g) : g.key[i] # DeletedFlag

\* Each entry of t is in the old table, in the new one, or moved next, with
\* its key k and its value v; none is in two of these places.
Spread(t, o, g, k, v) ==
    \A j \in TableKeys, w \in TableValues :
        SlotHolds(t, j, w) <=> SlotHolds(o, j, w) \/ SlotHolds(g, j, w) \/ (k = j /\ v = w)
Apart(o, g, k) ==
    \A j \in TableKeys :
        /\ SlotHasKey(o, j) => ~SlotHasKey(g, j) /\ k # j
        /\ SlotHasKey(g, j) => k # j
InHand(k) == IF k = EmptyFlag THEN 0 ELSE 1
AllThere(t, o, g, k) ==
    Cardinality(SlotEntries(o)) + Cardinality(SlotEntries(g)) + InHand(k) = t.size

Sharing(t, n, o, g, k, v) ==
    /\ OldIs(t, o) /\ GrownIs(t, n, g)
    /\ k \in TableKeys \cup {EmptyFlag} /\ (k # EmptyFlag => v \in TableValues)
    /\ Spread(t, o, g, k, v) /\ Apart(o, g, k) /\ AllThere(t, o, g, k)

\* An entry is taken out of the old table.
LEMMA TakeKeeps ==
  ASSUME NEW t, SlotShaped(t), SlotReachable(t), NEW n, NEW o, NEW g, NEW w,
         Sharing(t, n, o, g, EmptyFlag, w),
         NEW i \in Indices(t), Aln!Exists(o, i), NEW k, k = o.key[i], NEW v, v = o.value[i],
         NEW p, IsTable(p), p.count = o.count, p.value = o.value, p.size = o.size, p.used = o.used,
         p.key = [o.key EXCEPT ![i] = DeletedFlag]
  PROVE  /\ Sharing(t, n, p, g, k, v) /\ k # EmptyFlag
         /\ \A j \in Indices(t) : Aln!Exists(p, j) <=> Aln!Exists(o, j) /\ j # i
  <1>1. /\ SlotShaped(o) /\ o.count = t.count /\ o.value = t.value
        /\ \A j \in Indices(t) : Aln!Exists(o, j) => Aln!Exists(t, j) /\ o.key[j] = t.key[j]
    BY DEF Sharing, OldIs
  <1>2. Indices(o) = Indices(t) /\ o.size \in Nat /\ o.used \in Nat
    BY <1>1 DEF Indices, SlotShaped
  <1>3. /\ SlotShaped(p) /\ Indices(p) = Indices(t)
        /\ \A j \in Indices(t) : j # i => p.key[j] = o.key[j] /\ p.value[j] = o.value[j]
        /\ \A j \in Indices(t) : Aln!Exists(p, j) <=> Aln!Exists(o, j) /\ j # i
        /\ Cardinality(SlotEntries(p)) = Cardinality(SlotEntries(o)) - 1
    <2>1. SlotLoses(o, p, i)
      BY <1>2 DEF SlotLoses
    <2> QED
      BY <1>1, <1>2, <2>1, SlotTakesOut
  <1>4. OldIs(t, p)
    BY <1>1, <1>3 DEF OldIs
  <1>5. k \in TableKeys /\ v \in TableValues /\ k # EmptyFlag
    BY <1>1, <1>2, SlotKeys, SlotConstants
  <1>6. \A j \in Indices(t) : Aln!Exists(o, j) /\ o.key[j] = k => j = i
    BY <1>1, SlotKeysDiffer
  <1>7. Spread(t, p, g, k, v)
    <2> SUFFICES ASSUME NEW a \in TableKeys, NEW b \in TableValues
                 PROVE  SlotHolds(t, a, b) <=>
                            SlotHolds(p, a, b) \/ SlotHolds(g, a, b) \/ (k = a /\ v = b)
      BY DEF Spread
    <2>1. SlotHolds(t, a, b) <=> SlotHolds(o, a, b) \/ SlotHolds(g, a, b)
      BY SlotConstants DEF Sharing, Spread
    <2>2. SlotHolds(o, a, b) <=> SlotHolds(p, a, b) \/ (k = a /\ v = b)
      BY <1>2, <1>3 DEF SlotHolds
    <2> QED
      BY <2>1, <2>2
  <1>8. \A j \in TableKeys : SlotHasKey(p, j) <=> SlotHasKey(o, j) /\ j # k
    BY <1>2, <1>3, <1>6 DEF SlotHasKey
  <1>9. SlotHasKey(o, k)
    BY <1>2 DEF SlotHasKey
  <1>10. Apart(p, g, k)
    BY <1>5, <1>8, <1>9 DEF Sharing, Apart
  <1>11. AllThere(t, p, g, k)
    <2>1. /\ Cardinality(SlotEntries(o)) \in Nat /\ Cardinality(SlotEntries(g)) \in Nat
      BY SlotsAreFinite DEF Sharing, OldIs, GrownIs
    <2>2. Cardinality(SlotEntries(o)) + Cardinality(SlotEntries(g)) + 0 = t.size
      BY DEF Sharing, AllThere, InHand
    <2>3. InHand(k) = 1
      BY <1>5 DEF InHand
    <2> QED
      BY <1>3, <2>1, <2>2, <2>3 DEF AllThere
  <1>12. GrownIs(t, n, g)
    BY DEF Sharing
  <1> QED
    BY <1>3, <1>4, <1>5, <1>7, <1>10, <1>11, <1>12 DEF Sharing

\* The new table has room, and the entry in hand goes to an empty bucket.
LEMMA VacantIsEmpty ==
  ASSUME NEW t, SlotShaped(t), NEW n \in Nat, t.size < n, NEW o, NEW g, NEW k, NEW v,
         Sharing(t, n, o, g, k, v), k # EmptyFlag, NEW i, i = Aln!Vacant(g, k)
  PROVE  /\ i \in Indices(g) /\ g.key[i] = EmptyFlag
         /\ \E s \in 0..n - 1 : i = Aln!Home(n, k, s) /\ SlotsPassed(g, k, s)
  <1>1. /\ SlotShaped(g) /\ SlotReachable(g) /\ g.count = n
        /\ \A j \in Indices(g) : g.key[j] # DeletedFlag
        /\ SlotShaped(o) /\ t.size \in Nat
    BY DEF Sharing, GrownIs, OldIs, SlotShaped
  <1>2. k \in TableKeys /\ ~SlotHasKey(g, k)
    BY DEF Sharing, Apart
  <1>3. SlotTaken(g) = SlotEntries(g)
    BY <1>1 DEF SlotTaken, SlotEntries, Aln!Exists
  <1>4. Cardinality(SlotTaken(g)) < g.count
    <2>1. Cardinality(SlotEntries(o)) \in Nat /\ Cardinality(SlotEntries(g)) \in Nat
      BY <1>1, SlotsAreFinite
    <2>2. Cardinality(SlotEntries(o)) + Cardinality(SlotEntries(g)) + 1 = t.size
      BY DEF Sharing, AllThere, InHand
    <2> QED
      BY <1>1, <1>3, <2>1, <2>2
  <1>5. PICK e \in Indices(g) : g.key[e] = EmptyFlag
    BY <1>1, <1>4, OneSlotIsEmpty
  <1>6. n \in Nat \ {0} /\ Indices(g) = 0..n - 1
    BY <1>1 DEF Indices
  <1> DEFINE S == {s \in 0..n - 1 : g.key[Aln!Home(n, k, s)] = EmptyFlag}
  <1>7. S \in SUBSET Nat /\ S # {}
    <2>1. \E s \in 0..n - 1 : Aln!Home(n, k, s) = e
      BY <1>2, <1>5, <1>6, EverySlotProbed
    <2>2. S # {}
      BY <1>5, <2>1
    <2> QED
      BY <1>6, <2>2
  <1>8. PICK s \in S : s = Aln!First(S) /\ \A r \in S : s <= r
    BY <1>7, FirstIsLeast DEF Aln!First, First
  <1>9. i = Aln!Home(n, k, s)
    BY <1>1, <1>8 DEF Aln!Vacant
  <1>10. s \in 0..n - 1 /\ s \in Nat /\ g.key[i] = EmptyFlag
    BY <1>6, <1>8, <1>9
  <1>11. SlotsPassed(g, k, s)
    <2> SUFFICES ASSUME NEW r \in 0..s - 1, NEW c, c = Aln!Home(n, k, r)
                 PROVE  c \in Indices(g) /\ g.key[c] # EmptyFlag /\ g.key[c] # k
      BY <1>1 DEF SlotsPassed
    <2>1. r \in 0..n - 1 /\ r \in Nat /\ ~(s <= r)
      BY <1>6, <1>10
    <2>2. r \notin S
      BY <1>8, <2>1
    <2>3. c \in Indices(g)
      BY <1>2, <1>6, <2>1, EverySlotProbed
    <2>4. g.key[c] # EmptyFlag
      BY <2>1, <2>2
    <2>5. Aln!Exists(g, c)
      BY <1>1, <2>3, <2>4 DEF Aln!Exists
    <2> QED
      BY <1>2, <2>3, <2>4, <2>5 DEF SlotHasKey
  <1>12. i \in Indices(g)
    BY <1>2, <1>6, <1>9, <1>10, EverySlotProbed
  <1> HIDE DEF S
  <1> QED
    BY <1>9, <1>10, <1>11, <1>12

\* There it is found.
LEMMA PlaceKeeps ==
  ASSUME NEW t, SlotShaped(t), NEW n \in Nat, t.size < n, NEW o, NEW g, NEW k, NEW v,
         Sharing(t, n, o, g, k, v), k # EmptyFlag, NEW i, i = Aln!Vacant(g, k),
         NEW h, IsTable(h), h.count = g.count, h.size = g.size, h.used = g.used,
         h.key = [g.key EXCEPT ![i] = k], h.value = [g.value EXCEPT ![i] = v]
  PROVE  /\ Sharing(t, n, o, h, EmptyFlag, Junk)
         /\ Cardinality(SlotEntries(h)) = Cardinality(SlotEntries(g)) + 1
         /\ Cardinality(SlotEntries(g)) \in Nat
  <1>1. /\ SlotShaped(g) /\ SlotReachable(g) /\ g.count = n
        /\ g.size = t.size /\ g.used = t.size
        /\ \A j \in Indices(g) : g.key[j] # DeletedFlag
        /\ SlotShaped(o) /\ t.size \in Nat
    BY DEF Sharing, GrownIs, OldIs, SlotShaped
  <1>2. k \in TableKeys /\ v \in TableValues /\ ~SlotHasKey(g, k) /\ ~SlotHasKey(o, k)
    BY DEF Sharing, Apart
  <1>3. i \in Indices(g) /\ g.key[i] = EmptyFlag /\ ~Aln!Exists(g, i)
    BY VacantIsEmpty DEF Aln!Exists
  <1>4. PICK s \in 0..n - 1 : i = Aln!Home(n, k, s) /\ SlotsPassed(g, k, s)
    BY VacantIsEmpty
  <1>5. /\ SlotShaped(h) /\ Indices(h) = Indices(g)
        /\ h.key[i] = k /\ h.value[i] = v
        /\ \A j \in Indices(g) : j # i => h.key[j] = g.key[j] /\ h.value[j] = g.value[j]
        /\ \A j \in Indices(g) : Aln!Exists(h, j) <=> Aln!Exists(g, j) \/ j = i
        /\ Cardinality(SlotEntries(h)) = Cardinality(SlotEntries(g)) + 1
    <2>1. SlotGains(g, h, i, k, v)
      BY <1>1 DEF SlotGains
    <2>2. /\ SlotShaped(g) /\ i \in Indices(g) /\ ~Aln!Exists(g, i)
          /\ k \in TableKeys /\ v \in TableValues
      BY <1>1, <1>2, <1>3
    <2>3. SlotShaped(h)
      BY <2>1, <2>2, SlotPutsIn
    <2>7. h.key[i] = k /\ h.value[i] = v /\ Indices(h) = Indices(g)
      BY <2>2 DEF SlotShaped, Indices
    <2>4. \A j \in Indices(g) : j # i => h.key[j] = g.key[j] /\ h.value[j] = g.value[j]
      BY <2>1, <2>2, SlotPutsIn
    <2>5. \A j \in Indices(g) : Aln!Exists(h, j) <=> Aln!Exists(g, j) \/ j = i
      BY <2>1, <2>2, SlotPutsIn
    <2>6. Cardinality(SlotEntries(h)) = Cardinality(SlotEntries(g)) + 1
      BY <2>1, <2>2, SlotPutsIn
    <2> QED
      BY <2>3, <2>4, <2>5, <2>6, <2>7
  <1>6. SlotReachable(h)
    BY <1>1, <1>2, <1>3, <1>4, SlotFillsIsReachable
  <1>7. \A j \in Indices(h) : h.key[j] # DeletedFlag
    BY <1>1, <1>2, <1>5, SlotConstants
  <1>8. GrownIs(t, n, h)
    BY <1>1, <1>5, <1>6, <1>7 DEF GrownIs
  <1>9. Spread(t, o, h, EmptyFlag, Junk)
    <2> SUFFICES ASSUME NEW a \in TableKeys, NEW b \in TableValues
                 PROVE  SlotHolds(t, a, b) <=> SlotHolds(o, a, b) \/ SlotHolds(h, a, b)
      BY SlotConstants DEF Spread
    <2>1. /\ SlotHolds(t, a, b) <=>
               SlotHolds(o, a, b) \/ SlotHolds(g, a, b) \/ (k = a /\ v = b)
      BY DEF Sharing, Spread
    <2>2. SlotHolds(h, a, b) <=> SlotHolds(g, a, b) \/ (k = a /\ v = b)
      BY <1>3, <1>5 DEF SlotHolds
    <2> QED
      BY <2>1, <2>2
  <1>10. \A j \in TableKeys : SlotHasKey(h, j) <=> SlotHasKey(g, j) \/ j = k
    BY <1>3, <1>5 DEF SlotHasKey
  <1>11. Apart(o, h, EmptyFlag)
    BY <1>2, <1>10, SlotConstants DEF Sharing, Apart
  <1>12. Cardinality(SlotEntries(o)) \in Nat /\ Cardinality(SlotEntries(g)) \in Nat
    BY <1>1, SlotsAreFinite
  <1>13. AllThere(t, o, h, EmptyFlag)
    <2>1. Cardinality(SlotEntries(o)) + Cardinality(SlotEntries(g)) + 1 = t.size
      BY DEF Sharing, AllThere, InHand
    <2>2. InHand(EmptyFlag) = 0
      BY DEF InHand
    <2> QED
      BY <1>5, <1>12, <2>1, <2>2 DEF AllThere
  <1>14. OldIs(t, o)
    BY DEF Sharing
  <1> QED
    BY <1>5, <1>8, <1>9, <1>11, <1>12, <1>13, <1>14 DEF Sharing
-----------------------------------------------------------------------------
\* The invariant of resize from t to n buckets, after r rounds: each round but
\* the last ones looks at one more bucket or fills one more.
Moving(t, n, r, s) ==
    /\ IsMove(s) /\ Sharing(t, n, s.old, s.grown, s.key, s.val)
    /\ s.j \in 0..t.count /\ \A i \in Indices(t) : i < s.j => ~Aln!Exists(s.old, i)
    /\ \/ s.j = t.count /\ s.key = EmptyFlag
       \/ r = s.j + Cardinality(SlotEntries(s.grown))

\* Looking at a bucket of the old table.
LEMMA LookKeeps ==
  ASSUME NEW t, SlotShaped(t), SlotReachable(t), NEW n \in Nat, t.size < n, NEW r \in Nat,
         NEW s, Moving(t, n, r, s), s.key = EmptyFlag, NEW u, u = Aln!Look(s)
  PROVE  Moving(t, n, r + 1, u)
  <1>1. PICK o, g, v, j : s = [old |-> o, grown |-> g, key |-> EmptyFlag, val |-> v, j |-> j]
    BY DEF Moving, IsMove
  <1>2. s.old = o /\ s.grown = g /\ s.key = EmptyFlag /\ s.val = v /\ s.j = j
    BY <1>1
  <1>3. /\ Sharing(t, n, o, g, EmptyFlag, v) /\ j \in 0..t.count /\ t.count \in Nat
        /\ \A i \in Indices(t) : i < j => ~Aln!Exists(o, i)
        /\ j = t.count \/ r = j + Cardinality(SlotEntries(g))
    BY <1>2 DEF Moving, SlotShaped
  <1>4. o.count = t.count /\ IsTable(o) /\ SlotShaped(g)
    BY <1>3 DEF Sharing, OldIs, GrownIs, SlotShaped
  <1>5. Cardinality(SlotEntries(g)) \in Nat
    BY <1>4, SlotsAreFinite
  <1>6. CASE j = t.count
    <2>1. u = s
      BY <1>2, <1>4, <1>6 DEF Aln!Look
    <2> QED
      BY <1>2, <1>6, <2>1 DEF Moving
  <1>7. CASE j # t.count
    <2>1. j \in Indices(t) /\ j + 1 \in 0..t.count
      BY <1>3, <1>7 DEF Indices
    <2>2. PICK p : p = [s EXCEPT !.j = @ + 1]
      OBVIOUS
    <2>3. p = [old |-> o, grown |-> g, key |-> EmptyFlag, val |-> v, j |-> j + 1]
      BY <1>1, <2>2
    <2>4. p.old = o /\ p.grown = g /\ p.key = EmptyFlag /\ p.val = v /\ p.j = j + 1
      BY <2>3
    <2>5. IsMove(p)
      BY <2>3, <2>4, Zenon DEF IsMove
    <2>6. u = IF Aln!Exists(o, j) THEN Aln!Take(p, j) ELSE p
      BY <1>2, <1>4, <1>7, <2>2 DEF Aln!Look
    <2>7. r + 1 = (j + 1) + Cardinality(SlotEntries(g))
      BY <1>3, <1>5, <1>7
    <2>8. CASE Aln!Exists(o, j)
      <3>1. /\ IsMove(u) /\ u.grown = g /\ u.j = j + 1
            /\ u.key = o.key[j] /\ u.val = o.value[j]
            /\ IsTable(u.old) /\ u.old.count = o.count /\ u.old.value = o.value
            /\ u.old.size = o.size /\ u.old.used = o.used
            /\ u.old.key = [o.key EXCEPT ![j] = DeletedFlag]
        <4>1. u = Aln!Take(p, j)
          BY <2>6, <2>8
        <4>2. IsTable(p.old)
          BY <1>4, <2>4
        <4>3. TakenFrom(p, u, j)
          BY <2>5, <4>1, <4>2, TakeDoes
        <4> QED
          BY <2>4, <4>3 DEF TakenFrom
      <3>2. /\ Sharing(t, n, u.old, g, u.key, u.val)
            /\ \A i \in Indices(t) : Aln!Exists(u.old, i) <=> Aln!Exists(o, i) /\ i # j
        BY <1>3, <2>1, <2>8, <3>1, TakeKeeps
      <3>3. \A i \in Indices(t) : i < j + 1 => ~Aln!Exists(u.old, i)
        BY <1>3, <3>2 DEF Indices
      <3> QED
        BY <2>1, <2>7, <3>1, <3>2, <3>3 DEF Moving
    <2>9. CASE ~Aln!Exists(o, j)
      <3>1. u = p
        BY <2>6, <2>9
      <3>2. \A i \in Indices(t) : i < j + 1 => ~Aln!Exists(o, i)
        BY <1>3, <2>9 DEF Indices
      <3> QED
        BY <1>3, <2>1, <2>4, <2>5, <2>7, <3>1, <3>2 DEF Moving
    <2> QED
      BY <2>8, <2>9
  <1> QED
    BY <1>6, <1>7

\* Putting an entry into the new one.
LEMMA PutKeeps ==
  ASSUME NEW t, SlotShaped(t), SlotReachable(t), NEW n \in Nat, t.size < n, NEW r \in Nat,
         NEW s, Moving(t, n, r, s), s.key # EmptyFlag, NEW u, u = Aln!Put(s)
  PROVE  Moving(t, n, r + 1, u)
  <1>1. PICK o, g, k, v, j : o = s.old /\ g = s.grown /\ k = s.key /\ v = s.val /\ j = s.j
    OBVIOUS
  <1>2. /\ Sharing(t, n, o, g, k, v) /\ k # EmptyFlag
        /\ j \in 0..t.count /\ t.count \in Nat
        /\ \A b \in Indices(t) : b < j => ~Aln!Exists(o, b)
        /\ r = j + Cardinality(SlotEntries(g))
    BY <1>1 DEF Moving, SlotShaped
  <1>3. o.count = t.count /\ IsTable(o) /\ IsTable(g) /\ IsMove(s)
    BY <1>2 DEF Sharing, OldIs, GrownIs, SlotShaped, Moving
  <1>4. PICK i, p : i = Aln!Vacant(g, k) /\ p = Aln!Place(s)
    OBVIOUS
  <1>5. PICK h : h = p.grown
    OBVIOUS
  <1>6. /\ IsMove(p) /\ p.old = o /\ p.j = j /\ p.key = EmptyFlag /\ p.val = Junk
        /\ IsTable(h) /\ h.count = g.count /\ h.size = g.size /\ h.used = g.used
        /\ h.key = [g.key EXCEPT ![i] = k] /\ h.value = [g.value EXCEPT ![i] = v]
    BY <1>1, <1>3, <1>4, <1>5, PlaceDoes
  <1>7. /\ Sharing(t, n, o, h, EmptyFlag, Junk)
        /\ Cardinality(SlotEntries(h)) = Cardinality(SlotEntries(g)) + 1
        /\ Cardinality(SlotEntries(g)) \in Nat
    BY <1>2, <1>4, <1>6, PlaceKeeps
  <1>8. r + 1 = j + Cardinality(SlotEntries(h))
    BY <1>2, <1>7
  <1>9. u = IF i < o.count /\ Aln!Exists(o, i) THEN Aln!Take(p, i) ELSE p
    BY <1>1, <1>4 DEF Aln!Put
  <1>10. CASE i < o.count /\ Aln!Exists(o, i)
    <2>1. i \in Indices(t)
      <3>1. i \in Indices(g) /\ SlotShaped(g)
        BY <1>2, <1>4, VacantIsEmpty DEF Sharing, GrownIs
      <3> QED
        BY <1>2, <1>3, <1>10, <3>1 DEF Indices, SlotShaped
    <2>2. /\ IsMove(u) /\ u.grown = h /\ u.j = j
          /\ u.key = o.key[i] /\ u.val = o.value[i]
          /\ IsTable(u.old) /\ u.old.count = o.count /\ u.old.value = o.value
          /\ u.old.size = o.size /\ u.old.used = o.used
          /\ u.old.key = [o.key EXCEPT ![i] = DeletedFlag]
      <3>1. u = Aln!Take(p, i)
        BY <1>9, <1>10
      <3>2. IsMove(p) /\ IsTable(p.old)
        BY <1>3, <1>6
      <3>3. TakenFrom(p, u, i)
        BY <3>1, <3>2, TakeDoes
      <3> QED
        BY <1>5, <1>6, <3>3 DEF TakenFrom
    <2>3. /\ Sharing(t, n, u.old, h, u.key, u.val)
          /\ \A b \in Indices(t) : Aln!Exists(u.old, b) <=> Aln!Exists(o, b) /\ b # i
      BY <1>7, <1>10, <2>1, <2>2, TakeKeeps
    <2> QED
      BY <1>2, <1>8, <2>2, <2>3 DEF Moving
  <1>11. CASE ~(i < o.count /\ Aln!Exists(o, i))
    <2>1. u = p
      BY <1>9, <1>11
    <2> QED
      BY <1>2, <1>5, <1>6, <1>7, <1>8, <2>1 DEF Moving
  <1> QED
    BY <1>10, <1>11

\* What resize makes of a table that leaves room in the new one.
LEMMA SlotResizeIsSound ==
  ASSUME NEW t, SlotSound(t), SlotReachable(t), NEW n \in Nat, n # 1, t.size < n,
         NEW u, u = Aln!Resize(t, n)
  PROVE  /\ SlotShaped(u) /\ SlotCounted(u) /\ SlotReachable(u)
         /\ u.count = n /\ u.used = t.size /\ u.size = t.size
         /\ \A k \in TableKeys, v \in TableValues : SlotHolds(u, k, v) <=> SlotHolds(t, k, v)
  <1>1. SlotShaped(t) /\ SlotCounted(t) /\ t.count \in Nat /\ t.size \in Nat /\ t.used \in Nat
    BY DEF SlotSound, SlotShaped
  <1>2. PICK f : /\ f[0] = Started(t, n)
                 /\ \A r \in 0..2 * t.count - 1 : f[r + 1] = OneRound(f[r])
                 /\ u = f[2 * t.count].grown
    BY <1>1, SlotResizeRounds
  <1> DEFINE Moved == {r \in Nat : r <= 2 * t.count => Moving(t, n, r, f[r])}
  <1>3. 0 \in Moved
    <2>1. PICK g : g = [Aln!Fresh(n) EXCEPT !.size = t.size, !.used = t.size]
      OBVIOUS
    <2>2. f[0] = [old |-> t, grown |-> g, key |-> EmptyFlag, val |-> Junk, j |-> 0]
      BY <1>2, <2>1 DEF Started
    <2>3. /\ f[0].old = t /\ f[0].grown = g /\ f[0].key = EmptyFlag
          /\ f[0].val = Junk /\ f[0].j = 0
      BY <2>2
    <2>4. IsMove(f[0])
      BY <2>2, <2>3, Zenon DEF IsMove
    <2>5. PICK e : e = Aln!Fresh(n)
      OBVIOUS
    <2>6. /\ SlotShaped(e) /\ e.count = n
          /\ \A i \in Indices(e) : ~Aln!Exists(e, i) /\ e.key[i] = EmptyFlag
      BY <2>5, FreshSlots DEF SlotSound
    <2>7. /\ IsTable(g) /\ g.count = n /\ g.size = t.size /\ g.used = t.size
          /\ g.key = e.key /\ g.value = e.value
      <3>1. e = [count |-> e.count, key |-> e.key, value |-> e.value,
                 size |-> e.size, used |-> e.used]
        BY <2>6 DEF SlotShaped, IsTable
      <3>2. g = [count |-> e.count, key |-> e.key, value |-> e.value,
                 size |-> t.size, used |-> t.size]
        BY <2>1, <2>5, <3>1
      <3>3. /\ g.count = e.count /\ g.key = e.key /\ g.value = e.value
            /\ g.size = t.size /\ g.used = t.size
        BY <3>2
      <3>4. IsTable(g)
        BY <3>2, <3>3, Zenon DEF IsTable
      <3> QED
        BY <2>6, <3>3, <3>4
    <2>8. Indices(g) = Indices(e) /\ \A i : Aln!Exists(g, i) <=> Aln!Exists(e, i)
      BY <2>6, <2>7 DEF Indices, Aln!Exists
    <2>9. SlotShaped(g)
      BY <1>1, <2>6, <2>7, <2>8 DEF SlotShaped
    <2>10. /\ \A i \in Indices(g) : ~Aln!Exists(g, i) /\ g.key[i] = EmptyFlag
           /\ SlotEntries(g) = {}
      BY <2>6, <2>7, <2>8 DEF SlotEntries
    <2>11. /\ SlotReachable(g) /\ \A k : ~SlotHasKey(g, k)
           /\ \A k, v : ~SlotHolds(g, k, v)
      BY <2>10 DEF SlotReachable, SlotHasKey, SlotHolds
    <2>12. GrownIs(t, n, g)
      BY <2>7, <2>9, <2>10, <2>11, SlotConstants DEF GrownIs
    <2>13. OldIs(t, t)
      BY <1>1 DEF OldIs
    <2>14. Spread(t, t, g, EmptyFlag, Junk) /\ Apart(t, g, EmptyFlag)
      BY <2>11, SlotConstants DEF Spread, Apart
    <2>15. Cardinality(SlotEntries(g)) = 0
      BY <2>10, FS_EmptySet
    <2>16. AllThere(t, t, g, EmptyFlag)
      BY <1>1, <2>15 DEF AllThere, InHand, SlotCounted
    <2>17. Sharing(t, n, t, g, EmptyFlag, Junk)
      BY <2>12, <2>13, <2>14, <2>16 DEF Sharing
    <2>18. Moving(t, n, 0, f[0])
      BY <1>1, <2>3, <2>4, <2>15, <2>17 DEF Moving, Indices
    <2> QED
      BY <2>18
  <1>4. ASSUME NEW r \in Nat, r \in Moved PROVE r + 1 \in Moved
    <2> SUFFICES ASSUME r + 1 <= 2 * t.count PROVE Moving(t, n, r + 1, f[r + 1])
      OBVIOUS
    <2>1. r \in 0..2 * t.count - 1 /\ Moving(t, n, r, f[r])
      BY <1>1, <1>4
    <2>2. f[r + 1] = OneRound(f[r])
      BY <1>2, <2>1
    <2>3. CASE f[r].key = EmptyFlag
      BY <1>1, <2>1, <2>2, <2>3, LookKeeps DEF OneRound
    <2>4. CASE f[r].key # EmptyFlag
      BY <1>1, <2>1, <2>2, <2>4, PutKeeps DEF OneRound
    <2> QED
      BY <2>3, <2>4
  <1> HIDE DEF Moved
  <1>5. 2 * t.count \in Moved /\ 2 * t.count \in Nat
    BY <1>1, <1>3, <1>4, AllNaturals
  <1>6. PICK s : s = f[2 * t.count]
    OBVIOUS
  <1>7. Moving(t, n, 2 * t.count, s) /\ u = s.grown
    BY <1>2, <1>5, <1>6 DEF Moved
  <1>8. PICK o, k, v : o = s.old /\ k = s.key /\ v = s.val
    OBVIOUS
  <1>9. /\ Sharing(t, n, o, u, k, v) /\ GrownIs(t, n, u) /\ SlotShaped(o)
        /\ o.count = t.count
    BY <1>7, <1>8 DEF Moving, Sharing, OldIs
  <1>10. Cardinality(SlotEntries(o)) \in Nat /\ Cardinality(SlotEntries(u)) \in Nat
    BY <1>9, SlotsAreFinite DEF GrownIs
  <1>11. Cardinality(SlotEntries(o)) + Cardinality(SlotEntries(u)) + InHand(k) = t.size
    BY <1>9 DEF Sharing, AllThere
  <1>12. s.j = t.count /\ k = EmptyFlag
    <2> SUFFICES ASSUME ~(s.j = t.count /\ k = EmptyFlag) PROVE FALSE
      OBVIOUS
    <2>1. s.j \in 0..t.count /\ 2 * t.count = s.j + Cardinality(SlotEntries(u))
      BY <1>7, <1>8 DEF Moving
    <2>2. Cardinality(SlotEntries(u)) <= t.size
      BY <1>10, <1>11 DEF InHand
    <2>3. t.size <= t.used
      BY <1>1, SlotsAreFinite DEF SlotCounted
    <2>4. CASE t.count = 0
      <3>1. s.j = 0 /\ t.size = 0
        BY <1>1, <2>1, <2>3, <2>4, Halves DEF SlotSound
      <3>2. InHand(k) = 0
        BY <1>10, <1>11, <3>1 DEF InHand
      <3> QED
        BY <2>4, <3>1, <3>2 DEF InHand
    <2>5. CASE t.count # 0
      <3>1. t.count > 1
        BY <1>1, <2>5 DEF SlotSound
      <3>2. Aln!Sup(t.count) \in Nat /\ Aln!Sup(t.count) < t.count /\ t.used <= Aln!Sup(t.count)
        BY <1>1, <3>1, Halves DEF SlotSound
      <3>3. Cardinality(SlotEntries(u)) < t.count
        BY <1>1, <1>10, <2>2, <2>3, <3>2
      <3> QED
        BY <1>1, <1>10, <2>1, <3>3
    <2> QED
      BY <2>4, <2>5
  <1>13. \A i \in Indices(t) : ~Aln!Exists(o, i)
    BY <1>7, <1>8, <1>12 DEF Moving, Indices
  <1>14. Indices(o) = Indices(t) /\ SlotEntries(o) = {} /\ \A j, w : ~SlotHolds(o, j, w)
    BY <1>9, <1>13 DEF Indices, SlotEntries, SlotHolds
  <1>15. Cardinality(SlotEntries(u)) = t.size
    <2>1. Cardinality(SlotEntries(o)) = 0 /\ InHand(k) = 0
      BY <1>12, <1>14, FS_EmptySet DEF InHand
    <2> QED
      BY <1>10, <1>11, <2>1
  <1>16. SlotTaken(u) = SlotEntries(u)
    BY <1>9 DEF GrownIs, SlotTaken, SlotEntries, Aln!Exists
  <1>17. SlotCounted(u)
    BY <1>9, <1>15, <1>16 DEF GrownIs, SlotCounted
  <1>18. \A j \in TableKeys, w \in TableValues : SlotHolds(u, j, w) <=> SlotHolds(t, j, w)
    BY <1>9, <1>12, <1>14, SlotConstants DEF Sharing, Spread
  <1> QED
    BY <1>9, <1>17, <1>18 DEF GrownIs
-----------------------------------------------------------------------------
\* A table with buckets has an empty one.
LEMMA SlotSoundLeavesRoom ==
  ASSUME NEW t, SlotSound(t)
  PROVE  /\ SlotShaped(t) /\ SlotCounted(t) /\ t.size <= t.used
         /\ t.count \in Nat /\ t.size \in Nat /\ t.used \in Nat
         /\ t.count # 0 => /\ t.count > 1 /\ t.used < t.count
                           /\ \E e \in Indices(t) : t.key[e] = EmptyFlag
  <1>1. /\ SlotShaped(t) /\ SlotCounted(t)
        /\ t.count \in Nat /\ t.size \in Nat /\ t.used \in Nat
    BY DEF SlotSound, SlotShaped
  <1>2. t.size <= t.used
    BY <1>1, SlotsAreFinite DEF SlotCounted
  <1>3. ASSUME t.count # 0
        PROVE  /\ t.count > 1 /\ t.used < t.count
               /\ \E e \in Indices(t) : t.key[e] = EmptyFlag
    <2>1. t.count > 1
      BY <1>1, <1>3 DEF SlotSound
    <2>2. t.used <= Aln!Sup(t.count) /\ Aln!Sup(t.count) \in Nat /\ Aln!Sup(t.count) < t.count
      BY <1>1, <2>1, Halves DEF SlotSound
    <2>3. t.used < t.count
      BY <1>1, <2>2
    <2>4. Cardinality(SlotTaken(t)) < t.count
      BY <1>1, <2>3 DEF SlotCounted
    <2> QED
      BY <1>1, <2>1, <2>3, <2>4, OneSlotIsEmpty
  <1> QED
    BY <1>1, <1>2, <1>3

\* A key is stored just when the table says something of it.
LEMMA SlotHasKeyHolds ==
  ASSUME NEW t, SlotShaped(t), NEW k \in TableKeys
  PROVE  SlotHasKey(t, k) <=> \E v \in TableValues : SlotHolds(t, k, v)
  BY SlotKeys DEF SlotHasKey, SlotHolds

\* The table that set stores into: there is room, if only after it has grown.
LEMMA SlotGrows ==
  ASSUME NEW t, SlotSound(t), SlotReachable(t),
         NEW m, m = IF Aln!Full(t) THEN Aln!Resize(t, Aln!Larger(t)) ELSE t
  PROVE  /\ SlotShaped(m) /\ SlotCounted(m) /\ SlotReachable(m)
         /\ m.count \in Nat /\ m.count > 1 /\ m.used \in Nat
         /\ m.used < Aln!Sup(m.count)
         /\ \E e \in Indices(m) : m.key[e] = EmptyFlag
         /\ \A j \in TableKeys, w \in TableValues : SlotHolds(m, j, w) <=> SlotHolds(t, j, w)
  <1>1. /\ SlotShaped(t) /\ SlotCounted(t) /\ t.size <= t.used
        /\ t.count \in Nat /\ t.size \in Nat /\ t.used \in Nat
        /\ t.count # 0 => t.count > 1 /\ t.used < t.count
        /\ t.used <= Aln!Sup(t.count) /\ Aln!Sup(t.count) \in Nat
    BY SlotSoundLeavesRoom, Halves DEF SlotSound
  <1>2. /\ SlotShaped(m) /\ SlotCounted(m) /\ SlotReachable(m)
        /\ m.count \in Nat /\ m.count > 1 /\ m.used \in Nat
        /\ m.used < Aln!Sup(m.count)
        /\ \A j \in TableKeys, w \in TableValues : SlotHolds(m, j, w) <=> SlotHolds(t, j, w)
    <2>1. CASE ~Aln!Full(t)
      <3>1. m = t /\ t.used < Aln!Sup(t.count)
        BY <1>1, <2>1 DEF Aln!Full
      <3>2. t.count # 0
        BY <1>1, <3>1, Halves
      <3> QED
        BY <1>1, <3>1, <3>2
    <2>2. CASE Aln!Full(t)
      <3>1. PICK n : n = Aln!Larger(t)
        OBVIOUS
      <3>2. n \in Nat /\ n > 1 /\ t.size < n /\ t.size < Aln!Sup(n)
        <4>1. CASE t.count = 0
          <5>1. n = 2
            BY <3>1, <4>1 DEF Aln!Larger
          <5>2. t.size = 0 /\ Aln!Sup(2) = 1
            BY <1>1, <4>1, Halves
          <5> QED
            BY <5>1, <5>2
        <4>2. CASE t.count # 0
          <5>1. n = 2 * t.count
            BY <3>1, <4>2 DEF Aln!Larger
          <5>2. Aln!Sup(2 * t.count) = t.count
            BY <1>1, <4>2, Halves
          <5> QED
            BY <1>1, <4>2, <5>1, <5>2
        <4> QED
          BY <4>1, <4>2
      <3>3. m = Aln!Resize(t, n)
        BY <2>2, <3>1
      <3>4. n # 1
        BY <3>2
      <3>5. /\ SlotShaped(m) /\ SlotCounted(m) /\ SlotReachable(m)
            /\ m.count = n /\ m.used = t.size
            /\ \A j \in TableKeys, w \in TableValues : SlotHolds(m, j, w) <=> SlotHolds(t, j, w)
        BY <3>2, <3>3, <3>4, SlotResizeIsSound
      <3> QED
        BY <1>1, <3>2, <3>5
    <2> QED
      BY <2>1, <2>2
  <1>3. Cardinality(SlotTaken(m)) < m.count
    <2>1. Aln!Sup(m.count) \in Nat /\ Aln!Sup(m.count) < m.count
      BY <1>2, Halves
    <2> QED
      BY <1>2, <2>1 DEF SlotCounted
  <1> QED
    BY <1>2, <1>3, OneSlotIsEmpty

\* The table that set leaves.
LEMMA SlotSetIsSound ==
  ASSUME NEW t, SlotSound(t), SlotReachable(t), NEW k \in TableKeys, NEW v \in TableValues,
         NEW displace, NEW u, u = Aln!Set(t, k, v, displace)
  PROVE  /\ SlotSound(u) /\ SlotReachable(u)
         /\ SlotSays(t, u, k, v, displace) /\ SlotHasKey(u, k)
  <1>1. PICK m : m = IF Aln!Full(t) THEN Aln!Resize(t, Aln!Larger(t)) ELSE t
    OBVIOUS
  <1>2. u = Aln!Store(m, k, v, displace)
    BY <1>1 DEF Aln!Set
  <1>3. /\ SlotShaped(m) /\ SlotCounted(m) /\ SlotReachable(m)
        /\ m.count \in Nat /\ m.count > 1 /\ m.used \in Nat
        /\ m.used < Aln!Sup(m.count)
        /\ \A j \in TableKeys, w \in TableValues : SlotHolds(m, j, w) <=> SlotHolds(t, j, w)
    BY <1>1, SlotGrows
  <1>4. PICK e \in Indices(m) : m.key[e] = EmptyFlag
    BY <1>1, SlotGrows
  <1>5. /\ SlotShaped(u) /\ SlotCounted(u) /\ SlotReachable(u)
        /\ u.count = m.count /\ u.used <= m.used + 1
        /\ SlotSays(m, u, k, v, displace) /\ SlotHasKey(u, k)
    BY <1>2, <1>3, <1>4, SlotStoreIsSound
  <1>6. SlotSound(u)
    <2>1. u.used \in Nat /\ Aln!Sup(m.count) \in Nat
      BY <1>3, <1>5, Halves DEF SlotShaped
    <2> QED
      BY <1>3, <1>5, <2>1 DEF SlotSound
  <1>7. SlotHasKey(m, k) <=> SlotHasKey(t, k)
    BY <1>3, SlotHasKeyHolds DEF SlotSound
  <1>8. SlotSays(t, u, k, v, displace)
    BY <1>3, <1>5, <1>7 DEF SlotSays
  <1> QED
    BY <1>5, <1>6, <1>8

\* Get finds what is stored, and nothing else.
LEMMA SlotGetIsSound ==
  ASSUME NEW t, SlotSound(t), SlotReachable(t), NEW k \in TableKeys, NEW i, i = Aln!Get(t, k)
  PROVE  /\ i \in 0..t.count
         /\ i # t.count <=> SlotHasKey(t, k)
         /\ i # t.count => i \in Indices(t) /\ Aln!Exists(t, i) /\ t.key[i] = k
         /\ \A j \in Indices(t) : Aln!Exists(t, j) /\ t.key[j] = k => j = i
  <1>1. SlotShaped(t) /\ t.count \in Nat
    BY DEF SlotSound, SlotShaped
  <1>2. CASE t.count = 0
    <2>1. Aln!Stops(t, k) = {} /\ Indices(t) = {}
      BY <1>2 DEF Aln!Stops, Indices
    <2>2. i = t.count
      BY <2>1 DEF Aln!Get
    <2> QED
      BY <1>1, <2>1, <2>2 DEF SlotHasKey
  <1>3. CASE t.count # 0
    <2>1. PICK e \in Indices(t) : t.key[e] = EmptyFlag
      BY <1>3, SlotSoundLeavesRoom
    <2>2. PICK s \in 0..t.count - 1, b \in Indices(t) :
             /\ b = Aln!Home(t.count, k, s)
             /\ t.key[b] \in {EmptyFlag, k}
             /\ SlotsPassed(t, k, s)
             /\ i = IF t.key[b] = k THEN b ELSE t.count
      BY <1>1, <2>1, SlotGetFinds
    <2>3. \A j \in Indices(t) : Aln!Exists(t, j) /\ t.key[j] = k => j = b
      BY <1>1, <2>2, SlotSearchEnds
    <2>4. t.key[b] = k => Aln!Exists(t, b)
      BY SlotConstants DEF Aln!Exists
    <2>5. b # t.count /\ b \in 0..t.count /\ t.count \in 0..t.count
      BY <1>1, <2>2 DEF Indices
    <2> QED
      BY <2>2, <2>3, <2>4, <2>5 DEF SlotHasKey
  <1> QED
    BY <1>2, <1>3
-----------------------------------------------------------------------------
\* del of a bucket: it becomes a tombstone, if there is an entry in it.
SlotBuries(t, u, i) == SlotLoses(t, u, i) /\ u.size = t.size - 1 /\ u.used = t.used

\* That is what del does.
LEMMA SlotDelDoes ==
  ASSUME NEW t, SlotSound(t), NEW i \in 0..t.count, NEW u, u = Aln!Del(t, i)
  PROVE  /\ i \notin Indices(t) \/ ~Aln!Exists(t, i) => u = t
         /\ i \in Indices(t) /\ Aln!Exists(t, i) => SlotBuries(t, u, i)
  <1>1. SlotShaped(t) /\ SlotCounted(t) /\ t.count \in Nat /\ t.size \in Nat /\ t.used \in Nat
    BY DEF SlotSound, SlotShaped
  <1>2. i = t.count <=> i \notin Indices(t)
    BY <1>1 DEF Indices
  <1>3. ASSUME i \in Indices(t), Aln!Exists(t, i) PROVE SlotBuries(t, u, i)
    <2>1. PICK c, f, g, n, m : t = [count |-> c, key |-> f, value |-> g, size |-> n, used |-> m]
      BY <1>1 DEF SlotShaped, IsTable
    <2>2. t.count = c /\ t.key = f /\ t.value = g /\ t.size = n /\ t.used = m
      BY <2>1
    <2>3. u = [t EXCEPT !.key[i] = DeletedFlag, !.value[i] = Junk, !.size = @ - 1]
      BY <1>2, <1>3 DEF Aln!Del
    <2>4. u = [count |-> c, key |-> [f EXCEPT ![i] = DeletedFlag],
               value |-> [g EXCEPT ![i] = Junk], size |-> n - 1, used |-> m]
      BY <2>1, <2>3
    <2>5. /\ u.count = c /\ u.key = [f EXCEPT ![i] = DeletedFlag]
          /\ u.value = [g EXCEPT ![i] = Junk] /\ u.size = n - 1 /\ u.used = m
      BY <2>4
    <2>6. IsTable(u)
      BY <2>4, <2>5, Zenon DEF IsTable
    <2>7. t.size - 1 \in Nat
      <3>1. i \in SlotEntries(t) /\ IsFiniteSet(SlotEntries(t))
        BY <1>1, <1>3, SlotsAreFinite DEF SlotEntries
      <3>2. Cardinality(SlotEntries(t)) # 0
        BY <3>1, FS_EmptySet
      <3> QED
        BY <1>1, <3>2 DEF SlotCounted
    <2>8. u.size \in Nat /\ u.used \in Nat
      BY <1>1, <2>2, <2>5, <2>7
    <2>9. SlotLoses(t, u, i)
      BY <2>2, <2>5, <2>6, <2>8 DEF SlotLoses
    <2> QED
      BY <2>2, <2>5, <2>9 DEF SlotBuries
  <1> QED
    BY <1>2, <1>3 DEF Aln!Del

\* What was behind the entry can still be reached.
LEMMA SlotBuriesIsSound ==
  ASSUME NEW t, SlotSound(t), SlotReachable(t), NEW i \in Indices(t), Aln!Exists(t, i),
         NEW u, SlotBuries(t, u, i)
  PROVE  /\ SlotSound(u) /\ SlotReachable(u)
         /\ Indices(u) = Indices(t) /\ u.count = t.count
         /\ \A j \in Indices(t) : j # i => u.key[j] = t.key[j]
         /\ \A j \in Indices(t) : Aln!Exists(u, j) <=> Aln!Exists(t, j) /\ j # i
         /\ \A k \in TableKeys, v \in TableValues :
               SlotHolds(u, k, v) <=> SlotHolds(t, k, v) /\ k # t.key[i]
  <1>1. SlotShaped(t) /\ SlotCounted(t) /\ SlotLoses(t, u, i) /\ u.count = t.count
    BY DEF SlotSound, SlotBuries, SlotLoses
  <1>2. /\ SlotShaped(u) /\ Indices(u) = Indices(t)
        /\ u.key[i] = DeletedFlag
        /\ \A j \in Indices(t) : j # i => u.key[j] = t.key[j] /\ u.value[j] = t.value[j]
        /\ \A j \in Indices(t) : Aln!Exists(u, j) <=> Aln!Exists(t, j) /\ j # i
        /\ SlotTaken(u) = SlotTaken(t)
        /\ Cardinality(SlotEntries(u)) = Cardinality(SlotEntries(t)) - 1
    BY <1>1, SlotTakesOut
  <1>3. SlotCounted(u)
    BY <1>1, <1>2 DEF SlotCounted, SlotBuries
  <1>4. SlotSound(u)
    BY <1>1, <1>2, <1>3 DEF SlotSound, SlotBuries
  <1>5. SlotReachable(u)
    <2> SUFFICES ASSUME NEW b \in Indices(t), Aln!Exists(u, b)
                 PROVE  \E s \in 0..t.count - 1 :
                           Aln!Home(t.count, u.key[b], s) = b /\ SlotsPassed(u, u.key[b], s)
      BY <1>1, <1>2 DEF SlotReachable
    <2>1. Aln!Exists(t, b) /\ b # i /\ u.key[b] = t.key[b]
      BY <1>2
    <2>2. t.key[b] # DeletedFlag /\ EmptyFlag # DeletedFlag
      BY <2>1, SlotConstants DEF Aln!Exists
    <2>3. PICK s \in 0..t.count - 1 :
             Aln!Home(t.count, t.key[b], s) = b /\ SlotsPassed(t, t.key[b], s)
      BY <2>1 DEF SlotReachable
    <2>4. SlotsPassed(u, t.key[b], s)
      <3> SUFFICES ASSUME NEW r \in 0..s - 1, NEW c, c = Aln!Home(t.count, t.key[b], r)
                   PROVE  c \in Indices(t) /\ u.key[c] # EmptyFlag /\ u.key[c] # t.key[b]
        BY <1>1, <1>2 DEF SlotsPassed
      <3>1. c \in Indices(t) /\ t.key[c] # EmptyFlag /\ t.key[c] # t.key[b]
        BY <2>3 DEF SlotsPassed
      <3> QED
        BY <1>2, <2>2, <3>1
    <2> QED
      BY <2>1, <2>3, <2>4
  <1>6. \A j \in Indices(t) : Aln!Exists(t, j) /\ t.key[j] = t.key[i] => j = i
    BY <1>1, SlotKeysDiffer
  <1>7. \A k \in TableKeys, v \in TableValues :
           SlotHolds(u, k, v) <=> SlotHolds(t, k, v) /\ k # t.key[i]
    BY <1>2, <1>6 DEF SlotHolds
  <1> QED
    BY <1>1, <1>2, <1>4, <1>5, <1>7

\* Assigning a value to an entry, as the client does through operator[].
SlotAssigned(t, i, v) == [t EXCEPT !.value[i] = v]

LEMMA SlotAssignDoes ==
  ASSUME NEW t, SlotShaped(t), NEW i, NEW v, NEW displace, displace,
         NEW u, u = SlotAssigned(t, i, v)
  PROVE  IsTable(u) /\ u.count = t.count /\ Overwrites(t, u, i, v, displace)
  <1>1. PICK c, f, g, n, m : t = [count |-> c, key |-> f, value |-> g, size |-> n, used |-> m]
    BY DEF SlotShaped, IsTable
  <1>2. t.count = c /\ t.key = f /\ t.value = g /\ t.size = n /\ t.used = m
    BY <1>1
  <1>3. u = [count |-> c, key |-> f, value |-> [g EXCEPT ![i] = v], size |-> n, used |-> m]
    BY <1>1 DEF SlotAssigned
  <1>4. /\ u.count = c /\ u.key = f /\ u.value = [g EXCEPT ![i] = v]
        /\ u.size = n /\ u.used = m
    BY <1>3
  <1>5. IsTable(u)
    BY <1>3, <1>4, Zenon DEF IsTable
  <1> QED
    BY <1>2, <1>4, <1>5 DEF Overwrites

\* u says v of k, and of other keys what t says.
SlotAgrees(t, u, k, v) ==
    \A j \in TableKeys, w \in TableValues :
        SlotHolds(u, j, w) <=> IF j = k THEN w = v ELSE SlotHolds(t, j, w)

\* The table that it leaves.
LEMMA SlotAssignIsSound ==
  ASSUME NEW t, SlotSound(t), SlotReachable(t), NEW i \in Indices(t), Aln!Exists(t, i),
         NEW v \in TableValues, NEW displace, displace,
         NEW u, IsTable(u), u.count = t.count, Overwrites(t, u, i, v, displace)
  PROVE  /\ SlotSound(u) /\ SlotReachable(u)
         /\ SlotAgrees(t, u, t.key[i], v)
  <1>1. SlotShaped(t) /\ SlotCounted(t)
    BY DEF SlotSound
  <1>2. /\ SlotShaped(u) /\ SlotCounted(u) /\ Indices(u) = Indices(t) /\ u.key = t.key
        /\ u.value[i] = v
        /\ \A j \in Indices(t) : j # i => u.value[j] = t.value[j]
        /\ \A j : Aln!Exists(u, j) <=> Aln!Exists(t, j)
    <2>1. /\ SlotShaped(u) /\ SlotCounted(u) /\ Indices(u) = Indices(t) /\ u.key = t.key
          /\ u.value[i] = IF displace THEN v ELSE t.value[i]
          /\ \A j \in Indices(t) : j # i => u.value[j] = t.value[j]
          /\ \A j : Aln!Exists(u, j) <=> Aln!Exists(t, j)
      BY <1>1, SlotOverwritesIsCounted
    <2> QED
      BY <2>1
  <1>3. SlotSound(u)
    BY <1>2 DEF SlotSound, Overwrites
  <1>4. SlotReachable(u)
    BY <1>2, SlotSameKeysReachable
  <1>5. \A j \in Indices(t) : Aln!Exists(t, j) /\ t.key[j] = t.key[i] => j = i
    BY <1>1, SlotKeysDiffer
  <1>6. SlotAgrees(t, u, t.key[i], v)
    BY <1>2, <1>5 DEF SlotHolds, SlotAgrees
  <1> QED
    BY <1>3, <1>4, <1>6

\* The table that operator[] leaves.
LEMMA SlotSubscriptIsSound ==
  ASSUME NEW t, SlotSound(t), SlotReachable(t), NEW k \in TableKeys, NEW d \in TableValues,
         NEW v \in TableValues, NEW keep, ~keep, NEW s, s = Aln!Set(t, k, d, keep),
         NEW i, i = Aln!Get(s, k), NEW u, u = SlotAssigned(s, i, v)
  PROVE  SlotSound(u) /\ SlotReachable(u) /\ SlotAgrees(t, u, k, v)
  <1>1. /\ SlotSound(s) /\ SlotReachable(s)
        /\ SlotSays(t, s, k, d, keep) /\ SlotHasKey(s, k)
    BY SlotSetIsSound
  <1>2. i \in Indices(s) /\ Aln!Exists(s, i) /\ s.key[i] = k
    BY <1>1, SlotGetIsSound
  <1>3. PICK displace : displace = TRUE
    OBVIOUS
  <1>4. IsTable(u) /\ u.count = s.count /\ Overwrites(s, u, i, v, displace)
    <2>1. SlotShaped(s)
      BY <1>1 DEF SlotSound
    <2>2. displace
      BY <1>3
    <2>3. Overwrites(s, u, i, v, displace)
      BY <2>1, <2>2, SlotAssignDoes
    <2>4. IsTable(u) /\ u.count = s.count
      BY <2>1, <2>2, SlotAssignDoes
    <2> QED
      BY <2>3, <2>4
  <1>5. SlotSound(u) /\ SlotReachable(u)
    BY <1>1, <1>2, <1>3, <1>4, SlotAssignIsSound
  <1>6. SlotAgrees(s, u, k, v)
    BY <1>1, <1>2, <1>3, <1>4, SlotAssignIsSound
  <1>7. \A j \in TableKeys, w \in TableValues : j # k =>
            (SlotHolds(s, j, w) <=> SlotHolds(t, j, w))
    BY <1>1 DEF SlotSays
  <1> QED
    BY <1>5, <1>6, <1>7 DEF SlotAgrees
-----------------------------------------------------------------------------
\* The inductive invariant of align_hash_map.  An iterator has entries before it
\* that it has met, and what it has not met of those that it was to meet is
\* behind it.
SlotsBehind(t, i) == {j \in SlotEntries(t) : j > i}
KeysOf(t, S) == {t.key[j] : j \in S}

Crossing ==
    /\ crossing = [whole |-> crossing.whole, met |-> crossing.met]
    /\ cursor # Junk =>
          /\ cursor \in 0..slots.count
          /\ crossing.whole = crossing.met \cup KeysOf(slots, SlotsBehind(slots, cursor))

SlotIInv == SlotSound(slots) /\ SlotReachable(slots) /\ Crossing

\* The iterator stops at the first entry, or at the end.
LEMMA SlotFromOnStops ==
  ASSUME SlotShaped(slots), NEW i \in 0..slots.count, NEW f, f = Aln!FromOn(i)
  PROVE  /\ f \in i..slots.count
         /\ f = slots.count \/ Aln!Exists(slots, f)
         /\ \A j \in SlotEntries(slots) : j >= i => j >= f
  <1>1. slots.count \in Nat
    BY DEF SlotShaped
  <1> DEFINE S == {j \in i..slots.count : j = slots.count \/ Aln!Exists(slots, j)}
  <1>2. S \in SUBSET Nat /\ slots.count \in S
    BY <1>1
  <1>3. Aln!First(S) \in S /\ \A y \in S : Aln!First(S) <= y
    BY <1>2, FirstIsLeast DEF Aln!First, First
  <1>4. f = Aln!First(S)
    BY DEF Aln!FromOn
  <1>5. ASSUME NEW j \in SlotEntries(slots), j >= i PROVE j \in S
    BY <1>1, <1>5 DEF SlotEntries, Indices
  <1>6. f \in Int /\ \A j \in SlotEntries(slots) : j \in Int
    BY <1>1, <1>2, <1>3, <1>4 DEF SlotEntries, Indices
  <1> HIDE DEF S
  <1> QED
    BY <1>3, <1>4, <1>5, <1>6 DEF S

\* So the entries from there on are the one that it stops at and those behind.
LEMMA SlotFromOnMeets ==
  ASSUME SlotShaped(slots), NEW i \in 0..slots.count, NEW f, f = Aln!FromOn(i)
  PROVE  KeysOf(slots, {b \in SlotEntries(slots) : b >= i}) =
             Aln!KeyAt(f) \cup KeysOf(slots, SlotsBehind(slots, f))
  <1>1. /\ f \in i..slots.count /\ (f = slots.count \/ Aln!Exists(slots, f))
        /\ \A j \in SlotEntries(slots) : j >= i => j >= f
    BY SlotFromOnStops
  <1>2. /\ slots.count \in Nat
        /\ \A j \in SlotEntries(slots) : j \in 0..slots.count - 1 /\ Aln!Exists(slots, j)
    BY DEF SlotShaped, SlotEntries, Indices
  <1>3. f < slots.count /\ Aln!Exists(slots, f) => f \in SlotEntries(slots)
    BY <1>1, <1>2 DEF SlotEntries, Indices
  <1>4. CASE f < slots.count /\ Aln!Exists(slots, f)
    <2>1. {b \in SlotEntries(slots) : b >= i} = {f} \cup SlotsBehind(slots, f)
      BY <1>1, <1>2, <1>3, <1>4 DEF SlotsBehind
    <2>2. Aln!KeyAt(f) = {slots.key[f]}
      BY <1>4 DEF Aln!KeyAt
    <2> QED
      BY <2>1, <2>2 DEF KeysOf
  <1>5. CASE ~(f < slots.count /\ Aln!Exists(slots, f))
    <2>1. f = slots.count
      BY <1>1, <1>2, <1>5
    <2>2. {b \in SlotEntries(slots) : b >= i} = SlotsBehind(slots, f)
      BY <1>1, <1>2, <2>1 DEF SlotsBehind
    <2>3. Aln!KeyAt(f) = {}
      BY <1>5 DEF Aln!KeyAt
    <2> QED
      BY <2>2, <2>3
  <1> QED
    BY <1>4, <1>5
-----------------------------------------------------------------------------
\* The function that a table holds, and the functions of FiniteMaps.
SlotContents(t) ==
    [k \in {j \in TableKeys : Aln!Get(t, j) # t.count} |-> t.value[Aln!Get(t, k)]]
SlotFunctions == [m \in {"map"} |-> SlotContents(slots)]

\* It is what the table says.
LEMMA SlotContentsAre ==
  ASSUME NEW t, SlotSound(t), SlotReachable(t), NEW f, f = SlotContents(t)
  PROVE  /\ f = [k \in DOMAIN f |-> f[k]]
         /\ DOMAIN f \subseteq TableKeys
         /\ \A k \in DOMAIN f : f[k] \in TableValues
         /\ \A k \in TableKeys : k \in DOMAIN f <=> SlotHasKey(t, k)
         /\ \A k \in TableKeys, v \in TableValues :
               SlotHolds(t, k, v) <=> k \in DOMAIN f /\ f[k] = v
  <1>1. /\ DOMAIN f = {k \in TableKeys : Aln!Get(t, k) # t.count}
        /\ f = [k \in DOMAIN f |-> f[k]]
        /\ \A k \in DOMAIN f : f[k] = t.value[Aln!Get(t, k)]
    BY DEF SlotContents
  <1>2. SlotShaped(t)
    BY DEF SlotSound
  <1>3. ASSUME NEW k \in TableKeys, NEW i, i = Aln!Get(t, k)
        PROVE  /\ i # t.count <=> SlotHasKey(t, k)
               /\ i # t.count => /\ i \in Indices(t) /\ Aln!Exists(t, i) /\ t.key[i] = k
                                 /\ t.value[i] \in TableValues
               /\ \A j \in Indices(t) : Aln!Exists(t, j) /\ t.key[j] = k => j = i
    BY <1>2, <1>3, SlotGetIsSound, SlotKeys
  <1>4. ASSUME NEW k \in TableKeys, NEW v \in TableValues
        PROVE  SlotHolds(t, k, v) <=> Aln!Get(t, k) # t.count /\ t.value[Aln!Get(t, k)] = v
    BY <1>3 DEF SlotHolds, SlotHasKey
  <1> QED
    BY <1>1, <1>3, <1>4

\* A function that says the same is the same.
LEMMA SlotContentsEqual ==
  ASSUME NEW t, SlotSound(t), SlotReachable(t), NEW D \in SUBSET TableKeys, NEW f,
         f = [k \in D |-> f[k]], \A k \in D : f[k] \in TableValues,
         \A k \in TableKeys, v \in TableValues : SlotHolds(t, k, v) <=> k \in D /\ f[k] = v
  PROVE  SlotContents(t) = f
  <1>1. PICK g : g = SlotContents(t)
    OBVIOUS
  <1>2. /\ g = [k \in DOMAIN g |-> g[k]]
        /\ DOMAIN g \subseteq TableKeys /\ \A k \in DOMAIN g : g[k] \in TableValues
        /\ \A k \in TableKeys, v \in TableValues :
              SlotHolds(t, k, v) <=> k \in DOMAIN g /\ g[k] = v
    BY <1>1, SlotContentsAre
  <1>3. ASSUME NEW k \in D PROVE k \in DOMAIN g /\ g[k] = f[k]
    BY <1>2
  <1>4. ASSUME NEW k \in DOMAIN g PROVE k \in D
    BY <1>2
  <1>5. DOMAIN g = D
    BY <1>3, <1>4
  <1>6. g = f
    BY <1>2, <1>3, <1>5
  <1> QED
    BY <1>1, <1>6

\* A table without entries holds the function without a key.
LEMMA FreshSlotsNowhere ==
  ASSUME NEW n \in Nat, n # 1, NEW t, t = Aln!Fresh(n)
  PROVE  SlotSound(t) /\ SlotReachable(t) /\ SlotContents(t) = Aln!Abstract!Nowhere
  <1>1. SlotSound(t) /\ \A i \in Indices(t) : ~Aln!Exists(t, i)
    BY FreshSlots
  <1>2. SlotReachable(t) /\ \A k, v : ~SlotHolds(t, k, v)
    BY <1>1 DEF SlotReachable, SlotHolds
  <1>3. PICK f : f = Aln!Abstract!Nowhere
    OBVIOUS
  <1>4. f = [k \in {} |-> f[k]] /\ \A k \in {} : f[k] \in TableValues
    BY <1>3 DEF Aln!Abstract!Nowhere
  <1>5. {} \in SUBSET TableKeys
    OBVIOUS
  <1>6. SlotContents(t) = f
    BY <1>1, <1>2, <1>4, <1>5, SlotContentsEqual
  <1> QED
    BY <1>1, <1>2, <1>3, <1>6

\* The function with one more pair, or with another value.
LEMMA SlotContentsWith ==
  ASSUME NEW t, SlotSound(t), SlotReachable(t), NEW k \in TableKeys, NEW v \in TableValues,
         NEW u, SlotSound(u), SlotReachable(u), SlotAgrees(t, u, k, v)
  PROVE  SlotContents(u) = Aln!Abstract!With(SlotContents(t), k, v)
  <1>1. PICK f : f = SlotContents(t)
    OBVIOUS
  <1>2. /\ DOMAIN f \subseteq TableKeys /\ \A j \in DOMAIN f : f[j] \in TableValues
        /\ \A j \in TableKeys, w \in TableValues :
              SlotHolds(t, j, w) <=> j \in DOMAIN f /\ f[j] = w
    BY <1>1, SlotContentsAre
  <1>3. PICK g : g = Aln!Abstract!With(f, k, v)
    OBVIOUS
  <1>4. /\ DOMAIN g = DOMAIN f \cup {k} /\ g = [j \in DOMAIN g |-> g[j]]
        /\ \A j \in DOMAIN f : j # k => g[j] = f[j]
        /\ g[k] = v
    BY <1>3 DEF Aln!Abstract!With
  <1>5. DOMAIN g \in SUBSET TableKeys /\ \A j \in DOMAIN g : g[j] \in TableValues
    BY <1>2, <1>4
  <1>6. \A j \in TableKeys, w \in TableValues : SlotHolds(u, j, w) <=> j \in DOMAIN g /\ g[j] = w
    BY <1>2, <1>4 DEF SlotAgrees
  <1>7. SlotContents(u) = g
    BY <1>4, <1>5, <1>6, SlotContentsEqual
  <1> QED
    BY <1>1, <1>3, <1>7

\* The function without a key.
LEMMA SlotContentsWithout ==
  ASSUME NEW t, SlotSound(t), SlotReachable(t), NEW k,
         NEW u, SlotSound(u), SlotReachable(u),
         \A j \in TableKeys, w \in TableValues :
            SlotHolds(u, j, w) <=> SlotHolds(t, j, w) /\ j # k
  PROVE  SlotContents(u) = Without(SlotContents(t), k)
  <1>1. PICK f : f = SlotContents(t)
    OBVIOUS
  <1>2. /\ DOMAIN f \subseteq TableKeys /\ \A j \in DOMAIN f : f[j] \in TableValues
        /\ \A j \in TableKeys, w \in TableValues :
              SlotHolds(t, j, w) <=> j \in DOMAIN f /\ f[j] = w
    BY <1>1, SlotContentsAre
  <1>3. PICK g : g = Without(f, k)
    OBVIOUS
  <1>4. /\ DOMAIN g = DOMAIN f \ {k} /\ g = [j \in DOMAIN g |-> g[j]]
        /\ \A j \in DOMAIN f : j # k => g[j] = f[j]
    BY <1>3 DEF Without
  <1>5. DOMAIN g \in SUBSET TableKeys /\ \A j \in DOMAIN g : g[j] \in TableValues
    BY <1>2, <1>4
  <1>6. \A j \in TableKeys, w \in TableValues : SlotHolds(u, j, w) <=> j \in DOMAIN g /\ g[j] = w
    BY <1>2, <1>4
  <1>7. SlotContents(u) = g
    BY <1>4, <1>5, <1>6, SlotContentsEqual
  <1> QED
    BY <1>1, <1>3, <1>7

\* Where insert finds a key nothing changes.
LEMMA SlotContentsSame ==
  ASSUME NEW t, SlotSound(t), SlotReachable(t), NEW u, SlotSound(u), SlotReachable(u),
         \A j \in TableKeys, w \in TableValues : SlotHolds(u, j, w) <=> SlotHolds(t, j, w)
  PROVE  SlotContents(u) = SlotContents(t)
  <1>1. PICK f : f = SlotContents(t)
    OBVIOUS
  <1>2. /\ f = [k \in DOMAIN f |-> f[k]]
        /\ DOMAIN f \in SUBSET TableKeys /\ \A j \in DOMAIN f : f[j] \in TableValues
        /\ \A j \in TableKeys, w \in TableValues :
              SlotHolds(t, j, w) <=> j \in DOMAIN f /\ f[j] = w
    BY <1>1, SlotContentsAre
  <1> QED
    BY <1>1, <1>2, SlotContentsEqual
-----------------------------------------------------------------------------
\* A call that leaves the table u does to the function what u says.
LEMMA SlotFunctionChanges ==
  ASSUME NEW u, slots' = u
  PROVE  SlotFunctions' = [SlotFunctions EXCEPT !["map"] = SlotContents(u)]
  <1>1. SlotFunctions' = [m \in {"map"} |-> SlotContents(slots')]
    BY DEF SlotFunctions, SlotContents, Aln!Get, Aln!Stops, Aln!Home, Aln!First
  <1> HIDE DEF SlotContents
  <1>2. SlotFunctions' = [m \in {"map"} |-> SlotContents(u)]
    BY <1>1
  <1> QED
    BY <1>2 DEF SlotFunctions

\* What the table u is, it is as the next one.
LEMMA SlotsBecome ==
  ASSUME NEW u, slots' = u, SlotSound(u), SlotReachable(u)
  PROVE  SlotSound(slots)' /\ SlotReachable(slots)'
  <1>1. SlotSound(slots') /\ SlotReachable(slots')
    OBVIOUS
  <1> QED
    BY <1>1 DEF SlotSound, SlotReachable, SlotShaped, SlotCounted, SlotEntries, SlotTaken,
                SlotsPassed, Aln!Exists, Aln!Home, Aln!Sup

\* Its table must be sound, and its entries reachable.
LEMMA SlotCallKeeps ==
  ASSUME SlotIInv, NEW u, NEW c, Aln!Returns(u, c), SlotSound(u), SlotReachable(u)
  PROVE  /\ SlotIInv'
         /\ SlotFunctions' = [SlotFunctions EXCEPT !["map"] = SlotContents(u)]
         /\ lastCall' = c
  <1>1. /\ slots' = u /\ lastCall' = c
        /\ cursor = Junk /\ cursor' = cursor /\ crossing' = crossing
    BY DEF Aln!Returns
  <1>2. SlotSound(slots)' /\ SlotReachable(slots)'
    BY <1>1, SlotsBecome
  <1>3. Crossing'
    BY <1>1 DEF SlotIInv, Crossing
  <1> QED
    BY <1>1, <1>2, <1>3, SlotFunctionChanges DEF SlotIInv
-----------------------------------------------------------------------------
\* Each call keeps the invariant, and does to the function what FiniteMaps says.
LEMMA SlotConstructKeeps ==
  ASSUME SlotIInv, Aln!Construct
  PROVE  SlotIInv' /\ Aln!Abstract!Construct("map")
  <1>1. PICK u, c : u = Aln!Fresh(0) /\ c = <<"construct", "map">>
    OBVIOUS
  <1>2. Aln!Returns(u, c)
    BY <1>1 DEF Aln!Construct
  <1>3. SlotSound(u) /\ SlotReachable(u) /\ SlotContents(u) = Aln!Abstract!Nowhere
    BY <1>1, FreshSlotsNowhere
  <1>4. /\ SlotIInv' /\ lastCall' = c
        /\ SlotFunctions' = [SlotFunctions EXCEPT !["map"] = SlotContents(u)]
    BY <1>2, <1>3, SlotCallKeeps
  <1> QED
    BY <1>1, <1>3, <1>4
       DEF Aln!Abstract!Construct, Aln!Abstract!Becomes, SlotFunctions, SlotContents, Aln!Contents

\* clear keeps the buckets' number and nothing else.
LEMMA SlotClearKeeps ==
  ASSUME SlotIInv, Aln!Clear
  PROVE  SlotIInv' /\ Aln!Abstract!Clear("map")
  <1>1. PICK n, u, c : n = slots.count /\ u = Aln!Fresh(n) /\ c = <<"clear", "map">>
    OBVIOUS
  <1>2. Aln!Returns(u, c)
    BY <1>1 DEF Aln!Clear
  <1>3. n \in Nat /\ n # 1
    BY <1>1 DEF SlotIInv, SlotSound, SlotShaped
  <1>4. SlotSound(u) /\ SlotReachable(u) /\ SlotContents(u) = Aln!Abstract!Nowhere
    BY <1>1, <1>3, FreshSlotsNowhere
  <1>5. /\ SlotIInv' /\ lastCall' = c
        /\ SlotFunctions' = [SlotFunctions EXCEPT !["map"] = SlotContents(u)]
    BY <1>2, <1>4, SlotCallKeeps
  <1> QED
    BY <1>1, <1>4, <1>5
       DEF Aln!Abstract!Clear, Aln!Abstract!Becomes, SlotFunctions, SlotContents, Aln!Contents

\* What insert without displace makes of the function: a key keeps its value.
LEMMA SlotContentsInserted ==
  ASSUME NEW t, SlotSound(t), SlotReachable(t), NEW k \in TableKeys, NEW v \in TableValues,
         NEW u, SlotSound(u), SlotReachable(u), NEW displace, ~displace,
         SlotSays(t, u, k, v, displace)
  PROVE  SlotContents(u) = IF k \in DOMAIN SlotContents(t) THEN SlotContents(t)
                           ELSE Aln!Abstract!With(SlotContents(t), k, v)
  <1>1. k \in DOMAIN SlotContents(t) <=> SlotHasKey(t, k)
    BY SlotContentsAre
  <1>2. CASE SlotHasKey(t, k)
    <2>1. \A j \in TableKeys, w \in TableValues : SlotHolds(u, j, w) <=> SlotHolds(t, j, w)
      BY <1>2 DEF SlotSays
    <2>2. SlotContents(u) = SlotContents(t)
      BY <2>1, SlotContentsSame
    <2> QED
      BY <1>1, <1>2, <2>2
  <1>3. CASE ~SlotHasKey(t, k)
    <2>1. SlotAgrees(t, u, k, v)
      BY <1>3 DEF SlotSays, SlotAgrees
    <2>2. SlotContents(u) = Aln!Abstract!With(SlotContents(t), k, v)
      BY <2>1, SlotContentsWith
    <2> QED
      BY <1>1, <1>3, <2>2
  <1> QED
    BY <1>2, <1>3

LEMMA SlotInsertKeeps ==
  ASSUME SlotIInv, NEW k \in TableKeys, NEW v \in TableValues, Aln!Insert(k, v)
  PROVE  SlotIInv' /\ Aln!Abstract!Insert("map", k, v)
  <1>1. PICK displace, u, c :
           displace = FALSE /\ u = Aln!Set(slots, k, v, displace) /\ c = <<"insert", "map", k, v>>
    OBVIOUS
  <1>2. Aln!Returns(u, c)
    BY <1>1 DEF Aln!Insert
  <1>3. SlotSound(slots) /\ SlotReachable(slots)
    BY DEF SlotIInv
  <1>4. SlotSound(u) /\ SlotReachable(u) /\ SlotSays(slots, u, k, v, displace)
    BY <1>1, <1>3, SlotSetIsSound
  <1>5. SlotContents(u) = IF k \in DOMAIN SlotContents(slots) THEN SlotContents(slots)
                          ELSE Aln!Abstract!With(SlotContents(slots), k, v)
    <2>1. ~displace
      BY <1>1
    <2> QED
      BY <1>3, <1>4, <2>1, SlotContentsInserted
  <1>6. /\ SlotIInv' /\ lastCall' = c
        /\ SlotFunctions' = [SlotFunctions EXCEPT !["map"] = SlotContents(u)]
    BY <1>2, <1>4, SlotCallKeeps
  <1> QED
    BY <1>1, <1>5, <1>6
       DEF Aln!Abstract!Insert, Aln!Abstract!Becomes, SlotFunctions, SlotContents, Aln!Contents

\* What the two calls do that give a key its new value.
LEMMA SlotValueChanges ==
  ASSUME SlotIInv, NEW k \in TableKeys, NEW v \in TableValues,
         NEW u, SlotSound(u), SlotReachable(u), SlotAgrees(slots, u, k, v),
         NEW name \in {"insert_or_assign", "subscript"}, Aln!Returns(u, <<name, "map", k, v>>)
  PROVE  SlotIInv' /\ Aln!Abstract!Assign("map", k, v)
  <1>1. PICK c : c = <<name, "map", k, v>>
    OBVIOUS
  <1>2. SlotContents(u) = Aln!Abstract!With(SlotContents(slots), k, v)
    BY SlotContentsWith DEF SlotIInv
  <1>3. /\ SlotIInv' /\ lastCall' = c
        /\ SlotFunctions' = [SlotFunctions EXCEPT !["map"] = SlotContents(u)]
    <2>1. Aln!Returns(u, c)
      BY <1>1
    <2> QED
      BY <2>1, SlotCallKeeps
  <1> QED
    BY <1>1, <1>2, <1>3
       DEF Aln!Abstract!Assign, Aln!Abstract!Becomes, SlotFunctions, SlotContents, Aln!Contents

LEMMA SlotInsertOrAssignKeeps ==
  ASSUME SlotIInv, NEW k \in TableKeys, NEW v \in TableValues, Aln!InsertOrAssign(k, v)
  PROVE  SlotIInv' /\ Aln!Abstract!Assign("map", k, v)
  <1>1. PICK displace, u : displace = TRUE /\ u = Aln!Set(slots, k, v, displace)
    OBVIOUS
  <1>2. Aln!Returns(u, <<"insert_or_assign", "map", k, v>>)
    BY <1>1 DEF Aln!InsertOrAssign
  <1>3. SlotSound(u) /\ SlotReachable(u) /\ SlotSays(slots, u, k, v, displace)
    BY <1>1, SlotSetIsSound DEF SlotIInv
  <1>4. SlotAgrees(slots, u, k, v)
    BY <1>1, <1>3 DEF SlotSays, SlotAgrees
  <1> QED
    BY <1>2, <1>3, <1>4, SlotValueChanges

LEMMA SlotSubscriptKeeps ==
  ASSUME SlotIInv, NEW k \in TableKeys, NEW v \in TableValues, Aln!Subscript(k, v)
  PROVE  SlotIInv' /\ Aln!Abstract!Assign("map", k, v)
  <1>1. PICK d : d = CHOOSE w \in TableValues : TRUE
    OBVIOUS
  <1>2. PICK keep, s, i, u : /\ keep = FALSE /\ s = Aln!Set(slots, k, d, keep)
                             /\ i = Aln!Get(s, k) /\ u = SlotAssigned(s, i, v)
    OBVIOUS
  <1>3. Aln!Returns(u, <<"subscript", "map", k, v>>)
    BY <1>1, <1>2 DEF Aln!Subscript, SlotAssigned
  <1>4. SlotSound(u) /\ SlotReachable(u) /\ SlotAgrees(slots, u, k, v)
    <2>1. d \in TableValues
      BY <1>1
    <2>2. ~keep
      BY <1>2
    <2> QED
      BY <1>2, <2>1, <2>2, SlotSubscriptIsSound DEF SlotIInv
  <1> QED
    BY <1>3, <1>4, SlotValueChanges
-----------------------------------------------------------------------------
\* What erasing an entry makes of the function.
LEMMA SlotContentsErased ==
  ASSUME NEW t, SlotSound(t), SlotReachable(t), NEW i \in Indices(t), Aln!Exists(t, i),
         NEW u, SlotBuries(t, u, i)
  PROVE  SlotContents(u) = Without(SlotContents(t), t.key[i])
  <1>1. /\ SlotSound(u) /\ SlotReachable(u)
        /\ \A k \in TableKeys, v \in TableValues :
              SlotHolds(u, k, v) <=> SlotHolds(t, k, v) /\ k # t.key[i]
    BY SlotBuriesIsSound
  <1> QED
    BY <1>1, SlotContentsWithout

\* The function does not change if it does not have the key.
LEMMA SlotWithoutNothing ==
  ASSUME NEW t, SlotSound(t), SlotReachable(t), NEW k \in TableKeys, ~SlotHasKey(t, k)
  PROVE  SlotContents(t) = Without(SlotContents(t), k)
  <1>1. SlotShaped(t)
    BY DEF SlotSound
  <1>2. \A v \in TableValues : ~SlotHolds(t, k, v)
    BY <1>1, SlotHasKeyHolds
  <1>3. \A j \in TableKeys, w \in TableValues :
           SlotHolds(t, j, w) <=> SlotHolds(t, j, w) /\ j # k
    BY <1>2
  <1> QED
    BY <1>3, SlotContentsWithout

LEMMA SlotEraseKeeps ==
  ASSUME SlotIInv, NEW k \in TableKeys, Aln!Erase(k)
  PROVE  SlotIInv' /\ Aln!Abstract!Erase("map", k)
  <1>1. PICK i, u, c : /\ i = Aln!Get(slots, k) /\ u = Aln!Del(slots, i)
                       /\ c = <<"erase", "map", k>>
    OBVIOUS
  <1>2. Aln!Returns(u, c)
    BY <1>1 DEF Aln!Erase
  <1>3. SlotSound(slots) /\ SlotReachable(slots) /\ SlotShaped(slots) /\ slots.count \in Nat
    BY DEF SlotIInv, SlotSound, SlotShaped
  <1>4. /\ i \in 0..slots.count
        /\ i # slots.count <=> SlotHasKey(slots, k)
        /\ i # slots.count => i \in Indices(slots) /\ Aln!Exists(slots, i) /\ slots.key[i] = k
    BY <1>1, <1>3, SlotGetIsSound
  <1>5. /\ SlotSound(u) /\ SlotReachable(u)
        /\ SlotContents(u) = Without(SlotContents(slots), k)
    <2>1. CASE i # slots.count
      <3>1. SlotBuries(slots, u, i)
        BY <1>1, <1>3, <1>4, <2>1, SlotDelDoes
      <3>2. SlotSound(u) /\ SlotReachable(u)
        BY <1>3, <1>4, <2>1, <3>1, SlotBuriesIsSound
      <3>3. SlotContents(u) = Without(SlotContents(slots), slots.key[i])
        BY <1>3, <1>4, <2>1, <3>1, SlotContentsErased
      <3> QED
        BY <1>4, <2>1, <3>2, <3>3
    <2>2. CASE i = slots.count
      <3>1. i \notin Indices(slots)
        BY <1>3, <2>2 DEF Indices
      <3>2. u = slots
        BY <1>1, <1>3, <1>4, <3>1, SlotDelDoes
      <3>3. SlotContents(slots) = Without(SlotContents(slots), k)
        BY <1>3, <1>4, <2>2, SlotWithoutNothing
      <3> QED
        BY <1>3, <3>2, <3>3
    <2> QED
      BY <2>1, <2>2
  <1>6. /\ SlotIInv' /\ lastCall' = c
        /\ SlotFunctions' = [SlotFunctions EXCEPT !["map"] = SlotContents(u)]
    BY <1>2, <1>5, SlotCallKeeps
  <1> QED
    BY <1>1, <1>5, <1>6
       DEF Aln!Abstract!Erase, Aln!Abstract!Becomes, SlotFunctions, SlotContents, Aln!Contents,
           Without
-----------------------------------------------------------------------------
\* Steps that leave the table alone.
LEMMA SlotsStay ==
  ASSUME slots' = slots, lastCall' = lastCall
  PROVE  /\ SlotSound(slots) /\ SlotReachable(slots)
                => SlotSound(slots)' /\ SlotReachable(slots)'
         /\ UNCHANGED Aln!Abstract!vars
  <1>1. SlotFunctions' = SlotFunctions
    BY DEF SlotFunctions, SlotContents, Aln!Get, Aln!Stops, Aln!Home, Aln!First
  <1>2. UNCHANGED Aln!Abstract!vars
    BY <1>1 DEF Aln!Abstract!vars, SlotFunctions, SlotContents, Aln!Contents
  <1> QED
    BY <1>2, SlotsBecome

\* begin and ++ meet the next entry, and no other lies between.
LEMMA SlotBeginKeeps ==
  ASSUME SlotIInv, Aln!Begin
  PROVE  Crossing'
  <1>1. PICK i, whole : /\ i = Aln!FromOn(0)
                        /\ whole = {slots.key[j] : j \in {b \in DOMAIN slots.key :
                                                             Aln!Exists(slots, b)}}
    OBVIOUS
  <1>2. cursor' = i /\ crossing' = [whole |-> whole, met |-> Aln!KeyAt(i)] /\ slots' = slots
    BY <1>1 DEF Aln!Begin
  <1>3. SlotShaped(slots) /\ slots.count \in Nat /\ DOMAIN slots.key = Indices(slots)
    BY DEF SlotIInv, SlotSound, SlotShaped
  <1>4. 0 \in 0..slots.count
    BY <1>3
  <1>5. i \in 0..slots.count
    BY <1>1, <1>3, <1>4, SlotFromOnStops
  <1>6. whole = Aln!KeyAt(i) \cup KeysOf(slots, SlotsBehind(slots, i))
    <2>1. {b \in DOMAIN slots.key : Aln!Exists(slots, b)} = {b \in SlotEntries(slots) : b >= 0}
      BY <1>3 DEF SlotEntries, Indices
    <2>2. whole = KeysOf(slots, {b \in SlotEntries(slots) : b >= 0})
      BY <1>1, <2>1 DEF KeysOf
    <2> QED
      BY <1>1, <1>3, <1>4, <2>2, SlotFromOnMeets
  <1>7. crossing'.whole = whole /\ crossing'.met = Aln!KeyAt(i)
    BY <1>2
  <1>8. KeysOf(slots, SlotsBehind(slots, i)) = KeysOf(slots, SlotsBehind(slots, cursor))'
    BY <1>2 DEF KeysOf, SlotsBehind, SlotEntries, Aln!Exists
  <1> QED
    BY <1>2, <1>5, <1>6, <1>7, <1>8 DEF Crossing

LEMMA SlotIncrementKeeps ==
  ASSUME SlotIInv, Aln!Increment
  PROVE  Crossing'
  <1>1. PICK f, i : /\ f = IF cursor # slots.count THEN cursor + 1 ELSE cursor
                    /\ i = Aln!FromOn(f)
    OBVIOUS
  <1>2. /\ cursor # Junk /\ cursor' = i /\ slots' = slots
        /\ crossing' = [crossing EXCEPT !.met = @ \cup Aln!KeyAt(i)]
    BY <1>1 DEF Aln!Increment
  <1>3. /\ SlotShaped(slots) /\ slots.count \in Nat /\ cursor \in 0..slots.count
        /\ crossing.whole = crossing.met \cup KeysOf(slots, SlotsBehind(slots, cursor))
    BY <1>2 DEF SlotIInv, SlotSound, SlotShaped, Crossing
  <1>4. f \in 0..slots.count
    BY <1>1, <1>3
  <1>5. i \in 0..slots.count
    <2>1. i \in f..slots.count
      BY <1>1, <1>3, <1>4, SlotFromOnStops
    <2> QED
      BY <1>3, <1>4, <2>1
  <1>6. SlotsBehind(slots, cursor) = {b \in SlotEntries(slots) : b >= f}
    BY <1>1, <1>3 DEF SlotsBehind, SlotEntries, Indices
  <1>7. KeysOf(slots, SlotsBehind(slots, cursor)) =
            Aln!KeyAt(i) \cup KeysOf(slots, SlotsBehind(slots, i))
    BY <1>1, <1>3, <1>4, <1>6, SlotFromOnMeets
  <1>8. PICK whole, met : crossing = [whole |-> whole, met |-> met]
    BY DEF SlotIInv, Crossing
  <1>9. crossing' = [whole |-> whole, met |-> met \cup Aln!KeyAt(i)]
    BY <1>2, <1>8
  <1>10. /\ crossing'.whole = crossing.whole
         /\ crossing'.met = crossing.met \cup Aln!KeyAt(i)
         /\ crossing' = [whole |-> crossing'.whole, met |-> crossing'.met]
    BY <1>8, <1>9
  <1>11. KeysOf(slots, SlotsBehind(slots, i)) = KeysOf(slots, SlotsBehind(slots, cursor))'
    BY <1>2 DEF KeysOf, SlotsBehind, SlotEntries, Aln!Exists
  <1>12. crossing'.whole = crossing'.met \cup KeysOf(slots, SlotsBehind(slots, i))
    BY <1>3, <1>7, <1>10
  <1> QED
    BY <1>2, <1>5, <1>10, <1>11, <1>12 DEF Crossing

\* erase through the iterator is an erase of the key it is at, and takes nothing
\* away from what is behind it.
LEMMA SlotEraseHereKeeps ==
  ASSUME SlotIInv, Aln!EraseHere
  PROVE  SlotIInv' /\ \E k \in TableKeys : Aln!Abstract!Erase("map", k)
  <1>0. PICK u : u = Aln!Del(slots, cursor)
    OBVIOUS
  <1>1. PICK k \in Aln!KeyAt(cursor) :
           /\ cursor # Junk /\ slots' = u /\ lastCall' = <<"erase", "map", k>>
           /\ cursor' = cursor /\ crossing' = crossing
    BY <1>0 DEF Aln!EraseHere
  <1>2. /\ SlotSound(slots) /\ SlotReachable(slots) /\ SlotShaped(slots) /\ slots.count \in Nat
        /\ cursor \in 0..slots.count
        /\ crossing = [whole |-> crossing.whole, met |-> crossing.met]
        /\ crossing.whole = crossing.met \cup KeysOf(slots, SlotsBehind(slots, cursor))
    BY <1>1 DEF SlotIInv, SlotSound, SlotShaped, Crossing
  <1>3. cursor \in Indices(slots) /\ Aln!Exists(slots, cursor) /\ slots.key[cursor] = k
    BY <1>1, <1>2 DEF Aln!KeyAt, Indices
  <1>4. k \in TableKeys
    BY <1>2, <1>3, SlotKeys
  <1>5. SlotBuries(slots, u, cursor)
    BY <1>0, <1>2, <1>3, SlotDelDoes
  <1>6. /\ SlotSound(u) /\ SlotReachable(u)
        /\ Indices(u) = Indices(slots) /\ u.count = slots.count
        /\ \A j \in Indices(slots) : j # cursor => u.key[j] = slots.key[j]
        /\ \A j \in Indices(slots) : Aln!Exists(u, j) <=> Aln!Exists(slots, j) /\ j # cursor
    BY <1>2, <1>3, <1>5, SlotBuriesIsSound
  <1>7. SlotContents(u) = Without(SlotContents(slots), k)
    BY <1>2, <1>3, <1>5, SlotContentsErased
  <1>8. SlotFunctions' = [SlotFunctions EXCEPT !["map"] = SlotContents(u)]
    BY <1>1, SlotFunctionChanges
  <1>9. Aln!Abstract!Erase("map", k)
    BY <1>1, <1>7, <1>8
       DEF Aln!Abstract!Erase, Aln!Abstract!Becomes, SlotFunctions, SlotContents, Aln!Contents,
           Without
  <1>10. KeysOf(u, SlotsBehind(u, cursor)) = KeysOf(slots, SlotsBehind(slots, cursor))
    <2>1. SlotsBehind(u, cursor) = SlotsBehind(slots, cursor)
      BY <1>2, <1>6 DEF SlotsBehind, SlotEntries, Indices
    <2>2. \A j \in SlotsBehind(slots, cursor) : u.key[j] = slots.key[j]
      BY <1>2, <1>6 DEF SlotsBehind, SlotEntries, Indices
    <2> QED
      BY <2>1, <2>2 DEF KeysOf
  <1>11. Crossing'
    BY <1>1, <1>2, <1>6, <1>10 DEF Crossing, KeysOf, SlotsBehind, SlotEntries, Aln!Exists
  <1>12. SlotSound(slots)' /\ SlotReachable(slots)'
    BY <1>1, <1>6, SlotsBecome
  <1> QED
    BY <1>4, <1>9, <1>11, <1>12 DEF SlotIInv
-----------------------------------------------------------------------------
LEMMA SlotInit == Aln!Init => SlotIInv /\ Aln!Abstract!Init
  <1> SUFFICES ASSUME Aln!Init PROVE SlotIInv /\ Aln!Abstract!Init
    OBVIOUS
  <1>1. PICK u : u = Aln!Fresh(0)
    OBVIOUS
  <1>2. /\ slots = u /\ lastCall = <<"none">> /\ cursor = Junk
        /\ crossing = [whole |-> {}, met |-> {}]
    BY <1>1 DEF Aln!Init
  <1>3. SlotSound(u) /\ SlotReachable(u) /\ SlotContents(u) = Aln!Abstract!Nowhere
    BY <1>1, FreshSlotsNowhere
  <1>4. SlotIInv
    BY <1>2, <1>3 DEF SlotIInv, Crossing
  <1>5. SlotFunctions = [m \in {"map"} |-> Aln!Abstract!Nowhere]
    BY <1>2, <1>3 DEF SlotFunctions
  <1>6. Aln!Abstract!Init
    BY <1>2, <1>5 DEF Aln!Abstract!Init, SlotFunctions, SlotContents, Aln!Contents
  <1> QED
    BY <1>4, <1>6

\* One action after the other.
LEMMA SlotStepKeeps ==
  ASSUME SlotIInv, Aln!Next \/ UNCHANGED slotVars
  PROVE  SlotIInv' /\ [Aln!Abstract!Next]_Aln!Abstract!vars
  <1>1. CASE Aln!Construct
    BY <1>1, SlotConstructKeeps DEF Aln!Abstract!Next
  <1>2. CASE Aln!Clear
    BY <1>2, SlotClearKeeps DEF Aln!Abstract!Next
  <1>3. CASE Aln!Begin
    BY <1>3, SlotBeginKeeps, SlotsStay DEF Aln!Begin, SlotIInv
  <1>4. CASE Aln!Increment
    BY <1>4, SlotIncrementKeeps, SlotsStay DEF Aln!Increment, SlotIInv
  <1>5. CASE Aln!EraseHere
    BY <1>5, SlotEraseHereKeeps DEF Aln!Abstract!Next
  <1>6. CASE Aln!EndWalk
    <2>1. /\ cursor' = Junk /\ crossing' = [whole |-> {}, met |-> {}]
          /\ slots' = slots /\ lastCall' = lastCall
      BY <1>6 DEF Aln!EndWalk
    <2>2. Crossing'
      BY <2>1 DEF Crossing
    <2> QED
      BY <2>1, <2>2, SlotsStay DEF SlotIInv
  <1>7. ASSUME NEW k \in TableKeys, Aln!Erase(k)
        PROVE  SlotIInv' /\ [Aln!Abstract!Next]_Aln!Abstract!vars
    BY <1>7, SlotEraseKeeps DEF Aln!Abstract!Next
  <1>8. ASSUME NEW k \in TableKeys, NEW v \in TableValues,
               Aln!Insert(k, v) \/ Aln!InsertOrAssign(k, v) \/ Aln!Subscript(k, v)
        PROVE  SlotIInv' /\ [Aln!Abstract!Next]_Aln!Abstract!vars
    BY <1>8, SlotInsertKeeps, SlotInsertOrAssignKeeps, SlotSubscriptKeeps DEF Aln!Abstract!Next
  <1>9. CASE UNCHANGED slotVars
    <2>1. /\ slots' = slots /\ lastCall' = lastCall
          /\ cursor' = cursor /\ crossing' = crossing
      BY <1>9 DEF slotVars
    <2>2. Crossing'
      BY <2>1 DEF SlotIInv, Crossing, KeysOf, SlotsBehind, SlotEntries, Aln!Exists
    <2> QED
      BY <2>1, <2>2, SlotsStay DEF SlotIInv
  <1> QED
    BY <1>1, <1>2, <1>3, <1>4, <1>5, <1>6, <1>7, <1>8, <1>9 DEF Aln!Next

\* align_hash_map steps, or stays as it is while another hashmap does.
LEMMA VendoredStep ==
  ASSUME [NextVendored]_varsVendored
  PROVE  Aln!Next \/ UNCHANGED slotVars
  BY DEF NextVendored, varsVendored

LEMMA SlotInvariance == SpecVendored => []SlotIInv
  <1>1. InitVendored => SlotIInv
    BY SlotInit DEF InitVendored
  <1>2. SlotIInv /\ [NextVendored]_varsVendored => SlotIInv'
    BY SlotStepKeeps, VendoredStep
  <1> QED
    BY <1>1, <1>2, PTL DEF SpecVendored
-----------------------------------------------------------------------------
\* For tables of any size and any hash function, align_hash_map never fills up
\* and can always grow, its counts are right after each resize in place, and a
\* traversal that erases on its way meets all there was (set, resize and del of
\* alignhash_tpl.h, the iterator of alignhash.h).
THEOREM TableStaysIntact == SpecVendored => []TableIntact
  <1>1. SlotIInv => TableIntact
    <2> SUFFICES ASSUME SlotIInv PROVE TableIntact
      OBVIOUS
    <2>1. /\ SlotShaped(slots) /\ SlotCounted(slots) /\ slots.size <= slots.used
          /\ slots.count \in Nat /\ slots.size \in Nat /\ slots.used \in Nat
          /\ slots.used <= Aln!Sup(slots.count) /\ slots.count # 1
          /\ slots.count # 0 => \E e \in Indices(slots) : slots.key[e] = EmptyFlag
      BY SlotSoundLeavesRoom DEF SlotIInv, SlotSound
    <2>2. Aln!Indices = Indices(slots)
      BY DEF Aln!Indices, Indices
    <2>3. Aln!TypeOK
      BY <2>1, <2>2 DEF Aln!TypeOK, SlotShaped, SlotIInv, Crossing
    <2>4. slots.size < Aln!Sup(Aln!Larger(slots))
      <3>1. CASE slots.count = 0
        <4>1. slots.size = 0 /\ Aln!Sup(2) = 1
          BY <2>1, <3>1, Halves
        <4> QED
          BY <3>1, <4>1 DEF Aln!Larger
      <3>2. CASE slots.count # 0
        <4>1. Aln!Sup(slots.count) \in Nat /\ Aln!Sup(slots.count) < slots.count
          BY <2>1, <3>2, Halves
        <4>2. Aln!Sup(2 * slots.count) = slots.count
          BY <2>1, <3>2, Halves
        <4>3. Aln!Larger(slots) = 2 * slots.count
          BY <3>2 DEF Aln!Larger
        <4> QED
          BY <2>1, <4>1, <4>2, <4>3
      <3> QED
        BY <3>1, <3>2
    <2>5. Aln!RoomLeft
      BY <2>1, <2>2, <2>4 DEF Aln!RoomLeft
    <2>6. Aln!CountsAgree
      <3>1. /\ SlotEntries(slots) = {i \in Aln!Indices : Aln!Exists(slots, i)}
            /\ SlotTaken(slots) = {i \in Aln!Indices : slots.key[i] # EmptyFlag}
        BY <2>2 DEF SlotEntries, SlotTaken
      <3> QED
        BY <2>1, <3>1 DEF Aln!CountsAgree, SlotCounted, Aln!Cardinality, Cardinality
    <2>7. Aln!TraversalMeetsAll
      <3> SUFFICES ASSUME cursor = slots.count PROVE crossing.met = crossing.whole
        BY DEF Aln!TraversalMeetsAll
      <3>1. cursor # Junk
        BY <2>1, SlotConstants
      <3>2. SlotsBehind(slots, cursor) = {}
        BY <2>1 DEF SlotsBehind, SlotEntries, Indices
      <3>3. KeysOf(slots, SlotsBehind(slots, cursor)) = {}
        BY <3>2 DEF KeysOf
      <3> QED
        BY <3>1, <3>3 DEF SlotIInv, Crossing
    <2> QED
      BY <2>3, <2>5, <2>6, <2>7 DEF TableIntact
  <1> QED
    BY <1>1, SlotInvariance, PTL

\* For tables of any size and any hash function, each of its calls does to the
\* finite function that looking up every key gives what its name says, the
\* resize in place that kicks entries out included (alignhash.h, and get, set,
\* del and resize of alignhash_tpl.h).
THEOREM AlignHashIsAMap == SpecVendored => TableSpec
  <1>1. InitVendored => Aln!Abstract!Init
    BY SlotInit DEF InitVendored
  <1>2. SlotIInv /\ [NextVendored]_varsVendored => [Aln!Abstract!Next]_Aln!Abstract!vars
    BY SlotStepKeeps, VendoredStep
  <1> QED
    BY <1>1, <1>2, SlotInvariance, PTL
       DEF SpecVendored, TableSpec, Aln!MapSpec, Aln!Abstract!Spec
-----------------------------------------------------------------------------
\* Recursion.  Every step leads from one of the sets to the next one.
LeadOn(low, high, S, T, s0, step) ==
    /\ low \in Nat /\ high \in Nat /\ low <= high
    /\ \A r \in low..high : T[r] \subseteq S
    /\ s0 \in T[low]
    /\ \A r \in low + 1..high : \A s \in T[r - 1] : step[<<r, s>>] \in T[r]

\* A function defined by such steps exists.
HasSteps(low, high, S, T, s0, step, f) ==
    /\ f \in [low..high -> S]
    /\ f[low] = s0
    /\ \A r \in low + 1..high : f[r] = step[<<r, f[r - 1]>>]
    /\ \A r \in low..high : f[r] \in T[r]

LEMMA StepsLeadOn ==
  ASSUME NEW low, NEW high, NEW S, NEW T, NEW s0, NEW step, LeadOn(low, high, S, T, s0, step)
  PROVE  \E f : HasSteps(low, high, S, T, s0, step, f)
  <1> USE DEF LeadOn
  <1> DEFINE UpTo(n, g) == /\ g \in [low..n -> S] /\ g[low] = s0
                           /\ \A r \in low + 1..n : g[r] = step[<<r, g[r - 1]>>]
                           /\ \A r \in low..n : g[r] \in T[r]
             Done == {d \in Nat : low + d <= high => \E g : UpTo(low + d, g)}
  <1>1. 0 \in Done
    <2> DEFINE g == [r \in low..low |-> s0]
    <2>1. (\A r \in low..low : r = low) /\ low \in low..low /\ low \in low..high
      OBVIOUS
    <2>2. s0 \in S
      BY <2>1
    <2>3. g \in [low..low -> S] /\ g[low] = s0
      BY <2>1, <2>2
    <2>4. \A r \in low + 1..low : FALSE
      OBVIOUS
    <2>5. UpTo(low, g)
      BY <2>1, <2>3, <2>4
    <2>6. low + 0 = low
      OBVIOUS
    <2> HIDE DEF UpTo, g
    <2> QED
      BY <2>5, <2>6
  <1>2. ASSUME NEW d \in Nat, d \in Done PROVE d + 1 \in Done
    <2> SUFFICES ASSUME low + (d + 1) <= high PROVE \E g : UpTo(low + (d + 1), g)
      OBVIOUS
    <2>1. PICK m \in Nat : m = low + d
      OBVIOUS
    <2>2. m <= high /\ low + (d + 1) = m + 1
      BY <2>1
    <2>3. PICK g : UpTo(m, g)
      BY <1>2, <2>1, <2>2
    <2>4. PICK n \in Nat : n = m + 1
      OBVIOUS
    <2>5. PICK x : x = step[<<n, g[m]>>]
      OBVIOUS
    <2> DEFINE h == [r \in low..n |-> IF r = n THEN x ELSE g[r]]
    <2>6. /\ m \in low..m /\ n \in low + 1..high /\ n - 1 = m /\ n # low /\ n \in low..n
          /\ low # n /\ low \in low..n /\ n \in low..high /\ low \in low..m
      BY <2>1, <2>2, <2>4
    <2>7. /\ \A r \in low..n : r # n => r \in low..m
          /\ \A r \in low + 1..n : r \in low..n /\ (r # n => r \in low + 1..m /\ r - 1 \in low..m)
          /\ \A r \in low..m : r \in low..n /\ r # n
      BY <2>1, <2>4
    <2>8. h[n] = x /\ \A r \in low..m : h[r] = g[r]
      BY <2>6, <2>7
    <2>9. x \in T[n]
      BY <2>3, <2>5, <2>6
    <2>10. x \in S
      BY <2>6, <2>9
    <2>11. h \in [low..n -> S]
      <3>1. g \in [low..m -> S]
        BY <2>3
      <3> QED
        BY <2>7, <2>10, <3>1
    <2> HIDE DEF h
    <2>12. h[low] = s0
      BY <2>3, <2>6, <2>8
    <2>13. ASSUME NEW r \in low + 1..n PROVE h[r] = step[<<r, h[r - 1]>>]
      <3>1. CASE r = n
        BY <2>5, <2>6, <2>8, <3>1
      <3>2. CASE r # n
        <4>1. r \in low + 1..m /\ r - 1 \in low..m /\ r \in low..m
          BY <2>7, <3>2
        <4>2. g[r] = step[<<r, g[r - 1]>>]
          BY <2>3, <4>1
        <4> QED
          BY <2>8, <4>1, <4>2
      <3> QED
        BY <3>1, <3>2
    <2>14. ASSUME NEW r \in low..n PROVE h[r] \in T[r]
      <3>1. CASE r = n
        BY <2>8, <2>9, <3>1
      <3>2. CASE r # n
        BY <2>3, <2>7, <2>8, <3>2
      <3> QED
        BY <3>1, <3>2
    <2>15. UpTo(n, h)
      BY <2>11, <2>12, <2>13, <2>14
    <2> HIDE DEF UpTo
    <2> QED
      BY <2>2, <2>4, <2>15
  <1> HIDE DEF Done
  <1>3. PICK d \in Nat : low + d = high
    <2>1. high - low \in Nat /\ low + (high - low) = high
      OBVIOUS
    <2> QED
      BY <2>1
  <1>4. d \in Done
    BY <1>1, <1>2, AllNaturals
  <1>5. PICK g : UpTo(high, g)
    BY <1>3, <1>4 DEF Done
  <1>6. HasSteps(low, high, S, T, s0, step, g)
    BY ONLY <1>5 DEF HasSteps
  <1> QED
    BY <1>6

\* And there is just one.
GoTogether(low, high, f, g) ==
    /\ low \in Nat /\ high \in Nat
    /\ f[low] = g[low]
    /\ \A r \in low + 1..high : f[r - 1] = g[r - 1] => f[r] = g[r]

AgreeOn(low, high, f, g) == \A r \in low..high : f[r] = g[r]

LEMMA StepsAgree ==
  ASSUME NEW low, NEW high, NEW f, NEW g, GoTogether(low, high, f, g)
  PROVE  AgreeOn(low, high, f, g)
  <1> USE DEF GoTogether, AgreeOn
  <1> DEFINE Done == {d \in Nat : low + d <= high => f[low + d] = g[low + d]}
  <1>1. 0 \in Done
    <2>1. low + 0 = low
      OBVIOUS
    <2> QED
      BY <2>1
  <1>2. ASSUME NEW d \in Nat, d \in Done PROVE d + 1 \in Done
    <2> SUFFICES ASSUME low + (d + 1) <= high PROVE f[low + (d + 1)] = g[low + (d + 1)]
      OBVIOUS
    <2>1. PICK n \in Nat : n = low + d + 1
      OBVIOUS
    <2>2. n \in low + 1..high /\ n - 1 = low + d /\ low + (d + 1) = n /\ low + d <= high
      BY <2>1
    <2>3. f[n - 1] = g[n - 1]
      BY <1>2, <2>2
    <2> QED
      BY <2>2, <2>3
  <1> HIDE DEF Done
  <1>3. \A d \in Nat : d \in Done
    BY <1>1, <1>2, AllNaturals
  <1> SUFFICES ASSUME NEW r \in low..high PROVE f[r] = g[r]
    OBVIOUS
  <1>4. PICK d \in Nat : d = r - low
    OBVIOUS
  <1>5. low + d = r /\ low + d <= high
    BY <1>4
  <1> QED
    BY <1>3, <1>5 DEF Done
-----------------------------------------------------------------------------
\* Lists of entries.  x is in s.
Among(s, x) == \E i \in 1..Len(s) : s[i] = x

\* Nothing is in s twice.
Once(s) == \A i, j \in 1..Len(s) : s[i] = s[j] => i = j

\* x comes before y.
Ahead(s, x, y) == \E p, q \in 1..Len(s) : p < q /\ s[p] = x /\ s[q] = y

\* s has what T has, once.
Lined(s, T) == s \in Seq(ChainEntries) /\ Once(s) /\ \A x : Among(s, x) <=> x \in T

LEMMA ListsAreLined ==
  ASSUME NEW s \in Seq(ChainEntries)
  PROVE  /\ \A T : Chn!ListsJust(s, T) <=> Lined(s, T)
         /\ \A x, y : Chn!Before(s, x, y) <=> Ahead(s, x, y)
         /\ \A x : x \in Chn!ToSet(s) <=> Among(s, x)
         /\ Chn!IsInjective(s) <=> Once(s)
  <1>1. DOMAIN s = 1..Len(s) /\ Len(s) \in Nat
    OBVIOUS
  <1>2. \A x : x \in Chn!ToSet(s) <=> Among(s, x)
    BY <1>1 DEF Chn!ToSet, Among
  <1>3. Chn!IsInjective(s) <=> Once(s)
    BY <1>1 DEF Chn!IsInjective, Once
  <1>4. \A x, y : Chn!Before(s, x, y) <=> Ahead(s, x, y)
    BY <1>1 DEF Chn!Before, Ahead
  <1>5. ASSUME NEW T PROVE Chn!ListsJust(s, T) <=> Lined(s, T)
    <2>1. Chn!ToSet(s) = T <=> \A x : Among(s, x) <=> x \in T
      BY <1>2
    <2> QED
      BY <1>3, <2>1 DEF Chn!ListsJust, Lined
  <1> QED
    BY <1>2, <1>3, <1>4, <1>5

LEMMA EmptyList ==
  /\ Lined(<<>>, {}) /\ <<>> \in Seq(ChainEntries) /\ Len(<<>>) = 0 /\ Once(<<>>)
  /\ \A x : ~Among(<<>>, x)
  /\ \A x, y : ~Ahead(<<>>, x, y)
  <1>1. <<>> \in Seq(ChainEntries) /\ Len(<<>>) = 0
    OBVIOUS
  <1> QED
    BY <1>1 DEF Lined, Once, Among, Ahead

LEMMA EmptyIsEmpty ==
  ASSUME NEW s \in Seq(ChainEntries)
  PROVE  /\ s = <<>> <=> \A x : ~Among(s, x)
         /\ s = <<>> <=> Len(s) = 0
         /\ s # <<>> => Len(s) \in Nat \ {0} /\ Head(s) = s[1] /\ Among(s, s[1]) /\ Among(s, s[Len(s)])
  <1>1. s = <<>> <=> Len(s) = 0
    OBVIOUS
  <1>2. s # <<>> => Len(s) \in Nat \ {0} /\ Head(s) = s[1] /\ Among(s, s[1]) /\ Among(s, s[Len(s)])
    BY DEF Among
  <1>3. s = <<>> => \A x : ~Among(s, x)
    BY EmptyList
  <1> QED
    BY <1>1, <1>2, <1>3

LEMMA SingleList ==
  ASSUME NEW n \in ChainEntries
  PROVE  /\ <<n>> \in Seq(ChainEntries) /\ Len(<<n>>) = 1 /\ <<n>>[1] = n /\ Once(<<n>>)
         /\ Lined(<<n>>, {n})
         /\ \A x : Among(<<n>>, x) <=> x = n
         /\ \A x, y : ~Ahead(<<n>>, x, y)
  <1>1. <<n>> \in Seq(ChainEntries) /\ Len(<<n>>) = 1 /\ <<n>>[1] = n
    OBVIOUS
  <1>2. (\A x : Among(<<n>>, x) <=> x = n) /\ Once(<<n>>) /\ \A x, y : ~Ahead(<<n>>, x, y)
    <2>1. \A i \in 1..Len(<<n>>) : i = 1
      BY <1>1
    <2>2. 1 \in 1..Len(<<n>>)
      BY <1>1
    <2> QED
      BY <1>1, <2>1, <2>2 DEF Among, Once, Ahead
  <1> QED
    BY <1>1, <1>2 DEF Lined

\* What is ahead of what in a list is a linear order.
LEMMA AheadIsOrder ==
  ASSUME NEW s \in Seq(ChainEntries), Once(s)
  PROVE  /\ \A x, y : Ahead(s, x, y) => Among(s, x) /\ Among(s, y) /\ x # y /\ ~Ahead(s, y, x)
         /\ \A x, y, z : Ahead(s, x, y) /\ Ahead(s, y, z) => Ahead(s, x, z)
         /\ \A x, y : Among(s, x) /\ Among(s, y) /\ x # y => Ahead(s, x, y) \/ Ahead(s, y, x)
         /\ \A i, j \in 1..Len(s) : i < j <=> Ahead(s, s[i], s[j])
  <1>1. Len(s) \in Nat
    OBVIOUS
  <1>2. \A i, j \in 1..Len(s) : s[i] = s[j] => i = j
    BY DEF Once
  <1>3. \A i, j \in 1..Len(s) : i < j <=> Ahead(s, s[i], s[j])
    BY <1>1, <1>2 DEF Ahead
  <1>4. \A x : Among(s, x) <=> \E i \in 1..Len(s) : s[i] = x
    BY DEF Among
  <1>5. \A x, y : Ahead(s, x, y) => \E i \in 1..Len(s) : \E j \in 1..Len(s) : s[i] = x /\ s[j] = y /\ i < j
    BY DEF Ahead
  <1>6. \A i, j \in 1..Len(s) : i < j \/ j < i \/ i = j
    BY <1>1
  <1>7. \A i, j \in 1..Len(s) : ~(i < j /\ j < i)
    BY <1>1
  <1>8. \A i, j, k \in 1..Len(s) : i < j /\ j < k => i < k
    BY <1>1
  <1>9. ASSUME NEW x, NEW y, Ahead(s, x, y)
        PROVE  Among(s, x) /\ Among(s, y) /\ x # y /\ ~Ahead(s, y, x)
    <2>1. PICK i \in 1..Len(s) : \E j \in 1..Len(s) : s[i] = x /\ s[j] = y /\ i < j
      BY <1>5, <1>9
    <2>2. PICK j \in 1..Len(s) : s[i] = x /\ s[j] = y /\ i < j
      BY <2>1
    <2>3. ~(j < i) /\ i # j
      BY <1>1, <2>2
    <2> QED
      BY <1>2, <1>3, <1>4, <2>2, <2>3
  <1>10. ASSUME NEW x, NEW y, NEW z, Ahead(s, x, y), Ahead(s, y, z) PROVE Ahead(s, x, z)
    <2>1. PICK i \in 1..Len(s), j \in 1..Len(s) : s[i] = x /\ s[j] = y /\ i < j
      BY <1>5, <1>10
    <2>2. PICK h \in 1..Len(s), k \in 1..Len(s) : s[h] = y /\ s[k] = z /\ h < k
      BY <1>5, <1>10
    <2>3. h = j
      BY <1>2, <2>1, <2>2
    <2> QED
      BY <1>3, <1>8, <2>1, <2>2, <2>3
  <1>11. ASSUME NEW x, NEW y, Among(s, x), Among(s, y), x # y PROVE Ahead(s, x, y) \/ Ahead(s, y, x)
    BY <1>3, <1>4, <1>6, <1>11
  <1> QED
    BY <1>3, <1>9, <1>10, <1>11

LEMMA TwoLists ==
  ASSUME NEW s \in Seq(ChainEntries), NEW t \in Seq(ChainEntries)
  PROVE  /\ s \o t \in Seq(ChainEntries) /\ Len(s \o t) = Len(s) + Len(t)
         /\ \A x : Among(s \o t, x) <=> Among(s, x) \/ Among(t, x)
         /\ \A x, y : Ahead(s \o t, x, y) <=>
                          Ahead(s, x, y) \/ Ahead(t, x, y) \/ (Among(s, x) /\ Among(t, y))
         /\ Once(s) /\ Once(t) /\ (\A x : ~(Among(s, x) /\ Among(t, x))) => Once(s \o t)
  <1> DEFINE u == s \o t
  <1>1. Len(s) \in Nat /\ Len(t) \in Nat
    OBVIOUS
  <1>2. /\ u \in Seq(ChainEntries) /\ Len(u) = Len(s) + Len(t)
        /\ \A i \in 1..Len(s) + Len(t) : u[i] = IF i <= Len(s) THEN s[i] ELSE t[i - Len(s)]
    BY ConcatProperties
  <1> HIDE DEF u
  <1>3. PICK a \in Nat, b \in Nat : a = Len(s) /\ b = Len(t)
    BY <1>1
  <1>4. \A i \in 1..a : i \in 1..Len(u) /\ u[i] = s[i]
    BY <1>2, <1>3
  <1>5. \A j \in 1..b : a + j \in 1..Len(u) /\ u[a + j] = t[j]
    <2> SUFFICES ASSUME NEW j \in 1..b PROVE a + j \in 1..Len(u) /\ u[a + j] = t[j]
      OBVIOUS
    <2>1. a + j \in 1..a + b /\ ~(a + j <= a) /\ a + j - a = j
      OBVIOUS
    <2> QED
      BY <1>2, <1>3, <2>1
  <1>6. \A i \in 1..Len(u) : i \in 1..a \/ \E j \in 1..b : i = a + j
    <2> SUFFICES ASSUME NEW i \in 1..Len(u), ~(i \in 1..a) PROVE \E j \in 1..b : i = a + j
      OBVIOUS
    <2>1. i - a \in 1..b /\ i = a + (i - a)
      BY <1>2, <1>3
    <2> QED
      BY <2>1
  <1>7. \A x : Among(u, x) <=> Among(s, x) \/ Among(t, x)
    <2> SUFFICES ASSUME NEW x PROVE Among(u, x) <=> Among(s, x) \/ Among(t, x)
      OBVIOUS
    <2>1. ASSUME Among(s, x) PROVE Among(u, x)
      BY <1>3, <1>4, <2>1 DEF Among
    <2>2. ASSUME Among(t, x) PROVE Among(u, x)
      BY <1>3, <1>5, <2>2 DEF Among
    <2>3. ASSUME Among(u, x) PROVE Among(s, x) \/ Among(t, x)
      <3>1. PICK i \in 1..Len(u) : u[i] = x
        BY <2>3 DEF Among
      <3>2. CASE i \in 1..a
        BY <1>3, <1>4, <3>1, <3>2 DEF Among
      <3>3. CASE \E j \in 1..b : i = a + j
        BY <1>3, <1>5, <3>1, <3>3 DEF Among
      <3> QED
        BY <1>6, <3>2, <3>3
    <2> QED
      BY <2>1, <2>2, <2>3
  <1>8. \A i \in 1..a, j \in 1..b : i < a + j /\ ~(a + j < i)
    OBVIOUS
  <1>9. \A j, k \in 1..b : j < k <=> a + j < a + k
    OBVIOUS
  <1>10. ASSUME NEW x, NEW y, Ahead(u, x, y)
         PROVE  Ahead(s, x, y) \/ Ahead(t, x, y) \/ (Among(s, x) /\ Among(t, y))
    <2>1. PICK p \in 1..Len(u), q \in 1..Len(u) : p < q /\ u[p] = x /\ u[q] = y
      BY <1>10 DEF Ahead
    <2>2. CASE p \in 1..a /\ q \in 1..a
      BY <1>3, <1>4, <2>1, <2>2 DEF Ahead
    <2>3. CASE p \in 1..a /\ \E j \in 1..b : q = a + j
      BY <1>3, <1>4, <1>5, <2>1, <2>3 DEF Among
    <2>4. CASE (\E j \in 1..b : p = a + j) /\ q \in 1..a
      BY <1>8, <2>1, <2>4
    <2>5. CASE (\E j \in 1..b : p = a + j) /\ \E j \in 1..b : q = a + j
      BY <1>3, <1>5, <1>9, <2>1, <2>5 DEF Ahead
    <2> QED
      BY <1>6, <2>2, <2>3, <2>4, <2>5
  <1>11. ASSUME NEW x, NEW y, Ahead(s, x, y) \/ Ahead(t, x, y) \/ (Among(s, x) /\ Among(t, y))
         PROVE  Ahead(u, x, y)
    <2>1. CASE Ahead(s, x, y)
      BY <1>3, <1>4, <2>1 DEF Ahead
    <2>2. CASE Ahead(t, x, y)
      <3>1. PICK p \in 1..b, q \in 1..b : p < q /\ t[p] = x /\ t[q] = y
        BY <1>3, <2>2 DEF Ahead
      <3> QED
        BY <1>5, <1>9, <3>1 DEF Ahead
    <2>3. CASE Among(s, x) /\ Among(t, y)
      <3>1. PICK i \in 1..a, j \in 1..b : s[i] = x /\ t[j] = y
        BY <1>3, <2>3 DEF Among
      <3> QED
        BY <1>4, <1>5, <1>8, <3>1 DEF Ahead
    <2> QED
      BY <1>11, <2>1, <2>2, <2>3
  <1>12. ASSUME Once(s), Once(t), \A x : ~(Among(s, x) /\ Among(t, x)) PROVE Once(u)
    <2> SUFFICES ASSUME NEW i \in 1..Len(u), NEW j \in 1..Len(u), u[i] = u[j] PROVE i = j
      BY DEF Once
    <2>1. CASE i \in 1..a /\ j \in 1..a
      BY <1>3, <1>4, <1>12, <2>1 DEF Once
    <2>2. CASE i \in 1..a /\ \E k \in 1..b : j = a + k
      <3>1. Among(s, u[i]) /\ Among(t, u[j])
        BY <1>3, <1>4, <1>5, <2>2 DEF Among
      <3> QED
        BY <1>12, <3>1
    <2>3. CASE (\E k \in 1..b : i = a + k) /\ j \in 1..a
      <3>1. Among(s, u[j]) /\ Among(t, u[i])
        BY <1>3, <1>4, <1>5, <2>3 DEF Among
      <3> QED
        BY <1>12, <3>1
    <2>4. CASE (\E k \in 1..b : i = a + k) /\ \E k \in 1..b : j = a + k
      <3>1. PICK g \in 1..b, h \in 1..b : i = a + g /\ j = a + h
        BY <2>4
      <3>2. t[g] = t[h]
        BY <1>5, <3>1
      <3> QED
        BY <1>3, <1>12, <3>1, <3>2 DEF Once
    <2> QED
      BY <1>6, <2>1, <2>2, <2>3, <2>4
  <1> QED
    BY <1>2, <1>7, <1>10, <1>11, <1>12 DEF u

\* A list is its first entry and the others.
LEMMA HeadAndTail ==
  ASSUME NEW s \in Seq(ChainEntries), s # <<>>
  PROVE  /\ Head(s) \in ChainEntries /\ Head(s) = s[1]
         /\ Tail(s) \in Seq(ChainEntries) /\ Len(Tail(s)) = Len(s) - 1
         /\ \A x : Among(s, x) <=> x = Head(s) \/ Among(Tail(s), x)
         /\ \A x, y : Ahead(s, x, y) <=> Ahead(Tail(s), x, y) \/ (x = Head(s) /\ Among(Tail(s), y))
         /\ Once(s) => Once(Tail(s)) /\ ~Among(Tail(s), Head(s))
  <1>1. /\ Head(s) \in ChainEntries /\ Head(s) = s[1] /\ Tail(s) \in Seq(ChainEntries)
        /\ Len(Tail(s)) = Len(s) - 1 /\ Len(s) \in Nat \ {0}
        /\ \A i \in 1..Len(s) - 1 : Tail(s)[i] = s[i + 1]
    BY HeadTailProperties, EmptyIsEmpty
  <1> DEFINE h == <<Head(s)>>
  <1>2. /\ h \in Seq(ChainEntries) /\ Len(h) = 1 /\ h[1] = Head(s)
        /\ \A x : Among(h, x) <=> x = Head(s)
        /\ \A x, y : ~Ahead(h, x, y)
    BY <1>1, SingleList
  <1> HIDE DEF h
  <1>3. s = h \o Tail(s)
    <2>1. /\ h \o Tail(s) \in Seq(ChainEntries) /\ Len(h \o Tail(s)) = Len(h) + Len(Tail(s))
          /\ \A i \in 1..Len(h) + Len(Tail(s)) :
                 (h \o Tail(s))[i] = IF i <= Len(h) THEN h[i] ELSE Tail(s)[i - Len(h)]
      BY <1>1, <1>2, ConcatProperties
    <2>2. PICK t : t = h \o Tail(s)
      OBVIOUS
    <2>3. Len(t) = Len(s) /\ t \in Seq(ChainEntries)
      BY <1>1, <1>2, <2>1, <2>2
    <2>4. ASSUME NEW i \in 1..Len(s) PROVE t[i] = s[i]
      <3>1. CASE i = 1
        BY <1>1, <1>2, <2>1, <2>2, <2>3, <3>1
      <3>2. CASE i # 1
        <4>1. i - 1 \in 1..Len(s) - 1 /\ i - 1 + 1 = i /\ ~(i <= 1)
          BY <1>1, <3>2
        <4>2. t[i] = Tail(s)[i - 1]
          BY <1>1, <1>2, <2>1, <2>2, <2>3, <4>1
        <4> QED
          BY <1>1, <4>1, <4>2
      <3> QED
        BY <3>1, <3>2
    <2>5. t = s
      BY <2>3, <2>4, SeqEqual
    <2> QED
      BY <2>2, <2>5
  <1>4. /\ \A x : Among(s, x) <=> Among(h, x) \/ Among(Tail(s), x)
        /\ \A x, y : Ahead(s, x, y) <=>
              Ahead(h, x, y) \/ Ahead(Tail(s), x, y) \/ (Among(h, x) /\ Among(Tail(s), y))
    <2>1. PICK b \in Seq(ChainEntries) : b = Tail(s)
      BY <1>1
    <2>2. /\ \A x : Among(h \o b, x) <=> Among(h, x) \/ Among(b, x)
          /\ \A x, y : Ahead(h \o b, x, y) <=>
                Ahead(h, x, y) \/ Ahead(b, x, y) \/ (Among(h, x) /\ Among(b, y))
      BY <1>2, TwoLists
    <2> QED
      BY ONLY <1>3, <2>1, <2>2
  <1>5. ASSUME Once(s) PROVE Once(Tail(s)) /\ ~Among(Tail(s), Head(s))
    <2>1. \A i \in 1..Len(s) - 1 : i + 1 \in 1..Len(s) /\ i + 1 # 1
      BY <1>1
    <2>2. 1 \in 1..Len(s)
      BY <1>1
    <2>3. \A i \in 1..Len(Tail(s)) : Tail(s)[i] = s[i + 1] /\ i + 1 \in 1..Len(s) /\ i + 1 # 1 /\ i \in Nat
      BY <1>1, <2>1
    <2>4. Once(Tail(s))
      <3> SUFFICES ASSUME NEW i \in 1..Len(Tail(s)), NEW j \in 1..Len(Tail(s)), Tail(s)[i] = Tail(s)[j]
                   PROVE  i = j
        BY DEF Once
      <3>1. i + 1 = j + 1
        BY <1>5, <2>3 DEF Once
      <3> QED
        BY <2>3, <3>1
    <2>5. ~Among(Tail(s), Head(s))
      BY <1>1, <1>5, <2>2, <2>3 DEF Once, Among
    <2> QED
      BY <2>4, <2>5
  <1> QED
    BY <1>1, <1>2, <1>4, <1>5

\* A list without its place p.
ListLess(s, p) == SubSeq(s, 1, p - 1) \o SubSeq(s, p + 1, Len(s))

\* The list without the entry at p.
LEMMA ListWithout ==
  ASSUME NEW s \in Seq(ChainEntries), Once(s), NEW p \in 1..Len(s),
         NEW t, t = ListLess(s, p)
  PROVE  /\ t \in Seq(ChainEntries) /\ Once(t)
         /\ \A x : Among(t, x) <=> Among(s, x) /\ x # s[p]
         /\ \A x, y : Ahead(t, x, y) <=> Ahead(s, x, y) /\ x # s[p] /\ y # s[p]
  <1> DEFINE a == SubSeq(s, 1, p - 1)
             b == SubSeq(s, p + 1, Len(s))
  <1>1. PICK n \in Nat : n = Len(s)
    OBVIOUS
  <1>2. p \in Nat /\ p >= 1 /\ p <= n
    BY <1>1
  <1>3. /\ a \in Seq(ChainEntries) /\ Len(a) = p - 1
        /\ \A i \in 1..p - 1 : a[i] = s[i]
    <2>1. \A i \in 1..p - 1 : s[i] \in ChainEntries
      BY <1>1, <1>2
    <2>2. /\ a \in Seq(ChainEntries) /\ Len(a) = IF 1 <= p - 1 THEN p - 1 - 1 + 1 ELSE 0
          /\ \A i \in 1..p - 1 - 1 + 1 : a[i] = s[1 + i - 1]
      BY <1>2, <2>1, SubSeqProperties
    <2> HIDE DEF a
    <2> QED
      BY <1>2, <2>2
  <1>4. /\ b \in Seq(ChainEntries) /\ Len(b) = n - p
        /\ \A i \in 1..n - p : b[i] = s[p + i]
    <2>1. \A i \in p + 1..n : s[i] \in ChainEntries
      BY <1>1, <1>2
    <2>2. /\ b \in Seq(ChainEntries) /\ Len(b) = IF p + 1 <= n THEN n - (p + 1) + 1 ELSE 0
          /\ \A i \in 1..n - (p + 1) + 1 : b[i] = s[p + 1 + i - 1]
      BY <1>1, <1>2, <2>1, SubSeqProperties
    <2> HIDE DEF b
    <2> QED
      BY <1>2, <2>2
  <1>5. t = a \o b
    BY DEF ListLess
  <1> HIDE DEF a, b
  <1>6. /\ t \in Seq(ChainEntries) /\ Len(t) = n - 1
        /\ \A i \in 1..n - 1 : t[i] = IF i < p THEN s[i] ELSE s[i + 1]
    <2>1. /\ a \o b \in Seq(ChainEntries) /\ Len(a \o b) = Len(a) + Len(b)
          /\ \A i \in 1..Len(a) + Len(b) : (a \o b)[i] = IF i <= Len(a) THEN a[i] ELSE b[i - Len(a)]
      BY <1>3, <1>4, ConcatProperties
    <2>2. Len(a) + Len(b) = n - 1
      BY <1>2, <1>3, <1>4
    <2>3. \A i \in 1..n - 1 : t[i] = IF i <= p - 1 THEN a[i] ELSE b[i - (p - 1)]
      BY ONLY <1>3, <1>5, <2>1, <2>2
    <2>4. ASSUME NEW i \in 1..n - 1 PROVE t[i] = IF i < p THEN s[i] ELSE s[i + 1]
      <3>1. CASE i < p
        <4>1. i <= p - 1 /\ i \in 1..p - 1
          BY <1>2, <3>1
        <4> QED
          BY <1>3, <2>3, <3>1, <4>1
      <3>2. CASE ~(i < p)
        <4>1. ~(i <= p - 1) /\ i - (p - 1) \in 1..n - p /\ p + (i - (p - 1)) = i + 1
          BY <1>2, <3>2
        <4> QED
          BY <1>4, <2>3, <3>2, <4>1
      <3> QED
        BY <3>1, <3>2
    <2> QED
      BY <1>5, <2>1, <2>2, <2>4
  <1> DEFINE Old(i) == IF i < p THEN i ELSE i + 1
  <1>7. \A i \in 1..Len(t) : Old(i) \in 1..Len(s) /\ Old(i) # p /\ t[i] = s[Old(i)]
    <2> SUFFICES ASSUME NEW i \in 1..n - 1 PROVE Old(i) \in 1..n /\ Old(i) # p /\ t[i] = s[Old(i)]
      BY <1>1, <1>6
    <2>1. t[i] = IF i < p THEN s[i] ELSE s[i + 1]
      BY <1>6
    <2>2. Old(i) \in 1..n /\ Old(i) # p
      BY <1>2
    <2>3. t[i] = s[Old(i)]
      BY <2>1
    <2> QED
      BY <2>2, <2>3
  <1>8. \A i, j \in 1..Len(t) : (i < j <=> Old(i) < Old(j)) /\ (Old(i) = Old(j) => i = j)
    BY <1>1, <1>2, <1>6
  <1>9. \A i \in 1..Len(s) : i # p => \E j \in 1..Len(t) : Old(j) = i
    <2> SUFFICES ASSUME NEW i \in 1..Len(s), i # p PROVE \E j \in 1..Len(t) : Old(j) = i
      OBVIOUS
    <2>1. CASE i < p
      <3>1. i \in 1..Len(t) /\ Old(i) = i
        BY <1>1, <1>2, <1>6, <2>1
      <3> QED
        BY <3>1
    <2>2. CASE ~(i < p)
      <3>0. i \in 1..n /\ Len(t) = n - 1 /\ i # p
        BY <1>1, <1>6
      <3>1. i - 1 \in 1..Len(t) /\ ~(i - 1 < p) /\ i - 1 + 1 = i
        <4>1. PICK j \in Int : j = i - 1
          BY <3>0
        <4>2. i = j + 1 /\ p <= j /\ j <= n - 1
          BY <1>2, <2>2, <3>0, <4>1
        <4>3. j \in 1..n - 1 /\ ~(j < p)
          BY <1>2, <4>1, <4>2
        <4> QED
          BY <3>0, <4>1, <4>2, <4>3
      <3>2. Old(i - 1) = i
        BY <3>1
      <3> QED
        BY <3>1, <3>2
    <2> QED
      BY <2>1, <2>2
  <1> HIDE DEF Old
  <1>10. \A i, j \in 1..Len(s) : s[i] = s[j] => i = j
    BY DEF Once
  <1>11. Once(t)
    <2> SUFFICES ASSUME NEW i \in 1..Len(t), NEW j \in 1..Len(t), t[i] = t[j] PROVE i = j
      BY DEF Once
    <2>1. s[Old(i)] = s[Old(j)] /\ Old(i) \in 1..Len(s) /\ Old(j) \in 1..Len(s)
      BY <1>7
    <2>2. Old(i) = Old(j)
      BY <1>10, <2>1
    <2> QED
      BY <1>8, <2>2
  <1>12. ASSUME NEW x PROVE Among(t, x) <=> Among(s, x) /\ x # s[p]
    <2>1. ASSUME Among(t, x) PROVE Among(s, x) /\ x # s[p]
      <3>1. PICK i \in 1..Len(t) : t[i] = x
        BY <2>1 DEF Among
      <3> QED
        BY <1>7, <1>10, <3>1 DEF Among
    <2>2. ASSUME Among(s, x), x # s[p] PROVE Among(t, x)
      <3>1. PICK i \in 1..Len(s) : s[i] = x
        BY <2>2 DEF Among
      <3>2. PICK j \in 1..Len(t) : Old(j) = i
        BY <1>9, <2>2, <3>1
      <3> QED
        BY <1>7, <3>1, <3>2 DEF Among
    <2> QED
      BY <2>1, <2>2
  <1>13. ASSUME NEW x, NEW y PROVE Ahead(t, x, y) <=> Ahead(s, x, y) /\ x # s[p] /\ y # s[p]
    <2>1. ASSUME Ahead(t, x, y) PROVE Ahead(s, x, y) /\ x # s[p] /\ y # s[p]
      <3>1. PICK i \in 1..Len(t), j \in 1..Len(t) : i < j /\ t[i] = x /\ t[j] = y
        BY <2>1 DEF Ahead
      <3>2. Old(i) < Old(j) /\ s[Old(i)] = x /\ s[Old(j)] = y
        BY <1>7, <1>8, <3>1
      <3> QED
        BY <1>7, <1>10, <3>2 DEF Ahead
    <2>2. ASSUME Ahead(s, x, y), x # s[p], y # s[p] PROVE Ahead(t, x, y)
      <3>1. PICK i \in 1..Len(s), j \in 1..Len(s) : i < j /\ s[i] = x /\ s[j] = y
        BY <2>2 DEF Ahead
      <3>2. PICK g \in 1..Len(t), h \in 1..Len(t) : Old(g) = i /\ Old(h) = j
        BY <1>9, <2>2, <3>1
      <3> QED
        BY <1>7, <1>8, <3>1, <3>2 DEF Ahead
    <2> QED
      BY <2>1, <2>2
  <1> QED
    BY <1>6, <1>11, <1>12, <1>13

\* Place finds the first entry that is in S.
LEMMA PlaceIsFirst ==
  ASSUME NEW s \in Seq(ChainEntries), NEW S, NEW p, p = Chn!Place(s, S)
  PROVE  /\ (\A i \in 1..Len(s) : s[i] \notin S) => p = 0
         /\ (\E i \in 1..Len(s) : s[i] \in S) =>
                p \in 1..Len(s) /\ s[p] \in S /\ \A i \in 1..Len(s) : s[i] \in S => p <= i
  <1> DEFINE I == {i \in 1..Len(s) : s[i] \in S}
  <1>1. p = IF I # {} THEN Chn!Min(I) ELSE 0
    BY DEF Chn!Place, Chn!SelectInSeq
  <1>2. Len(s) \in Nat
    OBVIOUS
  <1>3. ASSUME I # {} PROVE p \in I /\ \A i \in I : p <= i
    <2> HIDE DEF I
    <2>1. I \in SUBSET Nat
      BY <1>2 DEF I
    <2>2. \E k \in I : \A i \in I : ~(i < k)
      BY <1>3, <2>1, LeastNatural
    <2>3. \E k \in I : \A i \in I : k <= i
      BY <2>1, <2>2
    <2> QED
      BY <1>1, <1>3, <2>3 DEF Chn!Min
  <1> QED
    BY <1>1, <1>3

LEMMA PlaceOfOne ==
  ASSUME NEW s \in Seq(ChainEntries), Once(s), NEW i \in 1..Len(s)
  PROVE  Chn!Place(s, {s[i]}) = i
  <1>1. PICK p : p = Chn!Place(s, {s[i]})
    OBVIOUS
  <1>2. \E j \in 1..Len(s) : s[j] \in {s[i]}
    OBVIOUS
  <1>3. p \in 1..Len(s) /\ s[p] \in {s[i]}
    BY <1>1, <1>2, PlaceIsFirst
  <1>4. p = i
    BY <1>3 DEF Once
  <1> QED
    BY <1>1, <1>4

\* RemoveFirst takes one entry out.
LEMMA RemovingFirst ==
  ASSUME NEW s \in Seq(ChainEntries), Once(s), NEW e, Among(s, e), NEW t, t = Chn!RemoveFirst(s, e)
  PROVE  /\ t \in Seq(ChainEntries) /\ Once(t)
         /\ \A x : Among(t, x) <=> Among(s, x) /\ x # e
         /\ \A x, y : Ahead(t, x, y) <=> Ahead(s, x, y) /\ x # e /\ y # e
  <1>1. \E i \in 1..Len(s) : s[i] = e
    BY DEF Among
  <1> DEFINE p == Chn!SelectInSeq(s, LAMBDA v : v = e)
  <1>2. t = ListLess(s, p)
    BY <1>1 DEF ListLess, Chn!RemoveFirst, Chn!RemoveAt
  <1>3. p \in 1..Len(s) /\ s[p] = e
    <2> DEFINE I == {i \in 1..Len(s) : s[i] = e}
    <2>1. p = IF I # {} THEN Chn!Min(I) ELSE 0
      BY DEF Chn!SelectInSeq
    <2> HIDE DEF p
    <2>2. I # {}
      BY <1>1
    <2> HIDE DEF I
    <2>3. I \in SUBSET Nat
      BY DEF I
    <2>4. \E k \in I : \A i \in I : ~(i < k)
      BY <2>2, <2>3, LeastNatural
    <2>5. \E k \in I : \A i \in I : k <= i
      BY <2>3, <2>4
    <2>6. p \in I
      BY <2>1, <2>2, <2>5 DEF Chn!Min
    <2> QED
      BY <2>6 DEF I
  <1> HIDE DEF p
  <1> QED
    BY <1>2, <1>3, ListWithout

\* The lists of a row, one after the other.
LEMMA FlatList ==
  ASSUME NEW n \in Nat \ {0}, NEW row \in [1..n -> Seq(ChainEntries)],
         \A i \in 1..n : Once(row[i]),
         \A i, j \in 1..n : i # j => \A x : ~(Among(row[i], x) /\ Among(row[j], x)),
         NEW s, s = Chn!FlattenSeq(row)
  PROVE  /\ s \in Seq(ChainEntries) /\ Once(s)
         /\ \A x : Among(s, x) <=> \E i \in 1..n : Among(row[i], x)
  <1> DEFINE Flat(r, t) == /\ t \in Seq(ChainEntries) /\ Once(t)
                           /\ \A x : Among(t, x) <=> \E i \in 1..r : Among(row[i], x)
             T == [r \in 1..n |-> {t \in Seq(ChainEntries) : Flat(r, t)}]
             step == [q \in (2..n) \X Seq(ChainEntries) |-> q[2] \o row[q[1]]]
             IsFlat(f) == f = [i \in 1..n |-> IF i = 1 THEN row[i] ELSE f[i - 1] \o row[i]]
             flat == CHOOSE f : IsFlat(f)
  <1>1. Len(row) = n
    BY LenProperties
  <1>2. s = flat[n]
    BY <1>1 DEF Chn!FlattenSeq
  <1>3. row[1] \in T[1]
    <2>1. Flat(1, row[1])
      OBVIOUS
    <2>2. 1 \in 1..n
      OBVIOUS
    <2> HIDE DEF Flat
    <2> QED
      BY <2>1, <2>2
  <1>4. ASSUME NEW r \in 2..n, NEW t \in T[r - 1] PROVE step[<<r, t>>] \in T[r] /\ step[<<r, t>>] = t \o row[r]
    <2>1. r - 1 \in 1..n /\ r \in 1..n
      OBVIOUS
    <2>2. t \in Seq(ChainEntries) /\ Flat(r - 1, t)
      BY <2>1
    <2>3. PICK u : u = t \o row[r]
      OBVIOUS
    <2>4. row[r] \in Seq(ChainEntries) /\ Once(row[r])
      BY <2>1
    <2>5. \A i \in 1..r - 1 : i \in 1..n /\ i # r
      BY <2>1
    <2>6. \A x : ~(Among(t, x) /\ Among(row[r], x))
      BY <2>1, <2>2, <2>5
    <2>7. /\ u \in Seq(ChainEntries) /\ Once(u)
          /\ \A x : Among(u, x) <=> Among(t, x) \/ Among(row[r], x)
      BY <2>2, <2>3, <2>4, <2>6, TwoLists
    <2>8. \A i : i \in 1..r <=> i \in 1..r - 1 \/ i = r
      BY <2>1
    <2>9. \A x : Among(u, x) <=> \E i \in 1..r : Among(row[i], x)
      BY <2>2, <2>7, <2>8
    <2>10. Flat(r, u)
      BY <2>7, <2>9
    <2>11. step[<<r, t>>] = u
      BY <2>2, <2>3
    <2> HIDE DEF Flat, step
    <2> QED
      BY <2>1, <2>3, <2>7, <2>10, <2>11
  <1>5. \A r \in 1..n : T[r] \subseteq Seq(ChainEntries)
    OBVIOUS
  <1> HIDE DEF T, step
  <1>6. PICK f : /\ f \in [1..n -> Seq(ChainEntries)] /\ f[1] = row[1]
                 /\ \A r \in 2..n : f[r] = step[<<r, f[r - 1]>>]
                 /\ \A r \in 1..n : f[r] \in T[r]
    <2>1. LeadOn(1, n, Seq(ChainEntries), T, row[1], step)
      <3>1. 1 + 1 = 2 /\ 1 \in Nat /\ n \in Nat /\ 1 <= n
        OBVIOUS
      <3>2. \A r \in 1 + 1..n : \A t \in T[r - 1] : step[<<r, t>>] \in T[r]
        BY <1>4, <3>1
      <3> QED
        BY <1>3, <1>5, <3>1, <3>2 DEF LeadOn
    <2>2. PICK f : HasSteps(1, n, Seq(ChainEntries), T, row[1], step, f)
      BY <2>1, StepsLeadOn
    <2>3. 1 + 1 = 2
      OBVIOUS
    <2> QED
      BY <2>2, <2>3 DEF HasSteps
  <1>7. IsFlat(f)
    <2>1. ASSUME NEW r \in 1..n
          PROVE  f[r] = IF r = 1 THEN row[r] ELSE f[r - 1] \o row[r]
      <3>1. CASE r = 1
        BY <1>6, <3>1
      <3>2. CASE r # 1
        <4>1. r \in 2..n /\ r - 1 \in 1..n
          BY <3>2
        <4>2. f[r - 1] \in T[r - 1] /\ f[r] = step[<<r, f[r - 1]>>]
          BY <1>6, <4>1
        <4> QED
          BY <1>4, <3>2, <4>1, <4>2
      <3> QED
        BY <3>1, <3>2
    <2>2. f = [r \in 1..n |-> f[r]]
      BY <1>6
    <2> QED
      BY <2>1, <2>2
  <1>8. IsFlat(flat)
    BY <1>7
  <1>9. flat[1] = row[1] /\ \A r \in 2..n : flat[r] = flat[r - 1] \o row[r]
    <2> HIDE DEF flat
    <2>1. 1 \in 1..n /\ \A r \in 2..n : r \in 1..n /\ r # 1
      OBVIOUS
    <2> QED
      BY <1>8, <2>1
  <1>10. f[1] = row[1] /\ \A r \in 2..n : f[r] = f[r - 1] \o row[r]
    <2>1. 1 \in 1..n /\ \A r \in 2..n : r \in 1..n /\ r # 1
      OBVIOUS
    <2> QED
      BY <1>7, <2>1
  <1> HIDE DEF flat
  <1>11. \A r \in 1..n : f[r] = flat[r]
    <2>1. GoTogether(1, n, f, flat)
      <3>1. 1 + 1 = 2 /\ 1 \in Nat /\ n \in Nat
        OBVIOUS
      <3>2. ASSUME NEW r \in 2..n, f[r - 1] = flat[r - 1] PROVE f[r] = flat[r]
        BY <1>9, <1>10, <3>2
      <3> QED
        BY <1>9, <1>10, <3>1, <3>2 DEF GoTogether
    <2>2. AgreeOn(1, n, f, flat)
      BY <2>1, StepsAgree
    <2> QED
      BY <2>2 DEF AgreeOn
  <1>12. n \in 1..n
    OBVIOUS
  <1>13. s \in T[n]
    BY <1>2, <1>6, <1>11, <1>12
  <1> QED
    BY <1>12, <1>13 DEF T

-----------------------------------------------------------------------------
\* hash_chain.  The constants, and the chain of a key.
LEMMA ChainConstants ==
  /\ Asked \in Nat \ {0} /\ ChainKeys \subseteq Nat /\ ChainEntries \subseteq Nat
  /\ NoEntry \notin ChainEntries /\ Dangling \notin Seq(ChainEntries)
  BY VendoredAssumption DEF Chn!ChainAssumption

LEMMA MaskIsRounded ==
  /\ Chn!Rounded(Asked) \in Nat \ {0}
  /\ Chn!Rounded(Asked) - 1 \in Nat
  <1>1. Chn!Rounded(Asked) = NextPowTwo(Asked)
    BY DEF Chn!Rounded, NextPowTwo, Powers
  <1>2. NextPowTwo(Asked) \in Nat /\ Asked <= NextPowTwo(Asked)
    BY ChainConstants, NextPowTwoIsFound
  <1> QED
    BY <1>1, <1>2, ChainConstants

-----------------------------------------------------------------------------
\* Sorting.  x comes before y in a sorted snapshot.
Comes(x, y) == key[x] < key[y] \/ (key[x] = key[y] /\ Ahead(snap, x, y))

SnapReady == snap \in Seq(ChainEntries) /\ Once(snap) /\ \A x : Among(snap, x) => key[x] \in Nat

\* s is a sorted part of the snapshot.
InOrder(s) ==
    /\ s \in Seq(ChainEntries) /\ Once(s)
    /\ \A x : Among(s, x) => Among(snap, x)
    /\ \A x, y : Ahead(s, x, y) => Comes(x, y)

\* All of s was in front of all of t.
Older(s, t) == \A x, y : Among(s, x) /\ Among(t, y) => Ahead(snap, x, y)

LEMMA AppendedList ==
  ASSUME NEW s \in Seq(ChainEntries), NEW e \in ChainEntries
  PROVE  /\ Append(s, e) \in Seq(ChainEntries) /\ Append(s, e) = s \o <<e>>
         /\ \A x : Among(Append(s, e), x) <=> Among(s, x) \/ x = e
         /\ \A x, y : Ahead(Append(s, e), x, y) <=> Ahead(s, x, y) \/ (Among(s, x) /\ y = e)
         /\ Once(s) /\ ~Among(s, e) => Once(Append(s, e))
  <1> DEFINE t == <<e>>
  <1>1. /\ t \in Seq(ChainEntries) /\ Once(t)
        /\ \A x : Among(t, x) <=> x = e
        /\ \A x, y : ~Ahead(t, x, y)
    BY SingleList
  <1>2. Append(s, e) = s \o t /\ Append(s, e) \in Seq(ChainEntries)
    OBVIOUS
  <1> HIDE DEF t
  <1>3. PICK u : u = s \o t
    OBVIOUS
  <1>4. /\ \A x : Among(u, x) <=> Among(s, x) \/ Among(t, x)
        /\ \A x, y : Ahead(u, x, y) <=> Ahead(s, x, y) \/ Ahead(t, x, y) \/ (Among(s, x) /\ Among(t, y))
        /\ Once(s) /\ Once(t) /\ (\A x : ~(Among(s, x) /\ Among(t, x))) => Once(u)
    BY <1>1, <1>3, TwoLists
  <1>5. Append(s, e) = u
    BY <1>2, <1>3
  <1>6. /\ \A x : Among(u, x) <=> Among(s, x) \/ x = e
        /\ \A x, y : Ahead(u, x, y) <=> Ahead(s, x, y) \/ (Among(s, x) /\ y = e)
        /\ Once(s) /\ ~Among(s, e) => Once(u)
    BY <1>1, <1>4
  <1> QED
    BY <1>2, <1>5, <1>6 DEF t

LEMMA MergedGrows ==
  ASSUME SnapReady, NEW m, InOrder(m), NEW h \in ChainEntries, Among(snap, h),
         \A x : Among(m, x) => Comes(x, h), NEW t, t = Append(m, h)
  PROVE  /\ InOrder(t)
         /\ \A x : Among(t, x) <=> Among(m, x) \/ x = h
  <1>1. m \in Seq(ChainEntries) /\ Once(m)
    BY DEF InOrder
  <1>2. ~Among(m, h)
    <2> SUFFICES ASSUME Among(m, h) PROVE FALSE
      OBVIOUS
    <2>1. Comes(h, h) /\ key[h] \in Nat
      BY DEF SnapReady
    <2>2. ~(key[h] < key[h])
      BY <2>1
    <2>3. Ahead(snap, h, h)
      BY <2>1, <2>2 DEF Comes
    <2> QED
      BY <2>3, AheadIsOrder DEF SnapReady
  <1>3. /\ t \in Seq(ChainEntries)
        /\ \A x : Among(t, x) <=> Among(m, x) \/ x = h
        /\ \A x, y : Ahead(t, x, y) <=> Ahead(m, x, y) \/ (Among(m, x) /\ y = h)
        /\ Once(t)
    BY <1>1, <1>2, AppendedList
  <1>4. \A x : Among(t, x) => Among(snap, x)
    BY <1>3 DEF InOrder
  <1>5. \A x, y : Ahead(t, x, y) => Comes(x, y)
    BY <1>3 DEF InOrder
  <1> QED
    BY <1>3, <1>4, <1>5 DEF InOrder

\* What is not the head of a sorted list has no lesser key.
LEMMA HeadIsLeast ==
  ASSUME SnapReady, NEW s, InOrder(s), s # <<>>
  PROVE  /\ Head(s) \in ChainEntries /\ Among(s, Head(s)) /\ Among(snap, Head(s))
         /\ InOrder(Tail(s)) /\ Len(Tail(s)) = Len(s) - 1 /\ Len(s) \in Nat \ {0}
         /\ \A x : Among(s, x) <=> x = Head(s) \/ Among(Tail(s), x)
         /\ \A x : Among(Tail(s), x) => Comes(Head(s), x)
         /\ \A x : Among(s, x) => key[x] \in Nat /\ key[Head(s)] \in Nat /\ key[Head(s)] <= key[x]
  <1>1. s \in Seq(ChainEntries) /\ Once(s)
    BY DEF InOrder
  <1>2. /\ Head(s) \in ChainEntries
        /\ Tail(s) \in Seq(ChainEntries) /\ Len(Tail(s)) = Len(s) - 1
        /\ \A x : Among(s, x) <=> x = Head(s) \/ Among(Tail(s), x)
        /\ \A x, y : Ahead(s, x, y) <=> Ahead(Tail(s), x, y) \/ (x = Head(s) /\ Among(Tail(s), y))
        /\ Once(Tail(s))
    BY <1>1, HeadAndTail
  <1>3. Len(s) \in Nat \ {0}
    BY <1>1, EmptyIsEmpty
  <1>4. (\A x : Among(s, x) => Among(snap, x)) /\ \A x, y : Ahead(s, x, y) => Comes(x, y)
    BY DEF InOrder
  <1>5. \A x : Among(Tail(s), x) => Comes(Head(s), x)
    BY <1>2, <1>4
  <1>6. InOrder(Tail(s))
    BY <1>2, <1>4 DEF InOrder
  <1>7. \A x : Among(s, x) => key[x] \in Nat
    BY <1>4 DEF SnapReady
  <1>8. ASSUME NEW x, Among(s, x) PROVE key[Head(s)] <= key[x]
    <2>1. key[x] \in Nat /\ key[Head(s)] \in Nat
      BY <1>2, <1>7, <1>8
    <2>2. CASE x = Head(s)
      BY <2>1, <2>2
    <2>3. CASE x # Head(s)
      <3>1. Comes(Head(s), x)
        BY <1>2, <1>5, <1>8, <2>3
      <3> QED
        BY <2>1, <3>1 DEF Comes
    <2> QED
      BY <2>2, <2>3
  <1> QED
    BY <1>2, <1>3, <1>4, <1>5, <1>6, <1>7, <1>8

\* Both heads come before all that is left, whichever is taken.
LEMMA LeftComes ==
  ASSUME SnapReady, NEW a, NEW b, InOrder(a), InOrder(b), Older(a, b), Chn!TakesLeft(a, b)
  PROVE  \A y : Among(Tail(a), y) \/ Among(b, y) => Comes(Head(a), y)
  <1>1. a # <<>> /\ (b = <<>> \/ key[Head(a)] <= key[Head(b)])
    BY DEF Chn!TakesLeft
  <1>2. Among(a, Head(a)) /\ key[Head(a)] \in Nat /\ \A x : Among(Tail(a), x) => Comes(Head(a), x)
    BY <1>1, HeadIsLeast
  <1>3. ASSUME NEW y, Among(b, y) PROVE Comes(Head(a), y)
    <2>1. b # <<>>
      BY <1>3, EmptyList
    <2>2. key[y] \in Nat /\ key[Head(b)] \in Nat /\ key[Head(b)] <= key[y]
      BY <1>3, <2>1, HeadIsLeast
    <2>3. key[Head(a)] <= key[y]
      BY <1>1, <1>2, <2>1, <2>2
    <2>4. Ahead(snap, Head(a), y)
      BY <1>2, <1>3 DEF Older
    <2>5. key[Head(a)] < key[y] \/ key[Head(a)] = key[y]
      BY <1>2, <2>2, <2>3
    <2> QED
      BY <2>4, <2>5 DEF Comes
  <1> QED
    BY <1>2, <1>3

LEMMA RightComes ==
  ASSUME SnapReady, NEW a, NEW b, InOrder(a), InOrder(b), b # <<>>, ~Chn!TakesLeft(a, b)
  PROVE  \A y : Among(Tail(b), y) \/ Among(a, y) => Comes(Head(b), y)
  <1>1. key[Head(b)] \in Nat /\ \A x : Among(Tail(b), x) => Comes(Head(b), x)
    BY HeadIsLeast
  <1>2. ASSUME NEW y, Among(a, y) PROVE Comes(Head(b), y)
    <2>1. a # <<>>
      BY <1>2, EmptyList
    <2>2. key[y] \in Nat /\ key[Head(a)] \in Nat /\ key[Head(a)] <= key[y]
      BY <1>2, <2>1, HeadIsLeast
    <2>3. ~(key[Head(a)] <= key[Head(b)])
      BY <2>1 DEF Chn!TakesLeft
    <2>4. key[Head(b)] < key[y]
      BY <1>1, <2>2, <2>3
    <2> QED
      BY <2>4 DEF Comes
  <1> QED
    BY <1>1, <1>2

-----------------------------------------------------------------------------
\* One round of merge.
OneMerge(s) ==
    IF Chn!TakesLeft(s.left, s.right)
    THEN [s EXCEPT !.left = Tail(s.left), !.merged = Append(s.merged, Head(s.left))]
    ELSE [s EXCEPT !.right = Tail(s.right), !.merged = Append(s.merged, Head(s.right))]

MergeStates == [left : Seq(ChainEntries), right : Seq(ChainEntries), merged : Seq(ChainEntries)]

\* After r rounds.
Merging(a, b, r, s) ==
    /\ s = [left |-> s.left, right |-> s.right, merged |-> s.merged]
    /\ InOrder(s.left) /\ InOrder(s.right) /\ InOrder(s.merged) /\ Older(s.left, s.right)
    /\ Len(s.left) + Len(s.right) + r = Len(a) + Len(b)
    /\ \A x, y : Among(s.merged, x) /\ (Among(s.left, y) \/ Among(s.right, y)) => Comes(x, y)
    /\ \A x : Among(a, x) \/ Among(b, x) <=>
                  Among(s.merged, x) \/ Among(s.left, x) \/ Among(s.right, x)

LEMMA MergingTypes ==
  ASSUME NEW a, NEW b, NEW r, NEW s, Merging(a, b, r, s)
  PROVE  s \in MergeStates
  BY DEF Merging, InOrder, MergeStates

LEMMA RoundMerges ==
  ASSUME SnapReady, NEW a \in Seq(ChainEntries), NEW b \in Seq(ChainEntries),
         NEW r \in 1..Len(a) + Len(b), NEW s, Merging(a, b, r - 1, s), NEW u, u = OneMerge(s)
  PROVE  Merging(a, b, r, u)
  <1>1. PICK le, ri, m : le = s.left /\ ri = s.right /\ m = s.merged
    OBVIOUS
  <1>2. /\ s = [left |-> le, right |-> ri, merged |-> m]
        /\ InOrder(le) /\ InOrder(ri) /\ InOrder(m) /\ Older(le, ri)
        /\ Len(le) + Len(ri) + (r - 1) = Len(a) + Len(b)
        /\ \A x, y : Among(m, x) /\ (Among(le, y) \/ Among(ri, y)) => Comes(x, y)
        /\ \A x : Among(a, x) \/ Among(b, x) <=> Among(m, x) \/ Among(le, x) \/ Among(ri, x)
    BY <1>1 DEF Merging
  <1>3. Len(le) \in Nat /\ Len(ri) \in Nat /\ le \in Seq(ChainEntries) /\ ri \in Seq(ChainEntries)
    BY <1>2 DEF InOrder
  <1>4. PICK n \in Nat : n = Len(a) + Len(b)
    OBVIOUS
  <1>5. CASE Chn!TakesLeft(le, ri)
    <2>1. le # <<>>
      BY <1>5 DEF Chn!TakesLeft
    <2>2. PICK h, t : h = Head(le) /\ t = Tail(le)
      OBVIOUS
    <2>3. PICK q : q = Append(m, h)
      OBVIOUS
    <2>4. u = [left |-> t, right |-> ri, merged |-> q]
      BY <1>1, <1>2, <1>5, <2>2, <2>3 DEF OneMerge
    <2>5. u.left = t /\ u.right = ri /\ u.merged = q
      BY <2>4
    <2>6. /\ h \in ChainEntries /\ Among(le, h) /\ Among(snap, h) /\ InOrder(t) /\ Len(t) = Len(le) - 1
          /\ \A x : Among(le, x) <=> x = h \/ Among(t, x)
      BY <1>2, <2>1, <2>2, HeadIsLeast
    <2>7. \A y : Among(t, y) \/ Among(ri, y) => Comes(h, y)
      BY <1>2, <1>5, <2>2, LeftComes
    <2>8. \A x : Among(m, x) => Comes(x, h)
      BY <1>2, <2>6
    <2>9. InOrder(q) /\ \A x : Among(q, x) <=> Among(m, x) \/ x = h
      BY <1>2, <2>3, <2>6, <2>8, MergedGrows
    <2>10. Older(t, ri)
      BY <1>2, <2>6 DEF Older
    <2>11. \A x, y : Among(q, x) /\ (Among(t, y) \/ Among(ri, y)) => Comes(x, y)
      BY <1>2, <2>6, <2>7, <2>9
    <2>12. \A x : Among(a, x) \/ Among(b, x) <=> Among(q, x) \/ Among(t, x) \/ Among(ri, x)
      BY <1>2, <2>6, <2>9
    <2>13. Len(t) + Len(ri) + r = Len(a) + Len(b)
      BY <1>2, <1>3, <1>4, <2>6
    <2> QED
      BY <1>2, <2>4, <2>5, <2>6, <2>9, <2>10, <2>11, <2>12, <2>13 DEF Merging
  <1>6. CASE ~Chn!TakesLeft(le, ri)
    <2>1. ri # <<>>
      <3> SUFFICES ASSUME ri = <<>> PROVE FALSE
        OBVIOUS
      <3>1. le = <<>>
        BY <1>6 DEF Chn!TakesLeft
      <3>2. Len(le) = 0 /\ Len(ri) = 0
        BY <3>1
      <3> QED
        BY <1>2, <1>4, <3>2
    <2>2. PICK h, t : h = Head(ri) /\ t = Tail(ri)
      OBVIOUS
    <2>3. PICK q : q = Append(m, h)
      OBVIOUS
    <2>4. u = [left |-> le, right |-> t, merged |-> q]
      BY <1>1, <1>2, <1>6, <2>2, <2>3 DEF OneMerge
    <2>5. u.left = le /\ u.right = t /\ u.merged = q
      BY <2>4
    <2>6. /\ h \in ChainEntries /\ Among(ri, h) /\ Among(snap, h) /\ InOrder(t) /\ Len(t) = Len(ri) - 1
          /\ \A x : Among(ri, x) <=> x = h \/ Among(t, x)
      BY <1>2, <2>1, <2>2, HeadIsLeast
    <2>7. \A y : Among(t, y) \/ Among(le, y) => Comes(h, y)
      BY <1>2, <1>6, <2>1, <2>2, RightComes
    <2>8. \A x : Among(m, x) => Comes(x, h)
      BY <1>2, <2>6
    <2>9. InOrder(q) /\ \A x : Among(q, x) <=> Among(m, x) \/ x = h
      BY <1>2, <2>3, <2>6, <2>8, MergedGrows
    <2>10. Older(le, t)
      BY <1>2, <2>6 DEF Older
    <2>11. \A x, y : Among(q, x) /\ (Among(le, y) \/ Among(t, y)) => Comes(x, y)
      BY <1>2, <2>6, <2>7, <2>9
    <2>12. \A x : Among(a, x) \/ Among(b, x) <=> Among(q, x) \/ Among(le, x) \/ Among(t, x)
      BY <1>2, <2>6, <2>9
    <2>13. Len(le) + Len(t) + r = Len(a) + Len(b)
      BY <1>2, <1>3, <1>4, <2>6
    <2> QED
      BY <1>2, <2>4, <2>5, <2>6, <2>9, <2>10, <2>11, <2>12, <2>13 DEF Merging
  <1> QED
    BY <1>5, <1>6

\* merge: of two sorted parts, the older one on the left.
LEMMA MergeIs ==
  ASSUME SnapReady, NEW a, NEW b, InOrder(a), InOrder(b), Older(a, b), NEW m, m = Chn!Merge(a, b)
  PROVE  /\ InOrder(m)
         /\ \A x : Among(m, x) <=> Among(a, x) \/ Among(b, x)
  <1> DEFINE n == Len(a) + Len(b)
             s0 == [left |-> a, right |-> b, merged |-> <<>>]
             T == [r \in 0..n |-> {s \in MergeStates : Merging(a, b, r, s)}]
             step == [q \in (1..n) \X MergeStates |-> OneMerge(q[2])]
             IsRound(f) == f = [r \in 0..n |-> IF r = 0 THEN s0 ELSE OneMerge(f[r - 1])]
             round == CHOOSE f : IsRound(f)
  <1>1. a \in Seq(ChainEntries) /\ b \in Seq(ChainEntries) /\ n \in Nat
    BY DEF InOrder
  <1>2. m = round[n].merged
    BY DEF Chn!Merge, OneMerge
  <1>3. s0 \in T[0]
    <2>1. PICK s : s = s0
      OBVIOUS
    <2>2. s.left = a /\ s.right = b /\ s.merged = <<>>
      BY <2>1
    <2>3. InOrder(<<>>) /\ \A x : ~Among(<<>>, x)
      BY EmptyList DEF InOrder
    <2>4. n + 0 = n
      BY <1>1
    <2>5. Merging(a, b, 0, s)
      BY <2>1, <2>2, <2>3, <2>4 DEF Merging
    <2>6. s \in MergeStates
      BY <2>5, MergingTypes
    <2>7. 0 \in 0..n
      BY <1>1
    <2> HIDE DEF s0, n
    <2> QED
      BY <2>1, <2>5, <2>6, <2>7
  <1> HIDE DEF s0
  <1>4. ASSUME NEW r \in 1..n, NEW s \in T[r - 1] PROVE step[<<r, s>>] \in T[r] /\ step[<<r, s>>] = OneMerge(s)
    <2>1. r - 1 \in 0..n /\ r \in 0..n
      BY <1>1
    <2>2. s \in MergeStates /\ Merging(a, b, r - 1, s)
      BY <2>1
    <2>3. PICK u : u = OneMerge(s)
      OBVIOUS
    <2>4. Merging(a, b, r, u)
      BY <1>1, <2>2, <2>3, RoundMerges
    <2>5. u \in MergeStates
      BY <2>4, MergingTypes
    <2>6. step[<<r, s>>] = u
      BY <2>2, <2>3
    <2> HIDE DEF step, n
    <2> QED
      BY <2>1, <2>3, <2>4, <2>5, <2>6
  <1>5. \A r \in 0..n : T[r] \subseteq MergeStates
    OBVIOUS
  <1> HIDE DEF T, step
  <1>6. PICK f : /\ f \in [0..n -> MergeStates] /\ f[0] = s0
                 /\ \A r \in 1..n : f[r] = step[<<r, f[r - 1]>>]
                 /\ \A r \in 0..n : f[r] \in T[r]
    <2>1. LeadOn(0, n, MergeStates, T, s0, step)
      <3>1. 0 + 1 = 1 /\ 0 \in Nat /\ n \in Nat /\ 0 <= n
        BY <1>1
      <3>2. \A r \in 0 + 1..n : \A t \in T[r - 1] : step[<<r, t>>] \in T[r]
        BY <1>4, <3>1
      <3> QED
        BY <1>3, <1>5, <3>1, <3>2 DEF LeadOn
    <2>2. PICK f : HasSteps(0, n, MergeStates, T, s0, step, f)
      BY <2>1, StepsLeadOn
    <2>3. 0 + 1 = 1
      OBVIOUS
    <2> QED
      BY <2>2, <2>3 DEF HasSteps
  <1>7. f[0] = s0 /\ \A r \in 1..n : f[r] = OneMerge(f[r - 1])
    <2> SUFFICES ASSUME NEW r \in 1..n PROVE f[r] = OneMerge(f[r - 1])
      BY <1>6
    <2>1. r - 1 \in 0..n
      BY <1>1
    <2> QED
      BY <1>4, <1>6, <2>1
  <1>8. IsRound(f)
    <2>1. ASSUME NEW r \in 0..n
          PROVE  f[r] = IF r = 0 THEN s0 ELSE OneMerge(f[r - 1])
      <3>1. r # 0 => r \in 1..n
        BY <1>1
      <3> QED
        BY <1>7, <3>1
    <2>2. f = [r \in 0..n |-> f[r]]
      BY <1>6
    <2> QED
      BY <2>1, <2>2
  <1>9. IsRound(round)
    BY <1>8
  <1>10. round[0] = s0 /\ \A r \in 1..n : round[r] = OneMerge(round[r - 1])
    <2> HIDE DEF round
    <2>1. 0 \in 0..n /\ \A r \in 1..n : r \in 0..n /\ r # 0
      BY <1>1
    <2> QED
      BY <1>9, <2>1
  <1> HIDE DEF round, IsRound
  <1>11. \A r \in 0..n : f[r] = round[r]
    <2>1. GoTogether(0, n, f, round)
      <3>1. 0 + 1 = 1 /\ 0 \in Nat /\ n \in Nat
        BY <1>1
      <3>2. ASSUME NEW r \in 1..n, f[r - 1] = round[r - 1] PROVE f[r] = round[r]
        BY <1>7, <1>10, <3>2
      <3> QED
        BY <1>7, <1>10, <3>1, <3>2 DEF GoTogether
    <2>2. AgreeOn(0, n, f, round)
      BY <2>1, StepsAgree
    <2> QED
      BY <2>2 DEF AgreeOn
  <1>12. n \in 0..n
    BY <1>1
  <1>13. PICK s : s = f[n]
    OBVIOUS
  <1>14. s \in T[n] /\ m = s.merged
    BY <1>2, <1>6, <1>11, <1>12, <1>13
  <1>15. Merging(a, b, n, s)
    BY <1>12, <1>14 DEF T
  <1>16. InOrder(s.left) /\ InOrder(s.right) /\ Len(s.left) + Len(s.right) + n = n
    BY <1>15 DEF Merging
  <1>17. s.left = <<>> /\ s.right = <<>>
    <2>1. s.left \in Seq(ChainEntries) /\ s.right \in Seq(ChainEntries)
      BY <1>16 DEF InOrder
    <2>2. Len(s.left) \in Nat /\ Len(s.right) \in Nat
      BY <2>1
    <2>3. PICK i \in Nat, j \in Nat, k \in Nat : i = Len(s.left) /\ j = Len(s.right) /\ k = n
      BY <1>1, <2>2
    <2>4. i + j + k = k
      BY <1>16, <2>3
    <2>5. i = 0 /\ j = 0
      <3>1. \A x, y, z \in Nat : x + y + z = z => x = 0 /\ y = 0
        OBVIOUS
      <3> QED
        BY <2>4, <3>1
    <2>6. Len(s.left) = 0 /\ Len(s.right) = 0
      BY <2>3, <2>5
    <2> QED
      BY <2>1, <2>6, EmptyIsEmpty
  <1> QED
    BY <1>14, <1>15, <1>17, EmptyList DEF Merging
-----------------------------------------------------------------------------
\* The parts after n entries of the snapshot.
PartsReady(part, n) ==
    /\ part \in [0..Len(snap) -> Seq(ChainEntries)]
    /\ \A l \in 0..Len(snap) : InOrder(part[l]) /\ (l >= n => part[l] = <<>>)
    /\ \A l, k \in 0..Len(snap) : k < l => Older(part[l], part[k])
    /\ \A x : (\E l \in 0..Len(snap) : Among(part[l], x)) <=> (\E i \in 1..n : snap[i] = x)

\* The list with the l lower parts merged in, when entry n is carried.
CarriedTo(part, n, l, s) ==
    /\ InOrder(s)
    /\ \A x : Among(s, x) <=> x = snap[n] \/ \E k \in 0..l - 1 : Among(part[k], x)

LEMMA CarriedOn ==
  ASSUME SnapReady, NEW part, NEW n \in 1..Len(snap), PartsReady(part, n - 1),
         NEW l \in 1..Len(snap), NEW s, CarriedTo(part, n, l - 1, s), NEW t, t = Chn!Merge(part[l - 1], s)
  PROVE  CarriedTo(part, n, l, t)
  <1>1. Len(snap) \in Nat /\ l - 1 \in 0..Len(snap)
    BY DEF SnapReady
  <1>2. PICK p : p = part[l - 1]
    OBVIOUS
  <1>3. InOrder(p)
    BY <1>1, <1>2 DEF PartsReady
  <1>4. InOrder(s) /\ \A x : Among(s, x) <=> x = snap[n] \/ \E k \in 0..l - 1 - 1 : Among(part[k], x)
    BY DEF CarriedTo
  <1>5. Older(p, s)
    <2> SUFFICES ASSUME NEW x, NEW y, Among(p, x), Among(s, y) PROVE Ahead(snap, x, y)
      BY DEF Older
    <2>1. CASE y = snap[n]
      <3>1. PICK i \in 1..n - 1 : snap[i] = x
        BY <1>1, <1>2 DEF PartsReady
      <3>2. i \in 1..Len(snap) /\ i < n
        BY <1>1
      <3> QED
        BY <2>1, <3>1, <3>2 DEF Ahead
    <2>2. CASE \E k \in 0..l - 1 - 1 : Among(part[k], y)
      <3>1. PICK k \in 0..l - 1 - 1 : Among(part[k], y)
        BY <2>2
      <3>2. k \in 0..Len(snap) /\ k < l - 1
        BY <1>1
      <3>3. Older(p, part[k])
        BY <1>1, <1>2, <3>2 DEF PartsReady
      <3> QED
        BY <3>1, <3>3 DEF Older
    <2> QED
      BY <1>4, <2>1, <2>2
  <1>6. InOrder(t) /\ \A x : Among(t, x) <=> Among(p, x) \/ Among(s, x)
    BY <1>2, <1>3, <1>4, <1>5, MergeIs
  <1>7. \A k : k \in 0..l - 1 <=> k \in 0..l - 1 - 1 \/ k = l - 1
    BY <1>1
  <1>8. \A x : (\E k \in 0..l - 1 : Among(part[k], x)) <=> Among(p, x) \/ \E k \in 0..l - 1 - 1 : Among(part[k], x)
    BY <1>2, <1>7
  <1>9. \A x : Among(t, x) <=> x = snap[n] \/ \E k \in 0..l - 1 : Among(part[k], x)
    BY <1>4, <1>6, <1>8
  <1> QED
    BY <1>6, <1>9 DEF CarriedTo

LEMMA OneIsCarried ==
  ASSUME SnapReady, NEW n \in 1..Len(snap), NEW part
  PROVE  CarriedTo(part, n, 0, <<snap[n]>>)
  <1>1. snap[n] \in ChainEntries /\ Among(snap, snap[n])
    BY DEF SnapReady, Among
  <1>2. InOrder(<<snap[n]>>) /\ \A x : Among(<<snap[n]>>, x) <=> x = snap[n]
    BY <1>1, SingleList DEF InOrder
  <1>3. \A k : k \notin 0..0 - 1
    OBVIOUS
  <1> QED
    BY <1>2, <1>3 DEF CarriedTo

\* The parts, with list in the free one.
PartsWith(part, free, list) ==
    [l \in 0..Len(snap) |-> IF l < free THEN <<>> ELSE IF l = free THEN list ELSE part[l]]

LEMMA PartsStayReady ==
  ASSUME SnapReady, NEW part, NEW n \in 1..Len(snap), PartsReady(part, n - 1),
         NEW free \in 0..n - 1, part[free] = <<>>,
         NEW list, CarriedTo(part, n, free, list), NEW q, q = PartsWith(part, free, list)
  PROVE  PartsReady(q, n)
  <1>1. PICK m \in Nat : m = Len(snap)
    BY DEF SnapReady
  <1>2. /\ part \in [0..m -> Seq(ChainEntries)]
        /\ \A l \in 0..m : InOrder(part[l]) /\ (l >= n - 1 => part[l] = <<>>)
        /\ \A l, k \in 0..m : k < l => Older(part[l], part[k])
        /\ \A x : (\E l \in 0..m : Among(part[l], x)) <=> (\E i \in 1..n - 1 : snap[i] = x)
    BY <1>1 DEF PartsReady
  <1>3. InOrder(list) /\ \A x : Among(list, x) <=> x = snap[n] \/ \E k \in 0..free - 1 : Among(part[k], x)
    BY DEF CarriedTo
  <1>4. /\ \A l \in 0..m : l < free => q[l] = <<>>
        /\ \A l \in 0..m : free < l => q[l] = part[l]
        /\ free \in 0..m /\ q[free] = list
    BY <1>1 DEF PartsWith
  <1>5. list \in Seq(ChainEntries)
    BY <1>3 DEF InOrder
  <1>6. q \in [0..m -> Seq(ChainEntries)]
    BY <1>1, <1>2, <1>5, EmptyList DEF PartsWith
  <1>7. InOrder(<<>>) /\ \A x : ~Among(<<>>, x)
    BY EmptyList DEF InOrder
  <1>8. \A l \in 0..m : l < free \/ l = free \/ free < l
    BY <1>1
  <1>9. \A l \in 0..m : InOrder(q[l])
    BY <1>2, <1>3, <1>4, <1>7, <1>8
  <1>10. ASSUME NEW l \in 0..m, l >= n PROVE q[l] = <<>>
    <2>1. free < l /\ l >= n - 1
      BY <1>1, <1>10
    <2> QED
      BY <1>2, <1>4, <2>1
  <1>11. ASSUME NEW l \in 0..m, NEW k \in 0..m, k < l PROVE Older(q[l], q[k])
    <2>1. CASE l < free \/ k < free
      BY <1>4, <1>7, <2>1 DEF Older
    <2>2. CASE k = free
      <3>1. free < l /\ q[l] = part[l] /\ q[k] = list
        BY <1>4, <1>11, <2>2
      <3> SUFFICES ASSUME NEW x, NEW y, Among(part[l], x), Among(list, y) PROVE Ahead(snap, x, y)
        BY <3>1 DEF Older
      <3>2. CASE y = snap[n]
        <4>1. PICK i \in 1..n - 1 : snap[i] = x
          BY <1>2
        <4>2. i \in 1..Len(snap) /\ i < n
          BY <1>1
        <4> QED
          BY <3>2, <4>1, <4>2 DEF Ahead
      <3>3. CASE \E j \in 0..free - 1 : Among(part[j], y)
        <4>1. PICK j \in 0..free - 1 : Among(part[j], y)
          BY <3>3
        <4>2. j \in 0..m /\ j < l
          BY <1>1, <3>1
        <4>3. Older(part[l], part[j])
          BY <1>2, <4>2
        <4> QED
          BY <4>1, <4>3 DEF Older
      <3> QED
        BY <1>3, <3>2, <3>3
    <2>3. CASE free < k /\ free < l
      BY <1>2, <1>4, <1>11, <2>3
    <2> QED
      BY <1>1, <1>11, <2>1, <2>2, <2>3
  <1>12. \A i : i \in 1..n <=> i \in 1..n - 1 \/ i = n
    BY <1>1
  <1>13. ASSUME NEW x PROVE (\E l \in 0..m : Among(q[l], x)) <=> (\E i \in 1..n : snap[i] = x)
    <2>1. ASSUME NEW l \in 0..m, Among(q[l], x) PROVE \E i \in 1..n : snap[i] = x
      <3>1. CASE l = free
        <4>1. x = snap[n] \/ \E k \in 0..free - 1 : Among(part[k], x)
          BY <1>3, <1>4, <2>1, <3>1
        <4>2. \A k \in 0..free - 1 : k \in 0..m
          BY <1>1
        <4> QED
          BY <1>2, <1>12, <4>1, <4>2
      <3>2. CASE free < l
        BY <1>2, <1>4, <1>12, <2>1, <3>2
      <3>3. CASE l < free
        BY <1>4, <1>7, <2>1, <3>3
      <3> QED
        BY <1>8, <3>1, <3>2, <3>3
    <2>2. ASSUME NEW i \in 1..n, snap[i] = x PROVE \E l \in 0..m : Among(q[l], x)
      <3>1. CASE i = n
        BY <1>3, <1>4, <2>2, <3>1
      <3>2. CASE i \in 1..n - 1
        <4>1. PICK l \in 0..m : Among(part[l], x)
          BY <1>2, <2>2, <3>2
        <4>2. CASE l < free
          <5>1. l \in 0..free - 1
            BY <1>1, <4>2
          <5> QED
            BY <1>3, <1>4, <4>1, <5>1
        <4>3. CASE l = free
          BY <1>7, <4>1, <4>3
        <4>4. CASE free < l
          BY <1>4, <4>1, <4>4
        <4> QED
          BY <1>8, <4>2, <4>3, <4>4
      <3> QED
        BY <1>12, <3>1, <3>2
    <2> QED
      BY <2>1, <2>2
  <1> QED
    BY <1>1, <1>6, <1>9, <1>10, <1>11, <1>13 DEF PartsReady

LEMMA CarryIs ==
  ASSUME SnapReady, NEW part, NEW n \in 1..Len(snap), PartsReady(part, n - 1),
         NEW q, q = Chn!Carry(part, <<snap[n]>>)
  PROVE  PartsReady(q, n)
  <1> DEFINE list == <<snap[n]>>
             IsFree(l) == part[l] = <<>> /\ \A m \in 0..l - 1 : part[m] # <<>>
             free == CHOOSE l \in DOMAIN part : IsFree(l)
             T == [l \in 0..free |-> {s \in Seq(ChainEntries) : CarriedTo(part, n, l, s)}]
             step == [u \in (1..free) \X Seq(ChainEntries) |-> Chn!Merge(part[u[1] - 1], u[2])]
             IsMerged(f) == f = [l \in 0..free |-> IF l = 0 THEN list ELSE Chn!Merge(part[l - 1], f[l - 1])]
             merged == CHOOSE f : IsMerged(f)
  <1>1. PICK m \in Nat : m = Len(snap)
    BY DEF SnapReady
  <1>2. /\ part \in [0..m -> Seq(ChainEntries)] /\ DOMAIN part = 0..m
        /\ \A l \in 0..m : l >= n - 1 => part[l] = <<>>
    BY <1>1 DEF PartsReady
  <1>3. q = [l \in DOMAIN part |-> IF l < free THEN <<>> ELSE IF l = free THEN merged[free] ELSE part[l]]
    BY DEF Chn!Carry
  <1>4. \E l \in DOMAIN part : IsFree(l) /\ l \in 0..n - 1
    <2> DEFINE S == {l \in Nat : l <= m /\ part[l] = <<>>}
    <2>1. n - 1 \in S
      <3>1. n - 1 \in 0..m /\ n - 1 \in Nat /\ n - 1 <= m /\ n - 1 >= n - 1
        BY <1>1
      <3> QED
        BY <1>2, <3>1
    <2>2. PICK l \in S : \A k \in S : l <= k
      <3>1. S \subseteq Nat /\ S # {}
        BY <2>1
      <3> HIDE DEF S
      <3> QED
        BY <3>1, LeastNatural
    <2>3. l \in 0..m /\ l \in 0..n - 1 /\ part[l] = <<>>
      BY <1>1, <2>1, <2>2
    <2>4. ASSUME NEW k \in 0..l - 1 PROVE part[k] # <<>>
      <3>1. k \in Nat /\ k <= m /\ ~(l <= k)
        BY <1>1, <2>3
      <3> QED
        BY <2>2, <3>1
    <2> QED
      BY <1>2, <2>3, <2>4
  <1>5. free \in 0..m /\ IsFree(free)
    BY <1>2, <1>4
  <1>6. free \in 0..n - 1
    <2>1. PICK l \in 0..n - 1 : IsFree(l)
      BY <1>4
    <2> HIDE DEF free
    <2>2. ~(l < free)
      <3> SUFFICES ASSUME l < free PROVE FALSE
        OBVIOUS
      <3>1. l \in 0..free - 1
        BY <1>1, <1>5
      <3> QED
        BY <1>5, <2>1, <3>1
    <2> QED
      BY <1>1, <1>5, <2>1, <2>2
  <1> HIDE DEF free
  <1>7. free \in Nat /\ \A l \in 1..free : l \in 1..Len(snap) /\ l - 1 \in 0..free
    BY <1>1, <1>6
  <1>8. list \in T[0]
    <2>1. PICK s : s = list
      OBVIOUS
    <2>2. CarriedTo(part, n, 0, s)
      BY <2>1, OneIsCarried
    <2>3. s \in Seq(ChainEntries)
      BY <2>2 DEF CarriedTo, InOrder
    <2>4. 0 \in 0..free
      BY <1>7
    <2> HIDE DEF list
    <2> QED
      BY <2>1, <2>2, <2>3, <2>4
  <1> HIDE DEF list
  <1>9. ASSUME NEW l \in 1..free, NEW s \in T[l - 1]
        PROVE  step[<<l, s>>] \in T[l] /\ step[<<l, s>>] = Chn!Merge(part[l - 1], s)
    <2>1. l - 1 \in 0..free /\ l \in 0..free /\ l \in 1..Len(snap)
      BY <1>7
    <2>2. s \in Seq(ChainEntries) /\ CarriedTo(part, n, l - 1, s)
      BY <2>1
    <2>3. PICK u : u = Chn!Merge(part[l - 1], s)
      OBVIOUS
    <2>4. CarriedTo(part, n, l, u)
      BY <2>1, <2>2, <2>3, CarriedOn
    <2>5. u \in Seq(ChainEntries)
      BY <2>4 DEF CarriedTo, InOrder
    <2>6. step[<<l, s>>] = u
      BY <2>2, <2>3
    <2> HIDE DEF step
    <2> QED
      BY <2>1, <2>3, <2>4, <2>5, <2>6
  <1>10. \A l \in 0..free : T[l] \subseteq Seq(ChainEntries)
    OBVIOUS
  <1> HIDE DEF T, step
  <1>11. PICK f : /\ f \in [0..free -> Seq(ChainEntries)] /\ f[0] = list
                  /\ \A l \in 1..free : f[l] = step[<<l, f[l - 1]>>]
                  /\ \A l \in 0..free : f[l] \in T[l]
    <2>1. LeadOn(0, free, Seq(ChainEntries), T, list, step)
      <3>1. 0 + 1 = 1 /\ 0 \in Nat /\ free \in Nat /\ 0 <= free
        BY <1>7
      <3>2. \A l \in 0 + 1..free : \A t \in T[l - 1] : step[<<l, t>>] \in T[l]
        BY <1>9, <3>1
      <3> QED
        BY <1>8, <1>10, <3>1, <3>2 DEF LeadOn
    <2>2. PICK f : HasSteps(0, free, Seq(ChainEntries), T, list, step, f)
      BY <2>1, StepsLeadOn
    <2>3. 0 + 1 = 1
      OBVIOUS
    <2> QED
      BY <2>2, <2>3 DEF HasSteps
  <1>12. f[0] = list /\ \A l \in 1..free : f[l] = Chn!Merge(part[l - 1], f[l - 1])
    BY <1>7, <1>9, <1>11
  <1>13. IsMerged(f)
    <2>1. ASSUME NEW l \in 0..free
          PROVE  f[l] = IF l = 0 THEN list ELSE Chn!Merge(part[l - 1], f[l - 1])
      <3>1. l # 0 => l \in 1..free
        BY <1>7
      <3> QED
        BY <1>12, <3>1
    <2>2. f = [l \in 0..free |-> f[l]]
      BY <1>11
    <2> QED
      BY <2>1, <2>2
  <1>14. IsMerged(merged)
    BY <1>13
  <1>15. merged[0] = list /\ \A l \in 1..free : merged[l] = Chn!Merge(part[l - 1], merged[l - 1])
    <2> HIDE DEF merged
    <2>1. 0 \in 0..free /\ \A l \in 1..free : l \in 0..free /\ l # 0
      BY <1>7
    <2> QED
      BY <1>14, <2>1
  <1> HIDE DEF merged, IsMerged
  <1>16. \A l \in 0..free : f[l] = merged[l]
    <2>1. GoTogether(0, free, f, merged)
      <3>1. 0 + 1 = 1 /\ 0 \in Nat /\ free \in Nat
        BY <1>7
      <3>2. ASSUME NEW l \in 1..free, f[l - 1] = merged[l - 1] PROVE f[l] = merged[l]
        BY <1>12, <1>15, <3>2
      <3> QED
        BY <1>12, <1>15, <3>1, <3>2 DEF GoTogether
    <2>2. AgreeOn(0, free, f, merged)
      BY <2>1, StepsAgree
    <2> QED
      BY <2>2 DEF AgreeOn
  <1>17. PICK t : t = merged[free]
    OBVIOUS
  <1>18. CarriedTo(part, n, free, t)
    <2>1. free \in 0..free
      BY <1>7
    <2>2. t \in T[free]
      BY <1>11, <1>16, <1>17, <2>1
    <2> QED
      BY <2>1, <2>2 DEF T
  <1>19. q = PartsWith(part, free, t)
    BY <1>1, <1>2, <1>3, <1>17 DEF PartsWith
  <1>20. part[free] = <<>>
    BY <1>5
  <1> QED
    BY <1>6, <1>18, <1>19, <1>20, PartsStayReady

-----------------------------------------------------------------------------
\* The parts up to level l, one after the other.
ListedTo(part, l, s) ==
    /\ InOrder(s)
    /\ \A x : Among(s, x) <=> \E k \in 0..l : Among(part[k], x)

LEMMA ListedOn ==
  ASSUME SnapReady, NEW part, PartsReady(part, Len(snap)),
         NEW l \in 1..Len(snap), NEW s, ListedTo(part, l - 1, s), NEW t, t = Chn!Merge(part[l], s)
  PROVE  ListedTo(part, l, t)
  <1>1. Len(snap) \in Nat /\ l \in 0..Len(snap)
    BY DEF SnapReady
  <1>2. PICK p : p = part[l]
    OBVIOUS
  <1>3. InOrder(p)
    BY <1>1, <1>2 DEF PartsReady
  <1>4. InOrder(s) /\ \A x : Among(s, x) <=> \E k \in 0..l - 1 : Among(part[k], x)
    BY DEF ListedTo
  <1>5. Older(p, s)
    <2> SUFFICES ASSUME NEW x, NEW y, Among(p, x), Among(s, y) PROVE Ahead(snap, x, y)
      BY DEF Older
    <2>1. PICK k \in 0..l - 1 : Among(part[k], y)
      BY <1>4
    <2>2. k \in 0..Len(snap) /\ k < l
      BY <1>1
    <2>3. Older(p, part[k])
      BY <1>1, <1>2, <2>2 DEF PartsReady
    <2> QED
      BY <2>1, <2>3 DEF Older
  <1>6. InOrder(t) /\ \A x : Among(t, x) <=> Among(p, x) \/ Among(s, x)
    BY <1>2, <1>3, <1>4, <1>5, MergeIs
  <1>7. \A k : k \in 0..l <=> k \in 0..l - 1 \/ k = l
    BY <1>1
  <1>8. \A x : (\E k \in 0..l : Among(part[k], x)) <=> Among(p, x) \/ \E k \in 0..l - 1 : Among(part[k], x)
    BY <1>2, <1>7
  <1>9. \A x : Among(t, x) <=> \E k \in 0..l : Among(part[k], x)
    BY <1>4, <1>6, <1>8
  <1> QED
    BY <1>6, <1>9 DEF ListedTo

LEMMA FirstIsListed ==
  ASSUME SnapReady, NEW part, PartsReady(part, Len(snap)), NEW t, t = Chn!Merge(part[0], <<>>)
  PROVE  ListedTo(part, 0, t)
  <1>1. 0 \in 0..Len(snap)
    BY DEF SnapReady
  <1>2. PICK p : p = part[0]
    OBVIOUS
  <1>3. InOrder(p)
    BY <1>1, <1>2 DEF PartsReady
  <1>4. PICK s : s = <<>>
    OBVIOUS
  <1>5. InOrder(s) /\ Older(p, s) /\ \A x : ~Among(s, x)
    BY <1>4, EmptyList DEF InOrder, Older
  <1>6. InOrder(t) /\ \A x : Among(t, x) <=> Among(p, x) \/ Among(s, x)
    BY <1>2, <1>3, <1>4, <1>5, MergeIs
  <1>7. \A k : k \in 0..0 <=> k = 0
    OBVIOUS
  <1> QED
    BY <1>2, <1>5, <1>6, <1>7 DEF ListedTo

LEMMA NoPartsReady ==
  ASSUME SnapReady, NEW part, part = [l \in 0..Len(snap) |-> <<>>]
  PROVE  PartsReady(part, 0)
  <1>1. part \in [0..Len(snap) -> Seq(ChainEntries)] /\ \A l \in 0..Len(snap) : part[l] = <<>>
    OBVIOUS
  <1>2. InOrder(<<>>) /\ \A x : ~Among(<<>>, x)
    BY EmptyList DEF InOrder
  <1>3. \A i : i \notin 1..0
    OBVIOUS
  <1> QED
    BY <1>1, <1>2, <1>3 DEF PartsReady, Older

\* sort: the same entries, sorted and in the order they had.
LEMMA SortIs ==
  ASSUME SnapReady, Chn!Sort, NEW t, t = snap'
  PROVE  /\ InOrder(t)
         /\ \A x : Among(t, x) <=> Among(snap, x)
  <1> DEFINE N == Len(snap)
             p0 == [l \in 0..N |-> <<>>]
             Rows == [0..N -> Seq(ChainEntries)]
             TP == [n \in 0..N |-> {p \in Rows : PartsReady(p, n)}]
             stepP == [u \in (1..N) \X Rows |-> Chn!Carry(u[2], <<snap[u[1]]>>)]
             IsPart(f) == f = [n \in 0..N |-> IF n = 0 THEN p0 ELSE Chn!Carry(f[n - 1], <<snap[n]>>)]
             part == CHOOSE f : IsPart(f)
             last == part[N]
             IsListed(f) == f = [l \in 0..N |-> Chn!Merge(last[l], IF l = 0 THEN <<>> ELSE f[l - 1])]
             list == CHOOSE f : IsListed(f)
  <1>1. N \in Nat
    BY DEF SnapReady
  <1>2. t = list[N]
    BY DEF Chn!Sort
  <1>3. p0 \in TP[0]
    <2>1. PartsReady(p0, 0)
      BY NoPartsReady
    <2>2. p0 \in Rows /\ 0 \in 0..N
      BY <1>1, EmptyList
    <2> HIDE DEF p0, N, Rows
    <2> QED
      BY <2>1, <2>2
  <1> HIDE DEF p0
  <1>4. ASSUME NEW n \in 1..N, NEW p \in TP[n - 1]
        PROVE  stepP[<<n, p>>] \in TP[n] /\ stepP[<<n, p>>] = Chn!Carry(p, <<snap[n]>>)
    <2>1. n - 1 \in 0..N /\ n \in 0..N
      BY <1>1
    <2>2. p \in Rows /\ PartsReady(p, n - 1)
      BY <2>1
    <2>3. PICK u : u = Chn!Carry(p, <<snap[n]>>)
      OBVIOUS
    <2>4. PartsReady(u, n)
      BY <2>2, <2>3, CarryIs
    <2>5. u \in Rows
      BY <2>4 DEF PartsReady
    <2>6. stepP[<<n, p>>] = u
      BY <2>2, <2>3
    <2> HIDE DEF stepP, Rows, N
    <2> QED
      BY <2>1, <2>3, <2>4, <2>5, <2>6
  <1>5. \A n \in 0..N : TP[n] \subseteq Rows
    OBVIOUS
  <1> HIDE DEF TP, stepP, Rows
  <1>6. PICK f : /\ f \in [0..N -> Rows] /\ f[0] = p0
                 /\ \A n \in 1..N : f[n] = stepP[<<n, f[n - 1]>>]
                 /\ \A n \in 0..N : f[n] \in TP[n]
    <2>1. LeadOn(0, N, Rows, TP, p0, stepP)
      <3>1. 0 + 1 = 1 /\ 0 \in Nat /\ N \in Nat /\ 0 <= N
        BY <1>1
      <3>2. \A n \in 0 + 1..N : \A p \in TP[n - 1] : stepP[<<n, p>>] \in TP[n]
        BY <1>4, <3>1
      <3> QED
        BY <1>3, <1>5, <3>1, <3>2 DEF LeadOn
    <2>2. PICK f : HasSteps(0, N, Rows, TP, p0, stepP, f)
      BY <2>1, StepsLeadOn
    <2>3. 0 + 1 = 1
      OBVIOUS
    <2> QED
      BY <2>2, <2>3 DEF HasSteps
  <1>7. f[0] = p0 /\ \A n \in 1..N : f[n] = Chn!Carry(f[n - 1], <<snap[n]>>)
    <2> SUFFICES ASSUME NEW n \in 1..N PROVE f[n] = Chn!Carry(f[n - 1], <<snap[n]>>)
      BY <1>6
    <2>1. n - 1 \in 0..N
      BY <1>1
    <2> QED
      BY <1>4, <1>6, <2>1
  <1>8. IsPart(f)
    <2>1. ASSUME NEW n \in 0..N
          PROVE  f[n] = IF n = 0 THEN p0 ELSE Chn!Carry(f[n - 1], <<snap[n]>>)
      <3>1. n # 0 => n \in 1..N
        BY <1>1
      <3> QED
        BY <1>7, <3>1
    <2>2. f = [n \in 0..N |-> f[n]]
      BY <1>6
    <2> QED
      BY <2>1, <2>2
  <1>9. IsPart(part)
    BY <1>8
  <1>10. part[0] = p0 /\ \A n \in 1..N : part[n] = Chn!Carry(part[n - 1], <<snap[n]>>)
    <2> HIDE DEF part
    <2>1. 0 \in 0..N /\ \A n \in 1..N : n \in 0..N /\ n # 0
      BY <1>1
    <2> QED
      BY <1>9, <2>1
  <1> HIDE DEF part, IsPart
  <1>11. \A n \in 0..N : f[n] = part[n]
    <2>1. GoTogether(0, N, f, part)
      <3>1. 0 + 1 = 1 /\ 0 \in Nat /\ N \in Nat
        BY <1>1
      <3>2. ASSUME NEW n \in 1..N, f[n - 1] = part[n - 1] PROVE f[n] = part[n]
        BY <1>7, <1>10, <3>2
      <3> QED
        BY <1>7, <1>10, <3>1, <3>2 DEF GoTogether
    <2>2. AgreeOn(0, N, f, part)
      BY <2>1, StepsAgree
    <2> QED
      BY <2>2 DEF AgreeOn
  <1>12. PartsReady(last, N)
    <2>1. N \in 0..N
      BY <1>1
    <2>2. last \in TP[N]
      BY <1>6, <1>11, <2>1
    <2> QED
      BY <2>1, <2>2 DEF TP
  <1> HIDE DEF last
  <1> DEFINE s0 == Chn!Merge(last[0], <<>>)
             TL == [l \in 0..N |-> {s \in Seq(ChainEntries) : ListedTo(last, l, s)}]
             stepL == [u \in (1..N) \X Seq(ChainEntries) |-> Chn!Merge(last[u[1]], u[2])]
  <1>13. s0 \in TL[0]
    <2>1. ListedTo(last, 0, s0)
      BY <1>12, FirstIsListed
    <2>2. s0 \in Seq(ChainEntries)
      BY <2>1 DEF ListedTo, InOrder
    <2>3. 0 \in 0..N
      BY <1>1
    <2> HIDE DEF s0, N
    <2> QED
      BY <2>1, <2>2, <2>3
  <1> HIDE DEF s0
  <1>14. ASSUME NEW l \in 1..N, NEW s \in TL[l - 1]
         PROVE  stepL[<<l, s>>] \in TL[l] /\ stepL[<<l, s>>] = Chn!Merge(last[l], s)
    <2>1. l - 1 \in 0..N /\ l \in 0..N
      BY <1>1
    <2>2. s \in Seq(ChainEntries) /\ ListedTo(last, l - 1, s)
      BY <2>1
    <2>3. PICK u : u = Chn!Merge(last[l], s)
      OBVIOUS
    <2>4. ListedTo(last, l, u)
      BY <1>12, <2>2, <2>3, ListedOn
    <2>5. u \in Seq(ChainEntries)
      BY <2>4 DEF ListedTo, InOrder
    <2>6. stepL[<<l, s>>] = u
      BY <2>2, <2>3
    <2> HIDE DEF stepL, N
    <2> QED
      BY <2>1, <2>3, <2>4, <2>5, <2>6
  <1>15. \A l \in 0..N : TL[l] \subseteq Seq(ChainEntries)
    OBVIOUS
  <1> HIDE DEF TL, stepL
  <1>16. PICK g : /\ g \in [0..N -> Seq(ChainEntries)] /\ g[0] = s0
                  /\ \A l \in 1..N : g[l] = stepL[<<l, g[l - 1]>>]
                  /\ \A l \in 0..N : g[l] \in TL[l]
    <2>1. LeadOn(0, N, Seq(ChainEntries), TL, s0, stepL)
      <3>1. 0 + 1 = 1 /\ 0 \in Nat /\ N \in Nat /\ 0 <= N
        BY <1>1
      <3>2. \A l \in 0 + 1..N : \A s \in TL[l - 1] : stepL[<<l, s>>] \in TL[l]
        BY <1>14, <3>1
      <3> QED
        BY <1>13, <1>15, <3>1, <3>2 DEF LeadOn
    <2>2. PICK g : HasSteps(0, N, Seq(ChainEntries), TL, s0, stepL, g)
      BY <2>1, StepsLeadOn
    <2>3. 0 + 1 = 1
      OBVIOUS
    <2> QED
      BY <2>2, <2>3 DEF HasSteps
  <1>17. g[0] = s0 /\ \A l \in 1..N : g[l] = Chn!Merge(last[l], g[l - 1])
    <2> SUFFICES ASSUME NEW l \in 1..N PROVE g[l] = Chn!Merge(last[l], g[l - 1])
      BY <1>16
    <2>1. l - 1 \in 0..N
      BY <1>1
    <2> QED
      BY <1>14, <1>16, <2>1
  <1>18. IsListed(g)
    <2>1. ASSUME NEW l \in 0..N
          PROVE  g[l] = Chn!Merge(last[l], IF l = 0 THEN <<>> ELSE g[l - 1])
      <3>1. CASE l = 0
        BY <1>17, <3>1 DEF s0
      <3>2. CASE l # 0
        BY <1>1, <1>17, <3>2
      <3> QED
        BY <3>1, <3>2
    <2>2. g = [l \in 0..N |-> g[l]]
      BY <1>16
    <2> QED
      BY <2>1, <2>2
  <1>19. IsListed(list)
    BY <1>18
  <1>20. list[0] = s0 /\ \A l \in 1..N : list[l] = Chn!Merge(last[l], list[l - 1])
    <2> HIDE DEF list
    <2>1. 0 \in 0..N /\ \A l \in 1..N : l \in 0..N /\ l # 0
      BY <1>1
    <2>2. list[0] = s0
      BY <1>19, <2>1 DEF s0
    <2>3. \A l \in 1..N : list[l] = Chn!Merge(last[l], list[l - 1])
      BY <1>19, <2>1
    <2> QED
      BY <2>2, <2>3
  <1> HIDE DEF list, IsListed
  <1>21. \A l \in 0..N : g[l] = list[l]
    <2>1. GoTogether(0, N, g, list)
      <3>1. 0 + 1 = 1 /\ 0 \in Nat /\ N \in Nat
        BY <1>1
      <3>2. ASSUME NEW l \in 1..N, g[l - 1] = list[l - 1] PROVE g[l] = list[l]
        BY <1>17, <1>20, <3>2
      <3> QED
        BY <1>17, <1>20, <3>1, <3>2 DEF GoTogether
    <2>2. AgreeOn(0, N, g, list)
      BY <2>1, StepsAgree
    <2> QED
      BY <2>2 DEF AgreeOn
  <1>22. ListedTo(last, N, t)
    <2>1. N \in 0..N
      BY <1>1
    <2>2. t \in TL[N]
      BY <1>2, <1>16, <1>21, <2>1
    <2> QED
      BY <2>1, <2>2 DEF TL
  <1>23. \A x : Among(snap, x) <=> \E k \in 0..N : Among(last[k], x)
    BY <1>12 DEF PartsReady, Among
  <1> QED
    BY <1>22, <1>23 DEF ListedTo
-----------------------------------------------------------------------------
\* The chains.
HomeIn(m, k) == k % (m + 1)

\* Chains ch and lists hd of the entries of S, whose keys are ky.
Built(m, ch, hd, S, ky) ==
    /\ ch \in [0..m -> Seq(ChainEntries)] /\ hd \in [ChainKeys -> Seq(ChainEntries)]
    /\ \A n \in S : n \in ChainEntries /\ ky[n] \in ChainKeys
    /\ \A i \in 0..m : Once(ch[i]) /\ \A x : Among(ch[i], x) <=> x \in S /\ HomeIn(m, ky[x]) = i
    /\ \A k \in ChainKeys : Once(hd[k]) /\ \A x : Among(hd[k], x) <=> x \in S /\ ky[x] = k
    /\ \A k \in ChainKeys : \A x, y : Ahead(hd[k], x, y) => Ahead(ch[HomeIn(m, k)], x, y)

ChainSound == /\ mask = Chn!Rounded(Asked) - 1
              /\ Built(mask, chain, held, DOMAIN key, key)

\* What the lists of one key may become when only entries of that key change.
ListsChanged(m, k, ch, S, ky, S2, ky2, c, l) ==
    /\ c \in Seq(ChainEntries) /\ l \in Seq(ChainEntries) /\ Once(c) /\ Once(l)
    /\ \A n \in S2 : n \in ChainEntries /\ ky2[n] \in ChainKeys
    /\ \A n : n \in S2 /\ ky2[n] # k <=> n \in S /\ ky[n] # k
    /\ \A n \in S : ky[n] # k => ky2[n] = ky[n]
    /\ \A x : Among(c, x) <=> x \in S2 /\ HomeIn(m, ky2[x]) = HomeIn(m, k)
    /\ \A x : Among(l, x) <=> x \in S2 /\ ky2[x] = k
    /\ \A x, y : Ahead(l, x, y) => Ahead(c, x, y)
    /\ \A x, y : Ahead(ch[HomeIn(m, k)], x, y) /\ x \in S2 /\ y \in S2 => Ahead(c, x, y)

\* And what they are in then.
Renewed(m, k, ch, hd, c, l, ch2, hd2) ==
    ch2 = [ch EXCEPT ![HomeIn(m, k)] = c] /\ hd2 = [hd EXCEPT ![k] = l]

LEMMA HomeInChains ==
  ASSUME NEW m \in Nat, NEW k \in ChainKeys
  PROVE  HomeIn(m, k) \in 0..m
  <1>1. PICK n \in Nat \ {0} : n = m + 1
    OBVIOUS
  <1>2. k \in Nat
    BY ChainConstants
  <1>3. k % n \in 0..n - 1
    BY <1>1, <1>2
  <1> QED
    BY <1>1, <1>3 DEF HomeIn

LEMMA StaysBuilt ==
  ASSUME NEW m \in Nat, NEW ch, NEW hd, NEW S, NEW ky, Built(m, ch, hd, S, ky),
         NEW k \in ChainKeys, NEW S2, NEW ky2, NEW c, NEW l, ListsChanged(m, k, ch, S, ky, S2, ky2, c, l),
         NEW ch2, NEW hd2, Renewed(m, k, ch, hd, c, l, ch2, hd2)
  PROVE  Built(m, ch2, hd2, S2, ky2)
  <1>1. PICK h : h = HomeIn(m, k)
    OBVIOUS
  <1>2. h \in 0..m
    BY <1>1, HomeInChains
  <1>3. /\ ch \in [0..m -> Seq(ChainEntries)] /\ hd \in [ChainKeys -> Seq(ChainEntries)]
        /\ \A n \in S : n \in ChainEntries /\ ky[n] \in ChainKeys
        /\ \A i \in 0..m : Once(ch[i]) /\ \A x : Among(ch[i], x) <=> x \in S /\ HomeIn(m, ky[x]) = i
        /\ \A j \in ChainKeys : Once(hd[j]) /\ \A x : Among(hd[j], x) <=> x \in S /\ ky[x] = j
        /\ \A j \in ChainKeys : \A x, y : Ahead(hd[j], x, y) => Ahead(ch[HomeIn(m, j)], x, y)
    BY DEF Built
  <1>4. /\ c \in Seq(ChainEntries) /\ l \in Seq(ChainEntries) /\ Once(c) /\ Once(l)
        /\ \A n \in S2 : n \in ChainEntries /\ ky2[n] \in ChainKeys
        /\ \A n : n \in S2 /\ ky2[n] # k <=> n \in S /\ ky[n] # k
        /\ \A n \in S : ky[n] # k => ky2[n] = ky[n]
        /\ \A x : Among(c, x) <=> x \in S2 /\ HomeIn(m, ky2[x]) = h
        /\ \A x : Among(l, x) <=> x \in S2 /\ ky2[x] = k
        /\ \A x, y : Ahead(l, x, y) => Ahead(c, x, y)
        /\ \A x, y : Ahead(ch[h], x, y) /\ x \in S2 /\ y \in S2 => Ahead(c, x, y)
    BY <1>1 DEF ListsChanged
  <1>5. /\ ch2 \in [0..m -> Seq(ChainEntries)] /\ hd2 \in [ChainKeys -> Seq(ChainEntries)]
        /\ ch2[h] = c /\ \A i \in 0..m : i # h => ch2[i] = ch[i]
        /\ hd2[k] = l /\ \A j \in ChainKeys : j # k => hd2[j] = hd[j]
    <2>1. ch2 = [ch EXCEPT ![h] = c] /\ hd2 = [hd EXCEPT ![k] = l]
      BY <1>1 DEF Renewed
    <2> QED
      BY ONLY <2>1, <1>2, <1>3, <1>4, k \in ChainKeys
  <1>6. ASSUME NEW i \in 0..m
        PROVE  Once(ch2[i]) /\ \A x : Among(ch2[i], x) <=> x \in S2 /\ HomeIn(m, ky2[x]) = i
    <2>1. CASE i = h
      BY <1>4, <1>5, <2>1
    <2>2. CASE i # h
      <3>1. \A x : x \in S2 /\ HomeIn(m, ky2[x]) = i <=> x \in S /\ HomeIn(m, ky[x]) = i
        <4> SUFFICES ASSUME NEW x
                     PROVE  x \in S2 /\ HomeIn(m, ky2[x]) = i <=> x \in S /\ HomeIn(m, ky[x]) = i
          OBVIOUS
        <4>1. x \in S2 /\ ky2[x] # k => x \in S /\ ky2[x] = ky[x]
          BY <1>4
        <4>2. x \in S /\ ky[x] # k => x \in S2 /\ ky2[x] = ky[x]
          BY <1>4
        <4>3. HomeIn(m, ky2[x]) = i => ky2[x] # k
          BY <1>1, <2>2
        <4>4. HomeIn(m, ky[x]) = i => ky[x] # k
          BY <1>1, <2>2
        <4> QED
          BY <4>1, <4>2, <4>3, <4>4
      <3> QED
        BY <1>3, <1>5, <2>2, <3>1
    <2> QED
      BY <2>1, <2>2
  <1>7. ASSUME NEW j \in ChainKeys
        PROVE  /\ Once(hd2[j]) /\ \A x : Among(hd2[j], x) <=> x \in S2 /\ ky2[x] = j
               /\ \A x, y : Ahead(hd2[j], x, y) => Ahead(ch2[HomeIn(m, j)], x, y)
    <2>1. CASE j = k
      BY <1>1, <1>4, <1>5, <2>1
    <2>2. CASE j # k
      <3>1. hd2[j] = hd[j]
        BY <1>5, <2>2
      <3>2. \A x : x \in S2 /\ ky2[x] = j <=> x \in S /\ ky[x] = j
        BY <1>4, <2>2
      <3>3. ASSUME NEW x, NEW y, Ahead(hd[j], x, y) PROVE Ahead(ch2[HomeIn(m, j)], x, y)
        <4>1. Ahead(ch[HomeIn(m, j)], x, y)
          BY <1>3, <3>3
        <4>2. CASE HomeIn(m, j) = h
          <5>1. Among(hd[j], x) /\ Among(hd[j], y)
            BY <1>3, <3>3, AheadIsOrder
          <5>2. x \in S2 /\ y \in S2
            BY <1>3, <3>2, <5>1
          <5> QED
            BY <1>4, <1>5, <4>1, <4>2, <5>2
        <4>3. CASE HomeIn(m, j) # h
          <5>1. HomeIn(m, j) \in 0..m
            BY HomeInChains
          <5> QED
            BY <1>5, <4>1, <4>3, <5>1
        <4> QED
          BY <4>2, <4>3
      <3> QED
        BY <1>3, <3>1, <3>2, <3>3
    <2> QED
      BY <2>1, <2>2
  <1> QED
    BY <1>4, <1>5, <1>6, <1>7 DEF Built

\* An entry in front of its lists.
LEMMA InFrontBuilt ==
  ASSUME NEW m \in Nat, NEW ch, NEW hd, NEW S, NEW ky, Built(m, ch, hd, S, ky),
         NEW k \in ChainKeys, NEW n \in ChainEntries, n \notin S,
         NEW S2, S2 = S \cup {n}, NEW ky2, ky2[n] = k, \A x \in S : ky2[x] = ky[x],
         NEW ch2, ch2 = Chn!InFront(ch, HomeIn(m, k), n),
         NEW hd2, hd2 = Chn!InFront(hd, k, n)
  PROVE  Built(m, ch2, hd2, S2, ky2)
  <1>1. PICK h : h = HomeIn(m, k)
    OBVIOUS
  <1>2. h \in 0..m
    BY <1>1, HomeInChains
  <1>3. PICK one : one = <<n>>
    OBVIOUS
  <1>4. /\ one \in Seq(ChainEntries) /\ Once(one)
        /\ \A x : Among(one, x) <=> x = n
        /\ \A x, y : ~Ahead(one, x, y)
    BY <1>3, SingleList
  <1>5. PICK c, l : c = one \o ch[h] /\ l = one \o hd[k]
    OBVIOUS
  <1>6. /\ ch \in [0..m -> Seq(ChainEntries)] /\ hd \in [ChainKeys -> Seq(ChainEntries)]
        /\ \A x \in S : x \in ChainEntries /\ ky[x] \in ChainKeys
        /\ \A i \in 0..m : Once(ch[i]) /\ \A x : Among(ch[i], x) <=> x \in S /\ HomeIn(m, ky[x]) = i
        /\ \A j \in ChainKeys : Once(hd[j]) /\ \A x : Among(hd[j], x) <=> x \in S /\ ky[x] = j
        /\ \A j \in ChainKeys : \A x, y : Ahead(hd[j], x, y) => Ahead(ch[HomeIn(m, j)], x, y)
    BY DEF Built
  <1>7. Renewed(m, k, ch, hd, c, l, ch2, hd2)
    BY <1>1, <1>3, <1>5 DEF Chn!InFront, Renewed
  <1>8. ch[h] \in Seq(ChainEntries) /\ hd[k] \in Seq(ChainEntries) /\ Once(ch[h]) /\ Once(hd[k])
    BY <1>2, <1>6
  <1>9. /\ c \in Seq(ChainEntries) /\ Once(c)
        /\ \A x : Among(c, x) <=> x = n \/ Among(ch[h], x)
        /\ \A x, y : Ahead(c, x, y) <=> Ahead(ch[h], x, y) \/ (x = n /\ Among(ch[h], y))
    <2>1. \A x : ~(Among(one, x) /\ Among(ch[h], x))
      BY <1>2, <1>4, <1>6
    <2> QED
      BY <1>4, <1>5, <1>8, <2>1, TwoLists
  <1>10. /\ l \in Seq(ChainEntries) /\ Once(l)
         /\ \A x : Among(l, x) <=> x = n \/ Among(hd[k], x)
         /\ \A x, y : Ahead(l, x, y) <=> Ahead(hd[k], x, y) \/ (x = n /\ Among(hd[k], y))
    <2>1. \A x : ~(Among(one, x) /\ Among(hd[k], x))
      BY <1>4, <1>6
    <2> QED
      BY <1>4, <1>5, <1>8, <2>1, TwoLists
  <1>11. ListsChanged(m, k, ch, S, ky, S2, ky2, c, l)
    <2>1. \A x \in S2 : x \in ChainEntries /\ ky2[x] \in ChainKeys
      BY <1>6
    <2>2. \A x : x \in S2 /\ ky2[x] # k <=> x \in S /\ ky[x] # k
      OBVIOUS
    <2>3. \A x : Among(c, x) <=> x \in S2 /\ HomeIn(m, ky2[x]) = h
      <3>1. HomeIn(m, ky2[n]) = h
        BY <1>1
      <3>2. \A x : Among(ch[h], x) <=> x \in S /\ HomeIn(m, ky[x]) = h
        BY <1>2, <1>6
      <3>3. \A x \in S : HomeIn(m, ky2[x]) = HomeIn(m, ky[x])
        OBVIOUS
      <3> QED
        BY <1>9, <3>1, <3>2, <3>3
    <2>4. \A x : Among(l, x) <=> x \in S2 /\ ky2[x] = k
      BY <1>6, <1>10
    <2>5. \A x, y : Ahead(l, x, y) => Ahead(c, x, y)
      <3>1. \A y : Among(hd[k], y) => Among(ch[h], y)
        BY <1>1, <1>2, <1>6
      <3>2. \A x, y : Ahead(hd[k], x, y) => Ahead(ch[h], x, y)
        BY <1>1, <1>6
      <3> QED
        BY <1>9, <1>10, <3>1, <3>2
    <2> QED
      BY <1>1, <1>9, <1>10, <2>1, <2>2, <2>3, <2>4, <2>5 DEF ListsChanged
  <1> QED
    BY <1>7, <1>11, StaysBuilt

LEMMA MaskIsNatural ==
  ASSUME ChainSound
  PROVE  mask \in Nat
  BY MaskIsRounded DEF ChainSound

\* What is in the chains.
LEMMA InChainsIs ==
  ASSUME ChainSound, NEW s, s = Chn!InChains
  PROVE  /\ s \in Seq(ChainEntries) /\ Once(s)
         /\ \A x : Among(s, x) <=> x \in DOMAIN key
  <1>1. mask \in Nat
    BY MaskIsNatural
  <1>2. PICK n \in Nat \ {0} : n = mask + 1
    BY <1>1
  <1>3. PICK row : row = [i \in 1..mask + 1 |-> chain[i - 1]]
    OBVIOUS
  <1>4. /\ chain \in [0..mask -> Seq(ChainEntries)]
        /\ \A x \in DOMAIN key : x \in ChainEntries /\ key[x] \in ChainKeys
        /\ \A i \in 0..mask : Once(chain[i]) /\ \A x : Among(chain[i], x) <=> x \in DOMAIN key /\ HomeIn(mask, key[x]) = i
    BY DEF ChainSound, Built
  <1>5. \A i \in 1..n : i - 1 \in 0..mask /\ row[i] = chain[i - 1]
    BY <1>1, <1>2, <1>3
  <1>6. row \in [1..n -> Seq(ChainEntries)]
    <2>1. row = [i \in 1..n |-> row[i]]
      BY <1>2, <1>3
    <2>2. \A i \in 1..n : row[i] \in Seq(ChainEntries)
      BY <1>4, <1>5
    <2> QED
      BY <2>1, <2>2
  <1>7. \A i \in 1..n : Once(row[i])
    BY <1>4, <1>5
  <1>8. \A i, j \in 1..n : i # j => \A x : ~(Among(row[i], x) /\ Among(row[j], x))
    <2> SUFFICES ASSUME NEW i \in 1..n, NEW j \in 1..n, i # j, NEW x, Among(row[i], x), Among(row[j], x)
                 PROVE  FALSE
      OBVIOUS
    <2>1. HomeIn(mask, key[x]) = i - 1 /\ HomeIn(mask, key[x]) = j - 1
      BY <1>4, <1>5
    <2>2. i - 1 = j - 1
      BY <2>1
    <2> QED
      BY <2>2
  <1>9. s = Chn!FlattenSeq(row)
    BY <1>3 DEF Chn!InChains
  <1>10. s \in Seq(ChainEntries) /\ Once(s) /\ \A x : Among(s, x) <=> \E i \in 1..n : Among(row[i], x)
    BY <1>6, <1>7, <1>8, <1>9, FlatList
  <1>11. \A x : (\E i \in 1..n : Among(row[i], x)) <=> x \in DOMAIN key
    <2> SUFFICES ASSUME NEW x PROVE (\E i \in 1..n : Among(row[i], x)) <=> x \in DOMAIN key
      OBVIOUS
    <2>1. ASSUME NEW i \in 1..n, Among(row[i], x) PROVE x \in DOMAIN key
      BY <1>4, <1>5, <2>1
    <2>2. ASSUME x \in DOMAIN key PROVE \E i \in 1..n : Among(row[i], x)
      <3>1. PICK h : h = HomeIn(mask, key[x])
        OBVIOUS
      <3>2. h \in 0..mask
        BY <1>1, <1>4, <2>2, <3>1, HomeInChains
      <3>3. Among(chain[h], x)
        BY <1>4, <2>2, <3>1, <3>2
      <3>4. PICK i \in 1..n : i - 1 = h
        <4>1. h + 1 \in 1..n /\ (h + 1) - 1 = h
          BY <1>1, <1>2, <3>2
        <4> QED
          BY <4>1
      <3>5. row[i] = chain[h]
        BY <1>5, <3>4
      <3> QED
        BY <3>3, <3>5
    <2> QED
      BY <2>1, <2>2
  <1> QED
    BY <1>10, <1>11

-----------------------------------------------------------------------------
\* Copying one entry, and those of a list.
OneCopied(c, n) == [chain |-> Chn!InFront(c.chain, Chn!Home(key[n]), n),
                    held |-> Chn!InFront(c.held, key[n], n)]

CopiedFrom(met) ==
    LET copied[i \in 0..Len(met)] ==
            IF i = 0 THEN [chain |-> Chn!EmptyChains, held |-> Chn!NoneHeld]
            ELSE OneCopied(copied[i - 1], met[i])
    IN  copied[Len(met)]

FirstOf(met, i) == {met[j] : j \in 1..i}

CopyStates == [chain : [0..mask -> Seq(ChainEntries)], held : [ChainKeys -> Seq(ChainEntries)]]

LEMMA NothingBuilt ==
  ASSUME mask \in Nat, NEW ky, NEW ch, NEW hd, ch = Chn!EmptyChains, hd = Chn!NoneHeld
  PROVE  Built(mask, ch, hd, {}, ky)
  <1>1. /\ ch = [i \in 0..mask |-> <<>>] /\ hd = [k \in ChainKeys |-> <<>>]
    BY DEF Chn!EmptyChains, Chn!NoneHeld
  <1>2. /\ <<>> \in Seq(ChainEntries) /\ Once(<<>>)
        /\ (\A x : ~Among(<<>>, x)) /\ \A x, y : ~Ahead(<<>>, x, y)
    BY EmptyList
  <1>3. (\A i \in 0..mask : ch[i] = <<>>) /\ \A k \in ChainKeys : hd[k] = <<>>
    BY <1>1
  <1>4. ch \in [0..mask -> Seq(ChainEntries)] /\ hd \in [ChainKeys -> Seq(ChainEntries)]
    BY <1>1, <1>2
  <1> QED
    BY <1>2, <1>3, <1>4 DEF Built

LEMMA CopiesOn ==
  ASSUME mask \in Nat, NEW met \in Seq(ChainEntries), Once(met),
         \A x : Among(met, x) => x \in DOMAIN key /\ key[x] \in ChainKeys,
         NEW i \in 1..Len(met), NEW c, Built(mask, c.chain, c.held, FirstOf(met, i - 1), key),
         NEW u, u = OneCopied(c, met[i])
  PROVE  u \in CopyStates /\ Built(mask, u.chain, u.held, FirstOf(met, i), key)
  <1>1. PICK n : n = met[i]
    OBVIOUS
  <1>2. n \in ChainEntries /\ Among(met, n) /\ Len(met) \in Nat
    BY <1>1 DEF Among
  <1>3. PICK k \in ChainKeys : k = key[n]
    BY <1>2
  <1>4. PICK S, S2 : S = FirstOf(met, i - 1) /\ S2 = FirstOf(met, i)
    OBVIOUS
  <1>5. n \notin S
    <2> SUFFICES ASSUME n \in S PROVE FALSE
      OBVIOUS
    <2>1. PICK j \in 1..i - 1 : met[j] = n
      BY <1>4 DEF FirstOf
    <2>2. j \in 1..Len(met) /\ j # i
      BY <1>2
    <2> QED
      BY <1>1, <2>1, <2>2 DEF Once
  <1>6. S2 = S \cup {n}
    <2>1. \A j : j \in 1..i <=> j \in 1..i - 1 \/ j = i
      BY <1>2
    <2> QED
      BY <1>1, <1>4, <2>1 DEF FirstOf
  <1>7. PICK ch, hd : ch = c.chain /\ hd = c.held
    OBVIOUS
  <1>8. PICK ch2, hd2 : /\ ch2 = Chn!InFront(ch, HomeIn(mask, k), n)
                        /\ hd2 = Chn!InFront(hd, k, n)
    OBVIOUS
  <1>9. u = [chain |-> ch2, held |-> hd2]
    BY <1>1, <1>3, <1>7, <1>8 DEF OneCopied, Chn!Home, HomeIn
  <1>10. Built(mask, ch, hd, S, key)
    BY <1>4, <1>7
  <1>11. Built(mask, ch2, hd2, S2, key)
    BY <1>2, <1>3, <1>5, <1>6, <1>8, <1>10, InFrontBuilt
  <1>12. ch2 \in [0..mask -> Seq(ChainEntries)] /\ hd2 \in [ChainKeys -> Seq(ChainEntries)]
    BY <1>11 DEF Built
  <1>13. u.chain = ch2 /\ u.held = hd2
    BY <1>9
  <1> QED
    BY <1>4, <1>9, <1>11, <1>12, <1>13 DEF CopyStates

LEMMA CopyIsBuilt ==
  ASSUME mask \in Nat, NEW met \in Seq(ChainEntries), Once(met),
         \A x : Among(met, x) => x \in DOMAIN key /\ key[x] \in ChainKeys,
         NEW u, u = CopiedFrom(met)
  PROVE  Built(mask, u.chain, u.held, FirstOf(met, Len(met)), key)
  <1> DEFINE n == Len(met)
             s0 == [chain |-> Chn!EmptyChains, held |-> Chn!NoneHeld]
             T == [i \in 0..n |-> {c \in CopyStates : Built(mask, c.chain, c.held, FirstOf(met, i), key)}]
             step == [q \in (1..n) \X CopyStates |-> OneCopied(q[2], met[q[1]])]
             IsCopy(f) == f = [i \in 0..n |-> IF i = 0 THEN s0 ELSE OneCopied(f[i - 1], met[i])]
             copied == CHOOSE f : IsCopy(f)
  <1>1. n \in Nat
    OBVIOUS
  <1>2. u = copied[n]
    BY DEF CopiedFrom
  <1>3. s0 \in T[0]
    <2>1. PICK c : c = s0
      OBVIOUS
    <2>2. c.chain = Chn!EmptyChains /\ c.held = Chn!NoneHeld /\ c = [chain |-> c.chain, held |-> c.held]
      BY <2>1
    <2>3. FirstOf(met, 0) = {}
      <3>1. \A j : j \notin 1..0
        OBVIOUS
      <3> QED
        BY <3>1 DEF FirstOf
    <2>4. Built(mask, c.chain, c.held, {}, key)
      BY <2>2, NothingBuilt
    <2>5. c.chain \in [0..mask -> Seq(ChainEntries)] /\ c.held \in [ChainKeys -> Seq(ChainEntries)]
      BY <2>4 DEF Built
    <2>6. c \in CopyStates
      BY <2>2, <2>5 DEF CopyStates
    <2>7. 0 \in 0..n
      BY <1>1
    <2> HIDE DEF s0, n
    <2> QED
      BY <2>1, <2>3, <2>4, <2>6, <2>7
  <1> HIDE DEF s0
  <1>4. ASSUME NEW i \in 1..n, NEW c \in T[i - 1]
        PROVE  step[<<i, c>>] \in T[i] /\ step[<<i, c>>] = OneCopied(c, met[i])
    <2>1. i - 1 \in 0..n /\ i \in 0..n
      BY <1>1
    <2>2. c \in CopyStates /\ Built(mask, c.chain, c.held, FirstOf(met, i - 1), key)
      BY <2>1
    <2>3. PICK v : v = OneCopied(c, met[i])
      OBVIOUS
    <2>4. v \in CopyStates /\ Built(mask, v.chain, v.held, FirstOf(met, i), key)
      BY <2>2, <2>3, CopiesOn
    <2>5. step[<<i, c>>] = v
      BY <2>2, <2>3
    <2> HIDE DEF step, n
    <2> QED
      BY <2>1, <2>3, <2>4, <2>5
  <1>5. \A i \in 0..n : T[i] \subseteq CopyStates
    OBVIOUS
  <1> HIDE DEF T, step
  <1>6. PICK f : /\ f \in [0..n -> CopyStates] /\ f[0] = s0
                 /\ \A i \in 1..n : f[i] = step[<<i, f[i - 1]>>]
                 /\ \A i \in 0..n : f[i] \in T[i]
    <2>1. LeadOn(0, n, CopyStates, T, s0, step)
      <3>1. 0 + 1 = 1 /\ 0 \in Nat /\ n \in Nat /\ 0 <= n
        BY <1>1
      <3>2. \A i \in 0 + 1..n : \A t \in T[i - 1] : step[<<i, t>>] \in T[i]
        BY <1>4, <3>1
      <3> QED
        BY <1>3, <1>5, <3>1, <3>2 DEF LeadOn
    <2>2. PICK f : HasSteps(0, n, CopyStates, T, s0, step, f)
      BY <2>1, StepsLeadOn
    <2>3. 0 + 1 = 1
      OBVIOUS
    <2> QED
      BY <2>2, <2>3 DEF HasSteps
  <1>7. f[0] = s0 /\ \A i \in 1..n : f[i] = OneCopied(f[i - 1], met[i])
    <2> SUFFICES ASSUME NEW i \in 1..n PROVE f[i] = OneCopied(f[i - 1], met[i])
      BY <1>6
    <2>1. i - 1 \in 0..n
      BY <1>1
    <2> QED
      BY <1>4, <1>6, <2>1
  <1>8. IsCopy(f)
    <2>1. ASSUME NEW i \in 0..n
          PROVE  f[i] = IF i = 0 THEN s0 ELSE OneCopied(f[i - 1], met[i])
      <3>1. i # 0 => i \in 1..n
        BY <1>1
      <3> QED
        BY <1>7, <3>1
    <2>2. f = [i \in 0..n |-> f[i]]
      BY <1>6
    <2> QED
      BY <2>1, <2>2
  <1>9. IsCopy(copied)
    BY <1>8
  <1>10. copied[0] = s0 /\ \A i \in 1..n : copied[i] = OneCopied(copied[i - 1], met[i])
    <2> HIDE DEF copied
    <2>1. 0 \in 0..n /\ \A i \in 1..n : i \in 0..n /\ i # 0
      BY <1>1
    <2> QED
      BY <1>9, <2>1
  <1> HIDE DEF copied, IsCopy
  <1>11. \A i \in 0..n : f[i] = copied[i]
    <2>1. GoTogether(0, n, f, copied)
      <3>1. 0 + 1 = 1 /\ 0 \in Nat /\ n \in Nat
        BY <1>1
      <3>2. ASSUME NEW i \in 1..n, f[i - 1] = copied[i - 1] PROVE f[i] = copied[i]
        BY <1>7, <1>10, <3>2
      <3> QED
        BY <1>7, <1>10, <3>1, <3>2 DEF GoTogether
    <2>2. AgreeOn(0, n, f, copied)
      BY <2>1, StepsAgree
    <2> QED
      BY <2>2 DEF AgreeOn
  <1>12. n \in 0..n
    BY <1>1
  <1>13. u \in T[n]
    BY <1>2, <1>6, <1>11, <1>12
  <1> QED
    BY <1>12, <1>13 DEF T
-----------------------------------------------------------------------------
\* The snapshot sn, its history tk and the keys ky.
SnapHolds(sn, tk, ky) ==
    /\ sn \in Seq(ChainEntries) /\ Once(sn)
    /\ tk = [order |-> tk.order, sorted |-> tk.sorted] /\ tk.sorted \in BOOLEAN
    /\ tk.order \in Seq(ChainEntries) /\ Once(tk.order)
    /\ \A x : Among(sn, x) <=> Among(tk.order, x)
    /\ \A x : Among(sn, x) => x \in DOMAIN ky
    /\ sn # <<>> /\ tk.sorted = FALSE => sn = tk.order
    /\ \A x, y : Ahead(sn, x, y) /\ ky[x] = ky[y] => Ahead(tk.order, x, y)
    /\ tk.sorted = TRUE => \A x, y : Ahead(sn, x, y) => ky[x] < ky[y] \/ ky[x] = ky[y]

SnapSound(sn, tk, ky) == sn = Dangling \/ SnapHolds(sn, tk, ky)

\* The iterator it is at the entry n of its chain.
AtOf(ch, it, n) ==
    \E p \in 1..Len(ch[it.index]) :
        ch[it.index][p] = n /\ it.parent = IF p = 1 THEN NoEntry ELSE ch[it.index][p - 1]

PlaceTyped(m, it) == /\ it.entry \in ChainEntries \cup {NoEntry} /\ it.index \in 0..m
                     /\ it.parent \in ChainEntries \cup {NoEntry}

\* What an iterator through the chains has before it.
Beyond(m, ch, it, x) ==
    /\ it.entry # NoEntry
    /\ Ahead(ch[it.index], it.entry, x) \/ \E j \in 0..m : j > it.index /\ Among(ch[j], x)

ThroughSnapshot(m, ch, ky, sn, it, w) ==
    /\ it.entry = NoEntry => w.met = sn
    /\ it.entry # NoEntry =>
        /\ \E p \in 1..Len(sn) : sn[p] = it.entry /\ w.met = SubSeq(sn, 1, p)
        /\ w.calm = TRUE => /\ it.index = HomeIn(m, ky[it.entry])
                            /\ \E n \in DOMAIN ky : ky[n] = ky[it.entry] /\ AtOf(ch, it, n)

ThroughChains(m, ch, ky, it, w) ==
    /\ w.met \in Seq(ChainEntries) /\ Once(w.met)
    /\ \A x : Among(w.met, x) => x \in DOMAIN ky /\ ~Beyond(m, ch, it, x)
    /\ \A x \in w.whole : Among(w.met, x) \/ Beyond(m, ch, it, x)
    /\ it.entry # NoEntry => /\ Among(ch[it.index], it.entry)
                             /\ w.calm = TRUE => AtOf(ch, it, it.entry)

StrollSound(m, ch, ky, sn, it, w) ==
    /\ sn # Dangling
    /\ PlaceTyped(m, it)
    /\ w = [whole |-> w.whole, met |-> w.met, calm |-> w.calm] /\ w.calm \in BOOLEAN
    /\ sn # <<>> => ThroughSnapshot(m, ch, ky, sn, it, w)
    /\ sn = <<>> => ThroughChains(m, ch, ky, it, w)

Strolling(m, ch, ky, sn, it, w) == it = NoEntry \/ StrollSound(m, ch, ky, sn, it, w)

ChainIInv == /\ ChainSound
             /\ SnapSound(snap, taken, key)
             /\ Strolling(mask, chain, key, snap, place, stroll)

\* The entries of the snapshot are still there.
LEMMA SnapKept ==
  ASSUME NEW sn, NEW tk, NEW ky, SnapSound(sn, tk, ky), NEW ky2,
         sn # Dangling => \A x : Among(sn, x) => x \in DOMAIN ky2 /\ ky2[x] = ky[x]
  PROVE  SnapSound(sn, tk, ky2)
  <1> SUFFICES ASSUME sn # Dangling PROVE SnapHolds(sn, tk, ky2)
    BY DEF SnapSound
  <1>1. SnapHolds(sn, tk, ky)
    BY DEF SnapSound
  <1>2. \A x, y : Ahead(sn, x, y) => Among(sn, x) /\ Among(sn, y)
    BY <1>1, AheadIsOrder DEF SnapHolds
  <1> QED
    BY <1>1, <1>2 DEF SnapHolds

\* The chains with one entry more.
Grown(m, ch, ch2, ky, n) ==
    /\ n \notin DOMAIN ky
    /\ \A j \in 0..m : \A x : Among(ch2[j], x) /\ x # n => Among(ch[j], x)
    /\ \A j \in 0..m : \A x : Among(ch[j], x) => Among(ch2[j], x)
    /\ \A j \in 0..m : \A x, y : x # n /\ y # n => (Ahead(ch2[j], x, y) <=> Ahead(ch[j], x, y))

\* ... as the walk was begun before, or further on.
LEMMA StrollGrows ==
  ASSUME NEW m \in Nat, NEW ch, NEW hd, NEW ky, Built(m, ch, hd, DOMAIN ky, ky),
         NEW sn, NEW it, NEW w, Strolling(m, ch, ky, sn, it, w),
         NEW ch2, NEW n, Grown(m, ch, ch2, ky, n),
         NEW ky2, \A x \in DOMAIN ky : x \in DOMAIN ky2,
         NEW w2, w2 = [w EXCEPT !.calm = FALSE]
  PROVE  Strolling(m, ch2, ky2, sn, it, w2)
  <1> SUFFICES ASSUME it # NoEntry PROVE StrollSound(m, ch2, ky2, sn, it, w2)
    BY DEF Strolling
  <1>1. StrollSound(m, ch, ky, sn, it, w)
    BY DEF Strolling
  <1>2. w = [whole |-> w.whole, met |-> w.met, calm |-> w.calm]
    BY <1>1 DEF StrollSound
  <1>3. /\ w2 = [whole |-> w2.whole, met |-> w2.met, calm |-> w2.calm]
        /\ w2.whole = w.whole /\ w2.met = w.met /\ w2.calm = FALSE
    BY <1>2
  <1>4. sn # <<>> => ThroughSnapshot(m, ch2, ky2, sn, it, w2)
    BY <1>1, <1>3 DEF StrollSound, ThroughSnapshot
  <1>5. ASSUME sn = <<>> PROVE ThroughChains(m, ch2, ky2, it, w2)
    <2>1. ThroughChains(m, ch, ky, it, w)
      BY <1>1, <1>5 DEF StrollSound
    <2>2. it.index \in 0..m
      BY <1>1 DEF StrollSound, PlaceTyped
    <2>3. /\ ch \in [0..m -> Seq(ChainEntries)]
          /\ \A j \in 0..m : Once(ch[j]) /\ \A x : Among(ch[j], x) => x \in DOMAIN ky
      BY DEF Built
    <2>4. \A j \in 0..m : \A x, y : Ahead(ch[j], x, y) => x \in DOMAIN ky /\ y \in DOMAIN ky
      BY <2>3, AheadIsOrder
    <2>5. \A x : Beyond(m, ch, it, x) => x \in DOMAIN ky
      BY <2>2, <2>3, <2>4 DEF Beyond
    <2>6. it.entry # NoEntry => Among(ch[it.index], it.entry) /\ it.entry \in DOMAIN ky
      BY <2>1, <2>2, <2>3 DEF ThroughChains
    <2>7. \A x \in DOMAIN ky : Beyond(m, ch2, it, x) <=> Beyond(m, ch, it, x)
      <3> SUFFICES ASSUME NEW x \in DOMAIN ky, it.entry # NoEntry
                   PROVE  Beyond(m, ch2, it, x) <=> Beyond(m, ch, it, x)
        BY DEF Beyond
      <3>1. x # n /\ it.entry # n
        BY <2>6 DEF Grown
      <3>2. Ahead(ch2[it.index], it.entry, x) <=> Ahead(ch[it.index], it.entry, x)
        BY <2>2, <3>1 DEF Grown
      <3>3. \A j \in 0..m : Among(ch2[j], x) <=> Among(ch[j], x)
        BY <3>1 DEF Grown
      <3> QED
        BY <3>2, <3>3 DEF Beyond
    <2>8. it.entry # NoEntry => Among(ch2[it.index], it.entry)
      BY <2>2, <2>6 DEF Grown
    <2>9. /\ w2.met \in Seq(ChainEntries) /\ Once(w2.met)
          /\ \A x : Among(w2.met, x) => x \in DOMAIN ky /\ ~Beyond(m, ch, it, x)
          /\ \A x \in w2.whole : Among(w2.met, x) \/ Beyond(m, ch, it, x)
      BY <1>3, <2>1 DEF ThroughChains
    <2>10. \A x : Among(w2.met, x) => x \in DOMAIN ky2 /\ ~Beyond(m, ch2, it, x)
      BY <2>7, <2>9
    <2>11. \A x \in w2.whole : Among(w2.met, x) \/ Beyond(m, ch2, it, x)
      BY <2>5, <2>7, <2>9
    <2> QED
      BY <1>3, <2>8, <2>9, <2>10, <2>11 DEF ThroughChains
  <1>6. sn # Dangling /\ PlaceTyped(m, it)
    BY <1>1 DEF StrollSound
  <1> QED
    BY <1>3, <1>4, <1>5, <1>6 DEF StrollSound

-----------------------------------------------------------------------------
\* get: the first entry of a key, or where to link one.
LEMMA GetIs ==
  ASSUME ChainSound, NEW k \in ChainKeys, NEW g, g = Chn!Get(k), NEW h, h = HomeIn(mask, k)
  PROVE  /\ h \in 0..mask /\ g.index = h /\ PlaceTyped(mask, g)
         /\ g = [entry |-> g.entry, index |-> g.index, parent |-> g.parent]
         /\ g.entry # NoEntry => g.entry \in DOMAIN key /\ key[g.entry] = k /\ AtOf(chain, g, g.entry)
         /\ g.entry = NoEntry => /\ \A n \in DOMAIN key : key[n] # k
                                 /\ chain[h] = <<>> => g.parent = NoEntry
                                 /\ chain[h] # <<>> => g.parent = chain[h][Len(chain[h])] /\ g.parent # NoEntry
  <1>1. mask \in Nat /\ h \in 0..mask
    BY MaskIsNatural, HomeInChains
  <1>2. PICK c : c = chain[h]
    OBVIOUS
  <1>3. /\ c \in Seq(ChainEntries)
        /\ \A n \in DOMAIN key : n \in ChainEntries /\ key[n] \in ChainKeys
        /\ \A x : Among(c, x) <=> x \in DOMAIN key /\ HomeIn(mask, key[x]) = h
    BY <1>1, <1>2 DEF ChainSound, Built
  <1>4. PICK S : S = {n \in DOMAIN key : key[n] = k}
    OBVIOUS
  <1>5. PICK p : p = Chn!Place(c, S)
    OBVIOUS
  <1>6. /\ (\A i \in 1..Len(c) : c[i] \notin S) => p = 0
        /\ (\E i \in 1..Len(c) : c[i] \in S) => p \in 1..Len(c) /\ c[p] \in S
    BY <1>3, <1>5, PlaceIsFirst
  <1>7. Chn!Home(k) = h
    BY DEF Chn!Home, HomeIn
  <1>8. g = IF p # 0
            THEN [entry |-> c[p], index |-> h, parent |-> IF p = 1 THEN NoEntry ELSE c[p - 1]]
            ELSE [entry |-> NoEntry, index |-> h, parent |-> IF c = <<>> THEN NoEntry ELSE c[Len(c)]]
    BY <1>2, <1>4, <1>5, <1>7 DEF Chn!Get, Chn!At, Chn!Last
  <1>9. NoEntry \notin ChainEntries /\ Len(c) \in Nat /\ \A i \in 1..Len(c) : c[i] \in ChainEntries
    BY <1>3, ChainConstants
  <1>10. CASE \E i \in 1..Len(c) : c[i] \in S
    <2>1. p \in 1..Len(c) /\ c[p] \in S /\ p # 0
      BY <1>6, <1>9, <1>10
    <2>2. g.entry = c[p] /\ g.index = h /\ g.parent = IF p = 1 THEN NoEntry ELSE c[p - 1]
      BY <1>8, <2>1
    <2>3. g.entry \in ChainEntries /\ g.entry # NoEntry /\ g.entry \in DOMAIN key /\ key[g.entry] = k
      BY <1>4, <1>9, <2>1, <2>2
    <2>4. p # 1 => p - 1 \in 1..Len(c)
      BY <1>9, <2>1
    <2>5. g.parent \in ChainEntries \cup {NoEntry}
      BY <1>9, <2>2, <2>4
    <2>6. AtOf(chain, g, g.entry)
      BY <1>2, <2>1, <2>2 DEF AtOf
    <2>7. g = [entry |-> g.entry, index |-> g.index, parent |-> g.parent]
      BY <1>8, <2>1
    <2> QED
      BY <1>1, <2>2, <2>3, <2>5, <2>6, <2>7 DEF PlaceTyped
  <1>11. CASE \A i \in 1..Len(c) : c[i] \notin S
    <2>1. g.entry = NoEntry /\ g.index = h /\ g.parent = IF c = <<>> THEN NoEntry ELSE c[Len(c)]
      BY <1>6, <1>8, <1>11
    <2>2. c # <<>> => c[Len(c)] \in ChainEntries
      BY <1>3, <1>9, EmptyIsEmpty
    <2>3. ASSUME NEW n \in DOMAIN key PROVE key[n] # k
      <3> SUFFICES ASSUME key[n] = k PROVE FALSE
        OBVIOUS
      <3>1. Among(c, n) /\ n \in S
        BY <1>3, <1>4
      <3> QED
        BY <1>11, <3>1 DEF Among
    <2>4. g = [entry |-> g.entry, index |-> g.index, parent |-> g.parent]
      BY <1>6, <1>8, <1>11
    <2>5. PlaceTyped(mask, g)
      BY <1>1, <2>1, <2>2 DEF PlaceTyped
    <2> QED
      BY <1>1, <1>2, <1>9, <2>1, <2>2, <2>3, <2>4, <2>5
  <1> QED
    BY <1>10, <1>11

\* An entry allocated.
LEMMA MallocIs ==
  ASSUME NEW k, NEW n, Chn!Malloc(k, n), NEW ky, ky = key'
  PROVE  /\ n \notin DOMAIN key /\ DOMAIN ky = DOMAIN key \cup {n}
         /\ ky[n] = k /\ \A x \in DOMAIN key : ky[x] = key[x]
  <1>1. n \notin DOMAIN key /\ ky = [m \in DOMAIN key \cup {n} |-> IF m = n THEN k ELSE key[m]]
    BY DEF Chn!Malloc, Chn!Unused
  <1> QED
    BY <1>1

LEMMA GrownAtOne ==
  ASSUME NEW m \in Nat, NEW ch \in [0..m -> Seq(ChainEntries)], NEW ky, NEW n, n \notin DOMAIN ky,
         NEW h \in 0..m, NEW c,
         \A x : Among(c, x) <=> Among(ch[h], x) \/ x = n,
         \A x, y : x # n /\ y # n => (Ahead(c, x, y) <=> Ahead(ch[h], x, y)),
         NEW ch2, ch2 = [ch EXCEPT ![h] = c]
  PROVE  Grown(m, ch, ch2, ky, n)
  <1>1. ch2[h] = c /\ \A j \in 0..m : j # h => ch2[j] = ch[j]
    OBVIOUS
  <1>2. (\A j \in 0..m : \A x : Among(ch2[j], x) /\ x # n => Among(ch[j], x))
    BY ONLY <1>1, \A x : Among(c, x) <=> Among(ch[h], x) \/ x = n
  <1>3. \A j \in 0..m : \A x : Among(ch[j], x) => Among(ch2[j], x)
    BY ONLY <1>1, \A x : Among(c, x) <=> Among(ch[h], x) \/ x = n
  <1>4. \A j \in 0..m : \A x, y : x # n /\ y # n => (Ahead(ch2[j], x, y) <=> Ahead(ch[j], x, y))
    BY ONLY <1>1, \A x, y : x # n /\ y # n => (Ahead(c, x, y) <=> Ahead(ch[h], x, y))
  <1> QED
    BY <1>2, <1>3, <1>4 DEF Grown

\* An entry more in the chains leaves the snapshot and a walk sound.
LEMMA GrowsSound ==
  ASSUME ChainIInv, NEW k \in ChainKeys, NEW n, Chn!Malloc(k, n), Chn!Inserts,
         NEW ch2, ch2 = chain', Grown(mask, chain, ch2, key, n),
         NEW ky, ky = key', NEW hd2, hd2 = held', Built(mask, ch2, hd2, DOMAIN ky, ky)
  PROVE  ChainIInv'
  <1>1. /\ n \notin DOMAIN key /\ DOMAIN ky = DOMAIN key \cup {n}
        /\ \A x \in DOMAIN key : ky[x] = key[x]
    BY MallocIs
  <1>2. /\ mask' = mask /\ snap' = snap /\ place' = place /\ taken' = taken
        /\ stroll' = [stroll EXCEPT !.calm = FALSE]
    BY DEF Chn!Inserts
  <1>3. SnapSound(snap, taken, ky)
    <2>1. SnapSound(snap, taken, key)
      BY DEF ChainIInv
    <2>2. snap # Dangling => \A x : Among(snap, x) => x \in DOMAIN ky /\ ky[x] = key[x]
      BY <1>1, <2>1 DEF SnapSound, SnapHolds
    <2> QED
      BY <2>1, <2>2, SnapKept
  <1>4. PICK w : w = stroll'
    OBVIOUS
  <1>5. Strolling(mask, ch2, ky, snap, place, w)
    <2>1. mask \in Nat
      BY MaskIsNatural DEF ChainIInv
    <2>2. Built(mask, chain, held, DOMAIN key, key) /\ Strolling(mask, chain, key, snap, place, stroll)
      BY DEF ChainIInv, ChainSound
    <2>3. \A x \in DOMAIN key : x \in DOMAIN ky
      BY <1>1
    <2>4. w = [stroll EXCEPT !.calm = FALSE]
      BY <1>2, <1>4
    <2> QED
      BY <2>1, <2>2, <2>3, <2>4, StrollGrows
  <1>6. mask = Chn!Rounded(Asked) - 1
    BY DEF ChainIInv, ChainSound
  <1> QED
    BY <1>2, <1>3, <1>4, <1>5, <1>6 DEF ChainIInv, ChainSound

LEMMA InsertKeepsChains ==
  ASSUME ChainIInv, NEW k \in ChainKeys, Chn!Insert(k)
  PROVE  ChainIInv'
  <1>1. PICK n \in ChainEntries : /\ Chn!Malloc(k, n)
                                  /\ chain' = Chn!InFront(chain, Chn!Home(k), n)
                                  /\ held' = Chn!InFront(held, k, n)
    BY DEF Chn!Insert
  <1>2. Chn!Inserts
    BY DEF Chn!Insert
  <1>3. PICK ch2, hd2, ky : ch2 = chain' /\ hd2 = held' /\ ky = key'
    OBVIOUS
  <1>4. PICK h : h = HomeIn(mask, k)
    OBVIOUS
  <1>5. mask \in Nat /\ h \in 0..mask /\ Built(mask, chain, held, DOMAIN key, key)
    BY <1>4, MaskIsNatural, HomeInChains DEF ChainIInv, ChainSound
  <1>6. n \notin DOMAIN key /\ DOMAIN ky = DOMAIN key \cup {n} /\ ky[n] = k /\ \A x \in DOMAIN key : ky[x] = key[x]
    BY <1>1, <1>3, MallocIs
  <1>7. ch2 = Chn!InFront(chain, HomeIn(mask, k), n) /\ hd2 = Chn!InFront(held, k, n)
    BY <1>1, <1>3 DEF Chn!Home, HomeIn
  <1>8. Built(mask, ch2, hd2, DOMAIN ky, ky)
    BY <1>5, <1>6, <1>7, InFrontBuilt
  <1>9. chain \in [0..mask -> Seq(ChainEntries)]
    BY <1>5 DEF Built
  <1>10. PICK c : c = <<n>> \o chain[h]
    OBVIOUS
  <1>11. ch2 = [chain EXCEPT ![h] = c]
    BY <1>4, <1>7, <1>10 DEF Chn!InFront
  <1>12. /\ \A x : Among(c, x) <=> Among(chain[h], x) \/ x = n
         /\ \A x, y : x # n /\ y # n => (Ahead(c, x, y) <=> Ahead(chain[h], x, y))
    <2>1. PICK one : one = <<n>>
      OBVIOUS
    <2>2. /\ one \in Seq(ChainEntries)
          /\ \A x : Among(one, x) <=> x = n
          /\ \A x, y : ~Ahead(one, x, y)
      BY <2>1, SingleList
    <2>3. chain[h] \in Seq(ChainEntries) /\ c = one \o chain[h]
      BY <1>5, <1>9, <1>10, <2>1
    <2>4. /\ \A x : Among(c, x) <=> Among(one, x) \/ Among(chain[h], x)
          /\ \A x, y : Ahead(c, x, y) <=>
                 Ahead(one, x, y) \/ Ahead(chain[h], x, y) \/ (Among(one, x) /\ Among(chain[h], y))
      BY <2>2, <2>3, TwoLists
    <2> QED
      BY <2>2, <2>4
  <1>13. Grown(mask, chain, ch2, key, n)
    BY <1>5, <1>6, <1>9, <1>11, <1>12, GrownAtOne
  <1> QED
    BY <1>1, <1>2, <1>3, <1>8, <1>13, GrowsSound

LEMMA FindOrInsertKeepsChains ==
  ASSUME ChainIInv, NEW k \in ChainKeys, Chn!FindOrInsert(k)
  PROVE  ChainIInv'
  <1>1. PICK g, h : g = Chn!Get(k) /\ h = HomeIn(mask, k)
    OBVIOUS
  <1>2. PICK n \in ChainEntries :
            /\ Chn!Malloc(k, n)
            /\ chain' = [chain EXCEPT ![h] =
                   IF g.parent = NoEntry THEN <<n>>
                   ELSE SubSeq(chain[h], 1, Chn!Place(chain[h], {g.parent})) \o <<n>>]
            /\ held' = [held EXCEPT ![k] = <<n>>]
    BY <1>1 DEF Chn!FindOrInsert, Chn!Home, HomeIn
  <1>3. Chn!Inserts /\ g.entry = NoEntry
    BY <1>1 DEF Chn!FindOrInsert
  <1>4. PICK ch2, hd2, ky : ch2 = chain' /\ hd2 = held' /\ ky = key'
    OBVIOUS
  <1>5. mask \in Nat /\ h \in 0..mask /\ Built(mask, chain, held, DOMAIN key, key) /\ ChainSound
    BY <1>1, MaskIsNatural, HomeInChains DEF ChainIInv, ChainSound
  <1>6. n \notin DOMAIN key /\ DOMAIN ky = DOMAIN key \cup {n} /\ ky[n] = k /\ \A x \in DOMAIN key : ky[x] = key[x]
    BY <1>2, <1>4, MallocIs
  <1>7. /\ \A x \in DOMAIN key : key[x] # k
        /\ chain[h] = <<>> => g.parent = NoEntry
        /\ chain[h] # <<>> => g.parent = chain[h][Len(chain[h])] /\ g.parent # NoEntry
    BY <1>1, <1>3, <1>5, GetIs
  <1>8. /\ chain \in [0..mask -> Seq(ChainEntries)]
        /\ \A x \in DOMAIN key : x \in ChainEntries /\ key[x] \in ChainKeys
        /\ chain[h] \in Seq(ChainEntries) /\ Once(chain[h])
        /\ \A x : Among(chain[h], x) <=> x \in DOMAIN key /\ HomeIn(mask, key[x]) = h
    BY <1>5 DEF Built
  <1>9. PICK one : one = <<n>>
    OBVIOUS
  <1>10. /\ one \in Seq(ChainEntries) /\ Once(one)
         /\ \A x : Among(one, x) <=> x = n
         /\ \A x, y : ~Ahead(one, x, y)
    BY <1>9, SingleList
  <1>11. PICK c : c = chain[h] \o one
    OBVIOUS
  <1>12. (IF g.parent = NoEntry THEN one
          ELSE SubSeq(chain[h], 1, Chn!Place(chain[h], {g.parent})) \o one) = c
    <2>1. CASE chain[h] = <<>>
      <3>1. one = <<>> \o one
        BY <1>10
      <3> QED
        BY <1>7, <1>11, <2>1, <3>1
    <2>2. CASE chain[h] # <<>>
      <3>1. Len(chain[h]) \in 1..Len(chain[h])
        BY <1>8, <2>2, EmptyIsEmpty
      <3>2. Chn!Place(chain[h], {g.parent}) = Len(chain[h])
        BY <1>7, <1>8, <2>2, <3>1, PlaceOfOne
      <3>3. SubSeq(chain[h], 1, Len(chain[h])) = chain[h]
        BY <1>8
      <3> QED
        BY <1>7, <1>11, <2>2, <3>2, <3>3
    <2> QED
      BY <2>1, <2>2
  <1>13. ch2 = [chain EXCEPT ![h] = c]
    BY <1>2, <1>4, <1>9, <1>12
  <1>14. /\ c \in Seq(ChainEntries) /\ Once(c)
         /\ \A x : Among(c, x) <=> Among(chain[h], x) \/ x = n
         /\ \A x, y : Ahead(c, x, y) <=> Ahead(chain[h], x, y) \/ (Among(chain[h], x) /\ y = n)
    <2>1. \A x : ~(Among(chain[h], x) /\ Among(one, x))
      BY <1>6, <1>8, <1>10
    <2>2. /\ c \in Seq(ChainEntries) /\ Once(c)
          /\ \A x : Among(c, x) <=> Among(chain[h], x) \/ Among(one, x)
          /\ \A x, y : Ahead(c, x, y) <=>
                 Ahead(chain[h], x, y) \/ Ahead(one, x, y) \/ (Among(chain[h], x) /\ Among(one, y))
      BY <1>8, <1>10, <1>11, <2>1, TwoLists
    <2> QED
      BY <1>10, <2>2
  <1>15. Grown(mask, chain, ch2, key, n)
    <2>1. \A x, y : x # n /\ y # n => (Ahead(c, x, y) <=> Ahead(chain[h], x, y))
      BY <1>14
    <2> QED
      BY <1>5, <1>6, <1>8, <1>13, <1>14, <2>1, GrownAtOne
  <1>16. PICK S, S2 : S = DOMAIN key /\ S2 = DOMAIN ky
    OBVIOUS
  <1>17. ListsChanged(mask, k, chain, S, key, S2, ky, c, one)
    <2>1. \A x \in S2 : x \in ChainEntries /\ ky[x] \in ChainKeys
      BY <1>6, <1>8, <1>16
    <2>2. /\ \A x : x \in S2 /\ ky[x] # k <=> x \in S /\ key[x] # k
          /\ \A x \in S : key[x] # k => ky[x] = key[x]
      BY <1>6, <1>16
    <2>3. \A x : Among(c, x) <=> x \in S2 /\ HomeIn(mask, ky[x]) = h
      <3>1. HomeIn(mask, ky[n]) = h
        BY <1>1, <1>6
      <3>2. \A x \in S : HomeIn(mask, ky[x]) = HomeIn(mask, key[x])
        BY <1>6, <1>16
      <3> QED
        BY <1>6, <1>8, <1>14, <1>16, <3>1, <3>2
    <2>4. \A x : Among(one, x) <=> x \in S2 /\ ky[x] = k
      BY <1>6, <1>7, <1>10, <1>16
    <2>5. /\ \A x, y : Ahead(one, x, y) => Ahead(c, x, y)
          /\ \A x, y : Ahead(chain[h], x, y) /\ x \in S2 /\ y \in S2 => Ahead(c, x, y)
      BY <1>10, <1>14
    <2> QED
      BY <1>1, <1>10, <1>14, <2>1, <2>2, <2>3, <2>4, <2>5 DEF ListsChanged
  <1>18. Renewed(mask, k, chain, held, c, one, ch2, hd2)
    BY <1>1, <1>2, <1>4, <1>9, <1>13 DEF Renewed
  <1>19. Built(mask, chain, held, S, key)
    BY <1>5, <1>16
  <1>20. Built(mask, ch2, hd2, S2, ky)
    BY <1>5, <1>17, <1>18, <1>19, StaysBuilt
  <1> QED
    BY <1>2, <1>3, <1>4, <1>15, <1>16, <1>20, GrowsSound

\* del, of an entry the iterator is at.
LEMMA DelKeepsChains ==
  ASSUME ChainIInv, NEW itr, itr.entry \in DOMAIN key, itr.index = HomeIn(mask, key[itr.entry]),
         AtOf(chain, itr, itr.entry), Chn!Del(itr)
  PROVE  ChainIInv'
  <1>1. PICK e, k, h, c : e = itr.entry /\ k = key[e] /\ h = itr.index /\ c = chain[h]
    OBVIOUS
  <1>2. /\ mask \in Nat /\ ChainSound /\ Built(mask, chain, held, DOMAIN key, key)
        /\ e \in DOMAIN key /\ h = HomeIn(mask, k)
    BY <1>1, MaskIsNatural DEF ChainIInv, ChainSound
  <1>3. /\ chain \in [0..mask -> Seq(ChainEntries)] /\ held \in [ChainKeys -> Seq(ChainEntries)]
        /\ \A x \in DOMAIN key : x \in ChainEntries /\ key[x] \in ChainKeys
        /\ \A i \in 0..mask : Once(chain[i]) /\ \A x : Among(chain[i], x) <=> x \in DOMAIN key /\ HomeIn(mask, key[x]) = i
        /\ \A j \in ChainKeys : Once(held[j]) /\ \A x : Among(held[j], x) <=> x \in DOMAIN key /\ key[x] = j
        /\ \A j \in ChainKeys : \A x, y : Ahead(held[j], x, y) => Ahead(chain[HomeIn(mask, j)], x, y)
    BY <1>2 DEF Built
  <1>4. k \in ChainKeys /\ h \in 0..mask
    <2>1. k \in ChainKeys
      BY <1>1, <1>2, <1>3
    <2>2. HomeIn(mask, k) \in 0..mask
      BY <1>2, <2>1, HomeInChains
    <2> QED
      BY <1>2, <2>1, <2>2
  <1>5. c \in Seq(ChainEntries) /\ Once(c) /\ \A x : Among(c, x) <=> x \in DOMAIN key /\ HomeIn(mask, key[x]) = h
    BY <1>1, <1>3, <1>4
  <1>6. PICK p \in 1..Len(c) : c[p] = e /\ itr.parent = IF p = 1 THEN NoEntry ELSE c[p - 1]
    BY <1>1 DEF AtOf
  <1>7. PICK d : d = ListLess(c, p)
    OBVIOUS
  <1>8. /\ d \in Seq(ChainEntries) /\ Once(d)
        /\ \A x : Among(d, x) <=> Among(c, x) /\ x # e
        /\ \A x, y : Ahead(d, x, y) <=> Ahead(c, x, y) /\ x # e /\ y # e
    <2>1. c \in Seq(ChainEntries) /\ Once(c)
      BY <1>5
    <2>2. p \in 1..Len(c) /\ c[p] = e
      BY <1>6
    <2> QED
      BY <1>7, <2>1, <2>2, ListWithout
  <1>9. Chn!Place(c, {e}) = p
    BY <1>5, <1>6, PlaceOfOne
  <1>10. (IF itr.parent = NoEntry THEN 0 ELSE Chn!Place(c, {itr.parent})) = p - 1
    <2>1. CASE p = 1
      BY <1>6, <2>1
    <2>2. CASE p # 1
      <3>1. p - 1 \in 1..Len(c)
        BY <1>5, <2>2
      <3>2. Chn!Place(c, {c[p - 1]}) = p - 1
        BY <1>5, <3>1, PlaceOfOne
      <3>3. c[p - 1] # NoEntry
        BY <1>5, <3>1, ChainConstants
      <3> QED
        BY <1>6, <2>2, <3>2, <3>3
    <2> QED
      BY <2>1, <2>2
  <1>11. PICK ch2, hd2, ky : ch2 = chain' /\ hd2 = held' /\ ky = key'
    OBVIOUS
  <1>12. ch2 = [chain EXCEPT ![h] = d]
    BY <1>1, <1>7, <1>9, <1>10, <1>11 DEF Chn!Del, ListLess
  <1>13. ky = [n \in DOMAIN key \ {e} |-> key[n]]
    BY <1>1, <1>11 DEF Chn!Del
  <1>14. DOMAIN ky = DOMAIN key \ {e} /\ \A x \in DOMAIN ky : ky[x] = key[x]
    BY <1>13
  <1>15. PICK l : l = Chn!RemoveFirst(held[k], e)
    OBVIOUS
  <1>16. hd2 = [held EXCEPT ![k] = l]
    BY <1>1, <1>11, <1>15 DEF Chn!Del
  <1>17. /\ l \in Seq(ChainEntries) /\ Once(l)
         /\ \A x : Among(l, x) <=> Among(held[k], x) /\ x # e
         /\ \A x, y : Ahead(l, x, y) <=> Ahead(held[k], x, y) /\ x # e /\ y # e
    <2>1. held[k] \in Seq(ChainEntries) /\ Once(held[k]) /\ Among(held[k], e)
      BY <1>1, <1>2, <1>3, <1>4
    <2> QED
      BY <1>15, <2>1, RemovingFirst
  <1>18. PICK S, S2 : S = DOMAIN key /\ S2 = DOMAIN ky
    OBVIOUS
  <1>19. ListsChanged(mask, k, chain, S, key, S2, ky, d, l)
    <2>1. \A x \in S2 : x \in ChainEntries /\ ky[x] \in ChainKeys
      BY <1>3, <1>14, <1>18
    <2>2. /\ \A x : x \in S2 /\ ky[x] # k <=> x \in S /\ key[x] # k
          /\ \A x \in S : key[x] # k => ky[x] = key[x]
      BY <1>1, <1>14, <1>18
    <2>3. \A x : Among(d, x) <=> x \in S2 /\ HomeIn(mask, ky[x]) = HomeIn(mask, k)
      BY <1>2, <1>5, <1>8, <1>14, <1>18
    <2>4. \A x : Among(l, x) <=> x \in S2 /\ ky[x] = k
      BY <1>3, <1>4, <1>14, <1>17, <1>18
    <2>5. \A x, y : Ahead(l, x, y) => Ahead(d, x, y)
      BY <1>1, <1>2, <1>3, <1>4, <1>8, <1>17
    <2>6. \A x, y : Ahead(chain[HomeIn(mask, k)], x, y) /\ x \in S2 /\ y \in S2 => Ahead(d, x, y)
      BY <1>1, <1>2, <1>8, <1>14, <1>18
    <2> QED
      BY <1>8, <1>17, <2>1, <2>2, <2>3, <2>4, <2>5, <2>6 DEF ListsChanged
  <1>20. Renewed(mask, k, chain, held, d, l, ch2, hd2)
    BY <1>2, <1>12, <1>16 DEF Renewed
  <1>21. Built(mask, chain, held, S, key)
    BY <1>2, <1>18
  <1>22. Built(mask, ch2, hd2, S2, ky)
    BY <1>2, <1>4, <1>19, <1>20, <1>21, StaysBuilt
  <1>23. SnapSound(snap', taken', ky)
    <2>1. CASE snap # Dangling /\ e \in Chn!ToSet(snap)
      <3>1. snap' = Dangling
        BY <1>1, <2>1 DEF Chn!Del
      <3> QED
        BY <3>1 DEF SnapSound
    <2>2. CASE ~(snap # Dangling /\ e \in Chn!ToSet(snap))
      <3>1. snap' = snap /\ taken' = taken
        BY <1>1, <2>2 DEF Chn!Del
      <3>2. SnapSound(snap, taken, key)
        BY DEF ChainIInv
      <3>3. ASSUME snap # Dangling, NEW x, Among(snap, x) PROVE x \in DOMAIN ky /\ ky[x] = key[x]
        <4>1. snap \in Seq(ChainEntries) /\ x \in DOMAIN key
          BY <3>2, <3>3 DEF SnapSound, SnapHolds
        <4>2. x # e
          BY <2>2, <3>3, <4>1, ListsAreLined
        <4> QED
          BY <1>14, <4>1, <4>2
      <3>4. SnapSound(snap, taken, ky)
        BY <3>2, <3>3, SnapKept
      <3> QED
        BY <3>1, <3>4
    <2> QED
      BY <2>1, <2>2
  <1>24. mask' = mask /\ place' = NoEntry
    BY DEF Chn!Del
  <1>25. mask = Chn!Rounded(Asked) - 1
    BY <1>2 DEF ChainSound
  <1> QED
    BY <1>11, <1>18, <1>22, <1>23, <1>24, <1>25 DEF ChainIInv, ChainSound, Strolling

LEMMA EraseKeepsChains ==
  ASSUME ChainIInv, NEW k \in ChainKeys, Chn!Erase(k)
  PROVE  ChainIInv'
  <1>1. PICK g : g = Chn!Get(k)
    OBVIOUS
  <1>2. g.entry # NoEntry /\ Chn!Del(g)
    BY <1>1 DEF Chn!Erase
  <1>3. g.index = HomeIn(mask, k) /\ g.entry \in DOMAIN key /\ key[g.entry] = k /\ AtOf(chain, g, g.entry)
    BY <1>1, <1>2, GetIs DEF ChainIInv
  <1> QED
    BY <1>2, <1>3, DelKeepsChains

\* The iterator of a loop that has inserted nothing is at its entry.
LEMMA EraseHereKeepsChains ==
  ASSUME ChainIInv, Chn!EraseHere
  PROVE  ChainIInv'
  <1>1. /\ place # NoEntry /\ place.entry # NoEntry /\ stroll.calm /\ Chn!Del(place)
        /\ snap # <<>> => \A k \in ChainKeys : Len(held[k]) <= 1
    BY DEF Chn!EraseHere
  <1>2. /\ StrollSound(mask, chain, key, snap, place, stroll)
        /\ mask \in Nat /\ Built(mask, chain, held, DOMAIN key, key) /\ SnapSound(snap, taken, key)
    BY <1>1, MaskIsNatural DEF ChainIInv, ChainSound, Strolling
  <1>3. /\ chain \in [0..mask -> Seq(ChainEntries)] /\ held \in [ChainKeys -> Seq(ChainEntries)]
        /\ \A x \in DOMAIN key : key[x] \in ChainKeys
        /\ \A i \in 0..mask : \A x : Among(chain[i], x) <=> x \in DOMAIN key /\ HomeIn(mask, key[x]) = i
        /\ \A j \in ChainKeys : \A x : Among(held[j], x) <=> x \in DOMAIN key /\ key[x] = j
    BY <1>2 DEF Built
  <1>4. place.index \in 0..mask /\ snap # Dangling /\ stroll.calm = TRUE
    BY <1>1, <1>2 DEF StrollSound, PlaceTyped
  <1>5. place.entry \in DOMAIN key /\ place.index = HomeIn(mask, key[place.entry]) /\ AtOf(chain, place, place.entry)
    <2>1. CASE snap = <<>>
      <3>1. ThroughChains(mask, chain, key, place, stroll)
        BY <1>2, <2>1 DEF StrollSound
      <3>2. Among(chain[place.index], place.entry) /\ AtOf(chain, place, place.entry)
        BY <1>1, <1>4, <3>1 DEF ThroughChains
      <3> QED
        BY <1>3, <1>4, <3>2
    <2>2. CASE snap # <<>>
      <3>1. ThroughSnapshot(mask, chain, key, snap, place, stroll)
        BY <1>2, <2>2 DEF StrollSound
      <3>2. /\ \E p \in 1..Len(snap) : snap[p] = place.entry
            /\ place.index = HomeIn(mask, key[place.entry])
        BY <1>1, <1>4, <3>1 DEF ThroughSnapshot
      <3>3. PICK n \in DOMAIN key : key[n] = key[place.entry] /\ AtOf(chain, place, n)
        BY <1>1, <1>4, <3>1 DEF ThroughSnapshot
      <3>4. SnapHolds(snap, taken, key)
        BY <1>2, <1>4 DEF SnapSound
      <3>5. Among(snap, place.entry)
        BY <3>2 DEF Among
      <3>6. place.entry \in DOMAIN key
        BY <3>4, <3>5 DEF SnapHolds
      <3>7. n = place.entry
        <4>1. PICK k \in ChainKeys : k = key[place.entry]
          BY <1>3, <3>6
        <4>2. Among(held[k], n) /\ Among(held[k], place.entry)
          BY <1>3, <3>3, <3>6, <4>1
        <4>3. held[k] \in Seq(ChainEntries) /\ Len(held[k]) <= 1
          BY <1>1, <1>3, <2>2
        <4>4. \A i, j \in 1..Len(held[k]) : i = j
          BY <4>3
        <4> QED
          BY <4>2, <4>4 DEF Among
      <3> QED
        BY <3>2, <3>3, <3>6, <3>7
    <2> QED
      BY <2>1, <2>2
  <1> QED
    BY <1>1, <1>5, DelKeepsChains

-----------------------------------------------------------------------------
\* No snapshot.
LEMMA NoSnapshotHolds ==
  ASSUME NEW ky
  PROVE  SnapSound(<<>>, Chn!NoSnapshot, ky)
  <1>1. /\ <<>> \in Seq(ChainEntries) /\ Once(<<>>)
        /\ (\A x : ~Among(<<>>, x)) /\ \A x, y : ~Ahead(<<>>, x, y)
    BY EmptyList
  <1>2. PICK tk : tk = Chn!NoSnapshot
    OBVIOUS
  <1>3. tk = [order |-> tk.order, sorted |-> tk.sorted] /\ tk.order = <<>> /\ tk.sorted = FALSE
    BY <1>2 DEF Chn!NoSnapshot
  <1>4. SnapHolds(<<>>, tk, ky)
    BY <1>1, <1>3 DEF SnapHolds
  <1> QED
    BY <1>2, <1>4 DEF SnapSound

LEMMA ClearKeepsChains ==
  ASSUME ChainIInv, Chn!Clear
  PROVE  ChainIInv'
  <1>1. /\ mask' = mask /\ place' = NoEntry /\ chain' = Chn!EmptyChains /\ held' = Chn!NoneHeld
        /\ snap' = <<>> /\ taken' = Chn!NoSnapshot /\ key' = <<>>
    BY DEF Chn!Clear
  <1>2. mask \in Nat /\ mask = Chn!Rounded(Asked) - 1
    BY MaskIsNatural DEF ChainIInv, ChainSound
  <1>3. PICK ky, ch, hd : ky = key' /\ ch = chain' /\ hd = held'
    OBVIOUS
  <1>4. DOMAIN ky = {}
    BY <1>1, <1>3
  <1>5. Built(mask, ch, hd, DOMAIN ky, ky)
    BY <1>1, <1>2, <1>3, <1>4, NothingBuilt
  <1>6. SnapSound(snap', taken', key')
    BY <1>1, NoSnapshotHolds
  <1> QED
    BY <1>1, <1>2, <1>3, <1>5, <1>6 DEF ChainIInv, ChainSound, Strolling

LEMMA ChainInit ==
  ASSUME Chn!Init
  PROVE  ChainIInv
  <1>1. /\ mask = Chn!Rounded(Asked) - 1 /\ place = NoEntry /\ chain = Chn!EmptyChains /\ held = Chn!NoneHeld
        /\ snap = <<>> /\ taken = Chn!NoSnapshot /\ key = <<>>
    BY DEF Chn!Init
  <1>2. mask \in Nat
    BY <1>1, MaskIsRounded
  <1>3. DOMAIN key = {}
    BY <1>1
  <1>4. Built(mask, chain, held, DOMAIN key, key)
    BY <1>1, <1>2, <1>3, NothingBuilt
  <1>5. SnapSound(snap, taken, key)
    BY <1>1, NoSnapshotHolds
  <1> QED
    BY <1>1, <1>4, <1>5 DEF ChainIInv, ChainSound, Strolling
-----------------------------------------------------------------------------
\* The copy starts with no snapshot and every entry of the walk.
LEMMA CopyKeepsChains ==
  ASSUME ChainIInv, Chn!Copy
  PROVE  ChainIInv'
  <1>1. PICK met : met = IF snap # <<>> THEN snap ELSE Chn!InChains
    OBVIOUS
  <1>2. PICK u : u = CopiedFrom(met)
    OBVIOUS
  <1>3. chain' = u.chain /\ held' = u.held
    BY <1>1, <1>2 DEF Chn!Copy, CopiedFrom, OneCopied
  <1>4. /\ key' = [n \in Chn!ToSet(met) |-> key[n]]
        /\ snap' = <<>> /\ taken' = Chn!NoSnapshot /\ mask' = mask /\ place' = NoEntry /\ snap # Dangling
    BY <1>1 DEF Chn!Copy
  <1>5. ChainSound /\ mask \in Nat /\ SnapSound(snap, taken, key)
    BY MaskIsNatural DEF ChainIInv
  <1>6. met \in Seq(ChainEntries) /\ Once(met) /\ \A x : Among(met, x) => x \in DOMAIN key
    <2>1. CASE snap # <<>>
      BY <1>1, <1>4, <1>5, <2>1 DEF SnapSound, SnapHolds
    <2>2. CASE snap = <<>>
      <3>1. met = Chn!InChains
        BY <1>1, <2>2
      <3> QED
        BY <1>5, <3>1, InChainsIs
    <2> QED
      BY <2>1, <2>2
  <1>7. \A x : Among(met, x) => x \in DOMAIN key /\ key[x] \in ChainKeys
    BY <1>5, <1>6 DEF ChainSound, Built
  <1>8. Built(mask, u.chain, u.held, FirstOf(met, Len(met)), key)
    BY <1>2, <1>5, <1>6, <1>7, CopyIsBuilt
  <1>9. PICK S : S = FirstOf(met, Len(met))
    OBVIOUS
  <1>10. PICK ky : ky = key'
    OBVIOUS
  <1>11. DOMAIN ky = S /\ \A x \in S : ky[x] = key[x]
    <2>1. Chn!ToSet(met) = S
      BY <1>6, <1>9 DEF Chn!ToSet, FirstOf
    <2> QED
      BY <1>4, <1>10, <2>1
  <1>12. Built(mask, u.chain, u.held, DOMAIN ky, ky)
    <2>1. PICK ch, hd : ch = u.chain /\ hd = u.held
      OBVIOUS
    <2>2. Built(mask, ch, hd, S, key)
      BY <1>8, <1>9, <2>1
    <2>3. Built(mask, ch, hd, S, ky)
      BY <1>11, <2>2 DEF Built
    <2> QED
      BY <1>11, <2>1, <2>3
  <1>13. SnapSound(snap', taken', key')
    BY <1>4, NoSnapshotHolds
  <1>14. mask = Chn!Rounded(Asked) - 1
    BY <1>5 DEF ChainSound
  <1> QED
    BY <1>3, <1>4, <1>10, <1>12, <1>13, <1>14 DEF ChainIInv, ChainSound, Strolling

\* snap, of all the chains have.
LEMMA SnapKeepsChains ==
  ASSUME ChainIInv, Chn!Snap
  PROVE  ChainIInv'
  <1>1. PICK s : s = Chn!InChains
    OBVIOUS
  <1>2. /\ snap' = IF s = <<>> THEN snap ELSE s
        /\ taken' = IF s = <<>> THEN taken ELSE [order |-> s, sorted |-> FALSE]
        /\ mask' = mask /\ chain' = chain /\ key' = key /\ held' = held /\ stroll' = stroll
        /\ place' = NoEntry
    BY <1>1 DEF Chn!Snap
  <1>3. ChainSound /\ SnapSound(snap, taken, key)
    BY DEF ChainIInv
  <1>4. s \in Seq(ChainEntries) /\ Once(s) /\ \A x : Among(s, x) <=> x \in DOMAIN key
    BY <1>1, <1>3, InChainsIs
  <1>5. SnapSound(snap', taken', key)
    <2>1. CASE s = <<>>
      BY <1>2, <1>3, <2>1
    <2>2. CASE s # <<>>
      <3>1. PICK tk : tk = [order |-> s, sorted |-> FALSE]
        OBVIOUS
      <3>2. tk = [order |-> tk.order, sorted |-> tk.sorted] /\ tk.order = s /\ tk.sorted = FALSE
        BY <3>1
      <3>3. SnapHolds(s, tk, key)
        BY <1>4, <3>2 DEF SnapHolds
      <3> QED
        BY <1>2, <2>2, <3>1, <3>3 DEF SnapSound
    <2> QED
      BY <2>1, <2>2
  <1>6. ChainSound'
    BY <1>2, <1>3 DEF ChainSound
  <1> QED
    BY <1>2, <1>5, <1>6 DEF ChainIInv, Strolling

LEMMA SortKeepsChains ==
  ASSUME ChainIInv, Chn!Sort
  PROVE  ChainIInv'
  <1>1. /\ mask' = mask /\ chain' = chain /\ key' = key /\ held' = held /\ stroll' = stroll
        /\ place' = NoEntry /\ snap # Dangling
        /\ taken' = [taken EXCEPT !.sorted = snap # <<>>]
    BY DEF Chn!Sort
  <1>2. ChainSound /\ SnapHolds(snap, taken, key)
    BY <1>1 DEF ChainIInv, SnapSound
  <1>3. /\ snap \in Seq(ChainEntries) /\ Once(snap)
        /\ taken = [order |-> taken.order, sorted |-> taken.sorted]
        /\ taken.order \in Seq(ChainEntries) /\ Once(taken.order)
        /\ \A x : Among(snap, x) <=> Among(taken.order, x)
        /\ \A x : Among(snap, x) => x \in DOMAIN key
        /\ \A x, y : Ahead(snap, x, y) /\ key[x] = key[y] => Ahead(taken.order, x, y)
    BY <1>2 DEF SnapHolds
  <1>4. SnapReady
    <2>1. \A x \in DOMAIN key : key[x] \in Nat
      BY <1>2, ChainConstants DEF ChainSound, Built
    <2> QED
      BY <1>3, <2>1 DEF SnapReady
  <1>5. PICK t, tk : t = snap' /\ tk = taken'
    OBVIOUS
  <1>6. InOrder(t) /\ \A x : Among(t, x) <=> Among(snap, x)
    BY <1>4, <1>5, SortIs
  <1>7. /\ t \in Seq(ChainEntries) /\ Once(t)
        /\ \A x, y : Ahead(t, x, y) => key[x] < key[y] \/ (key[x] = key[y] /\ Ahead(snap, x, y))
    BY <1>6 DEF InOrder, Comes
  <1>8. t = <<>> <=> snap = <<>>
    BY <1>3, <1>6, <1>7, EmptyIsEmpty
  <1>9. tk = [order |-> taken.order, sorted |-> snap # <<>>]
    BY <1>1, <1>3, <1>5
  <1>10. /\ tk = [order |-> tk.order, sorted |-> tk.sorted] /\ tk.order = taken.order
         /\ tk.sorted \in BOOLEAN /\ (snap # <<>> => tk.sorted = TRUE)
    BY <1>9
  <1>11. \A x, y : Ahead(t, x, y) /\ key[x] = key[y] => Ahead(taken.order, x, y)
    <2> SUFFICES ASSUME NEW x, NEW y, Ahead(t, x, y), key[x] = key[y] PROVE Ahead(taken.order, x, y)
      OBVIOUS
    <2>1. Among(t, x) /\ Among(t, y)
      BY <1>7, AheadIsOrder
    <2>2. key[x] \in Nat
      BY <1>4, <1>6, <2>1 DEF SnapReady
    <2>3. ~(key[x] < key[y])
      BY <2>2
    <2>4. Ahead(snap, x, y)
      BY <1>7, <2>3
    <2> QED
      BY <1>3, <2>4
  <1>12. \A x, y : Ahead(t, x, y) => key[x] < key[y] \/ key[x] = key[y]
    BY <1>7
  <1>13. SnapHolds(t, tk, key)
    BY <1>3, <1>6, <1>7, <1>8, <1>10, <1>11, <1>12 DEF SnapHolds
  <1>14. SnapSound(t, tk, key)
    BY <1>13 DEF SnapSound
  <1>15. ChainSound'
    BY <1>1, <1>2 DEF ChainSound
  <1> QED
    BY <1>1, <1>5, <1>14, <1>15 DEF ChainIInv, Strolling

-----------------------------------------------------------------------------
\* Iterators.  it is the next after what was met, and before it is R.
MovesTo(m, ch, R, it) ==
    /\ PlaceTyped(m, it)
    /\ it.entry = NoEntry => R = {}
    /\ it.entry # NoEntry =>
        /\ Among(ch[it.index], it.entry) /\ AtOf(ch, it, it.entry)
        /\ ~Beyond(m, ch, it, it.entry)
        /\ \A x : x \in R <=> x = it.entry \/ Beyond(m, ch, it, x)

\* What the chains from i on have.
From(m, ch, i) == UNION {{ch[j][p] : p \in 1..Len(ch[j])} : j \in i..m}

\* At an entry of a chain.
LEMMA AtIs ==
  ASSUME NEW m \in Nat, NEW ch, NEW hd, NEW S, NEW ky, Built(m, ch, hd, S, ky),
         NEW i \in 0..m, NEW p \in 1..Len(ch[i]), NEW it,
         it = [entry |-> ch[i][p], index |-> i, parent |-> IF p = 1 THEN NoEntry ELSE ch[i][p - 1]],
         NEW R, \A x : x \in R <=> (\E q \in p..Len(ch[i]) : ch[i][q] = x) \/ x \in From(m, ch, i + 1)
  PROVE  MovesTo(m, ch, R, it) /\ it.entry # NoEntry /\ it.entry \in S
  <1>1. PICK c, e : c = ch[i] /\ e = ch[i][p]
    OBVIOUS
  <1>2. it.entry = e /\ it.index = i /\ it.parent = IF p = 1 THEN NoEntry ELSE c[p - 1]
    BY <1>1
  <1>3. /\ c \in Seq(ChainEntries) /\ Once(c) /\ ch \in [0..m -> Seq(ChainEntries)]
        /\ \A j \in 0..m : \A x : Among(ch[j], x) <=> x \in S /\ HomeIn(m, ky[x]) = j
    BY <1>1 DEF Built
  <1>4. Len(c) \in Nat /\ p \in 1..Len(c) /\ c[p] = e /\ \A q \in 1..Len(c) : c[q] \in ChainEntries
    BY <1>1, <1>3
  <1>5. e \in ChainEntries /\ e # NoEntry /\ Among(c, e) /\ e \in S
    <2>1. e \in ChainEntries /\ Among(c, e)
      BY <1>4 DEF Among
    <2> QED
      BY <1>1, <1>3, <2>1, ChainConstants
  <1>6. p # 1 => p - 1 \in 1..Len(c)
    BY <1>4
  <1>7. PlaceTyped(m, it)
    BY <1>2, <1>4, <1>5, <1>6 DEF PlaceTyped
  <1>8. AtOf(ch, it, it.entry)
    BY <1>1, <1>2, <1>4 DEF AtOf
  <1>9. \A x : x \in From(m, ch, i + 1) <=> \E j \in 0..m : j > i /\ Among(ch[j], x)
    <2>1. \A j : j \in i + 1..m <=> j \in 0..m /\ j > i
      OBVIOUS
    <2>2. \A x : x \in From(m, ch, i + 1) <=> \E j \in i + 1..m : Among(ch[j], x)
      BY DEF From, Among
    <2> QED
      BY <2>1, <2>2
  <1>10. \A x : Beyond(m, ch, it, x) <=> Ahead(c, e, x) \/ x \in From(m, ch, i + 1)
    BY <1>1, <1>2, <1>5, <1>9 DEF Beyond
  <1>11. \A x : Ahead(c, e, x) <=> \E q \in p + 1..Len(c) : c[q] = x
    <2>1. \A q \in 1..Len(c) : c[q] = e => q = p
      BY <1>3, <1>4 DEF Once
    <2>2. \A q : q \in p + 1..Len(c) <=> q \in 1..Len(c) /\ p < q
      BY <1>4
    <2> QED
      BY <1>4, <2>1, <2>2 DEF Ahead
  <1>12. \A q : q \in p..Len(c) <=> q = p \/ q \in p + 1..Len(c)
    BY <1>4
  <1>13. \A x : x \in R <=> x = e \/ Beyond(m, ch, it, x)
    <2>1. \A x : x \in R <=> (\E q \in p..Len(c) : c[q] = x) \/ x \in From(m, ch, i + 1)
      BY <1>1
    <2>2. \A x : (\E q \in p..Len(c) : c[q] = x) <=> x = e \/ Ahead(c, e, x)
      BY <1>4, <1>11, <1>12
    <2> QED
      BY <1>10, <2>1, <2>2
  <1>14. ~Beyond(m, ch, it, e)
    <2>1. ~Ahead(c, e, e)
      BY <1>3, AheadIsOrder
    <2>2. e \notin From(m, ch, i + 1)
      <3> SUFFICES ASSUME NEW j \in 0..m, j > i, Among(ch[j], e) PROVE FALSE
        BY <1>9
      <3>1. j = i
        BY <1>1, <1>3, <1>5
      <3> QED
        BY <3>1
    <2> QED
      BY <1>10, <2>1, <2>2
  <1> QED
    BY <1>1, <1>2, <1>5, <1>7, <1>8, <1>13, <1>14 DEF MovesTo

LEMMA FromOnIs ==
  ASSUME ChainSound, NEW i \in Nat, i <= mask + 1, NEW it, it = Chn!FromOn(i),
         NEW R, R = From(mask, chain, i)
  PROVE  MovesTo(mask, chain, R, it) /\ (it.entry # NoEntry => it.entry \in DOMAIN key)
  <1>1. mask \in Nat /\ Built(mask, chain, held, DOMAIN key, key)
    BY MaskIsNatural DEF ChainSound
  <1>2. chain \in [0..mask -> Seq(ChainEntries)]
    BY <1>1 DEF Built
  <1> DEFINE full == {j \in i..mask : chain[j] # <<>>}
             least == CHOOSE j \in full : \A l \in full : j <= l
  <1>3. it = IF full = {} THEN Chn!AtEnd ELSE Chn!At(least, 1)
    BY DEF Chn!FromOn
  <1>4. CASE full = {}
    <2>1. it.entry = NoEntry /\ it.index = 0 /\ it.parent = NoEntry
      BY <1>3, <1>4 DEF Chn!AtEnd
    <2>2. \A j \in i..mask : j \in 0..mask
      BY <1>1
    <2>3. \A j \in i..mask : 1..Len(chain[j]) = {}
      BY <1>4
    <2>4. \A j \in i..mask : {chain[j][p] : p \in 1..Len(chain[j])} = {}
      BY <2>3
    <2>5. R = {}
      BY <2>4 DEF From
    <2>6. PlaceTyped(mask, it)
      BY <1>1, <2>1 DEF PlaceTyped
    <2> QED
      BY <2>1, <2>5, <2>6 DEF MovesTo
  <1>5. CASE full # {}
    <2>1. least \in full /\ \A l \in full : least <= l
      <3>1. full \in SUBSET Nat
        BY <1>1
      <3>2. \E j \in full : \A l \in full : ~(l < j)
        BY <1>5, <3>1, LeastNatural
      <3>3. \E j \in full : \A l \in full : j <= l
        BY <3>1, <3>2
      <3> QED
        BY <3>3
    <2> HIDE DEF least
    <2>2. least \in 0..mask /\ i <= least /\ chain[least] # <<>> /\ chain[least] \in Seq(ChainEntries)
      BY <1>1, <1>2, <2>1
    <2>3. ASSUME NEW j \in i..least - 1 PROVE chain[j] = <<>>
      <3>1. j \in i..mask /\ ~(least <= j)
        BY <1>1, <2>2
      <3> QED
        BY <2>1, <3>1
    <2>4. it = [entry |-> chain[least][1], index |-> least,
                parent |-> IF 1 = 1 THEN NoEntry ELSE chain[least][1 - 1]]
      BY <1>3, <1>5 DEF Chn!At
    <2>5. 1 \in 1..Len(chain[least])
      BY <2>2, EmptyIsEmpty
    <2>6. \A x : x \in R <=> (\E q \in 1..Len(chain[least]) : chain[least][q] = x) \/ x \in From(mask, chain, least + 1)
      <3>1. \A j : j \in i..mask <=> j \in i..least - 1 \/ j = least \/ j \in least + 1..mask
        BY <1>1, <2>2
      <3>2. \A x : x \in R <=> \E j \in i..mask : \E q \in 1..Len(chain[j]) : chain[j][q] = x
        BY DEF From
      <3>3. \A x : x \in From(mask, chain, least + 1) <=>
                       \E j \in least + 1..mask : \E q \in 1..Len(chain[j]) : chain[j][q] = x
        BY DEF From
      <3>4. \A j \in i..least - 1 : \A q : q \notin 1..Len(chain[j])
        BY <2>3
      <3> QED
        BY <3>1, <3>2, <3>3, <3>4
    <2>7. MovesTo(mask, chain, R, it) /\ it.entry # NoEntry /\ it.entry \in DOMAIN key
      BY <1>1, <2>2, <2>4, <2>5, <2>6, AtIs
    <2> QED
      BY <2>7
  <1> QED
    BY <1>4, <1>5

\* One entry more is met.
LEMMA MeetsNext ==
  ASSUME NEW m \in Nat, NEW ch, NEW ky, NEW it, NEW w, ThroughChains(m, ch, ky, it, w),
         \A x \in DOMAIN ky : x \in ChainEntries,
         NEW R, \A x : x \in R <=> Beyond(m, ch, it, x),
         NEW it2, MovesTo(m, ch, R, it2), it2.entry # NoEntry => it2.entry \in DOMAIN ky,
         NEW w2, w2.met = w.met \o Chn!Meets(it2), w2.whole = w.whole
  PROVE  ThroughChains(m, ch, ky, it2, w2)
  <1>1. PICK met, met2, e : met = w.met /\ met2 = w2.met /\ e = it2.entry
    OBVIOUS
  <1>2. /\ met \in Seq(ChainEntries) /\ Once(met)
        /\ \A x : Among(met, x) => x \in DOMAIN ky /\ x \notin R
        /\ \A x \in w2.whole : Among(met, x) \/ x \in R
    BY <1>1 DEF ThroughChains
  <1>3. CASE e = NoEntry
    <2>1. R = {}
      BY <1>1, <1>3 DEF MovesTo
    <2>2. met2 = met
      <3>1. met2 = met \o <<>>
        BY <1>1, <1>3 DEF Chn!Meets
      <3> QED
        BY <1>2, <3>1
    <2>3. \A x : ~Beyond(m, ch, it2, x)
      BY <1>1, <1>3 DEF Beyond
    <2> QED
      BY <1>1, <1>2, <1>3, <2>1, <2>2, <2>3 DEF ThroughChains
  <1>4. CASE e # NoEntry
    <2>1. /\ Among(ch[it2.index], e) /\ AtOf(ch, it2, e)
          /\ ~Beyond(m, ch, it2, e)
          /\ \A x : x \in R <=> x = e \/ Beyond(m, ch, it2, x)
      BY <1>1, <1>4 DEF MovesTo
    <2>2. e \in ChainEntries /\ e \in DOMAIN ky /\ e \in R
      BY <1>1, <1>4, <2>1
    <2>3. PICK one : one = <<e>>
      OBVIOUS
    <2>4. /\ one \in Seq(ChainEntries) /\ Once(one)
          /\ \A x : Among(one, x) <=> x = e
      BY <2>2, <2>3, SingleList
    <2>5. met2 = met \o one
      BY <1>1, <1>4, <2>3 DEF Chn!Meets
    <2>6. \A x : ~(Among(met, x) /\ Among(one, x))
      BY <1>2, <2>2, <2>4
    <2>7. /\ met2 \in Seq(ChainEntries) /\ Once(met2)
          /\ \A x : Among(met2, x) <=> Among(met, x) \/ Among(one, x)
      BY <1>2, <2>4, <2>5, <2>6, TwoLists
    <2>8. \A x : Among(met2, x) => x \in DOMAIN ky /\ ~Beyond(m, ch, it2, x)
      BY <1>2, <2>1, <2>2, <2>4, <2>7
    <2>9. \A x \in w2.whole : Among(met2, x) \/ Beyond(m, ch, it2, x)
      BY <1>2, <2>1, <2>4, <2>7
    <2> QED
      BY <1>1, <2>1, <2>7, <2>8, <2>9 DEF ThroughChains
  <1> QED
    BY <1>3, <1>4

\* At an entry of the snapshot.
LEMMA InSnapshotIs ==
  ASSUME ChainSound, NEW n \in DOMAIN key, NEW it, it = Chn!InSnapshot(n)
  PROVE  /\ it.entry = n /\ it.entry # NoEntry /\ PlaceTyped(mask, it)
         /\ it.index = HomeIn(mask, key[n])
         /\ \E x \in DOMAIN key : key[x] = key[n] /\ AtOf(chain, it, x)
  <1>1. n \in ChainEntries /\ key[n] \in ChainKeys
    BY DEF ChainSound, Built
  <1>2. PICK g, h : g = Chn!Get(key[n]) /\ h = HomeIn(mask, key[n])
    OBVIOUS
  <1>3. it = [g EXCEPT !.entry = n]
    BY <1>2 DEF Chn!InSnapshot
  <1>4. /\ h \in 0..mask /\ g.index = h /\ PlaceTyped(mask, g)
        /\ g = [entry |-> g.entry, index |-> g.index, parent |-> g.parent]
        /\ g.entry # NoEntry => g.entry \in DOMAIN key /\ key[g.entry] = key[n] /\ AtOf(chain, g, g.entry)
        /\ g.entry = NoEntry => \A x \in DOMAIN key : key[x] # key[n]
    BY <1>1, <1>2, GetIs
  <1>5. it.entry = n /\ it.index = h /\ it.parent = g.parent
    BY <1>3, <1>4
  <1>6. g.entry \in DOMAIN key /\ key[g.entry] = key[n] /\ AtOf(chain, g, g.entry)
    BY <1>4
  <1>7. AtOf(chain, it, g.entry)
    BY <1>4, <1>5, <1>6 DEF AtOf
  <1>8. PlaceTyped(mask, it)
    BY <1>1, <1>4, <1>5 DEF PlaceTyped
  <1>9. n # NoEntry
    BY <1>1, ChainConstants
  <1> QED
    BY <1>2, <1>5, <1>6, <1>7, <1>8, <1>9

\* A walk that goes on leaves all else.
LEMMA WalksOn ==
  ASSUME ChainIInv, UNCHANGED <<mask, chain, snap, key, held, taken>>,
         NEW it, it = place', NEW w, w = stroll', Strolling(mask, chain, key, snap, it, w)
  PROVE  ChainIInv'
  <1>1. mask' = mask /\ chain' = chain /\ snap' = snap /\ key' = key /\ held' = held /\ taken' = taken
    OBVIOUS
  <1> QED
    BY <1>1 DEF ChainIInv, ChainSound

LEMMA BeginKeepsChains ==
  ASSUME ChainIInv, Chn!Begin
  PROVE  ChainIInv'
  <1>1. PICK it, w, whole : it = Chn!First /\ whole = Chn!ToSet(Chn!InChains)
                            /\ w = [whole |-> whole, met |-> Chn!Meets(it), calm |-> TRUE]
    OBVIOUS
  <1>2. /\ place' = it /\ stroll' = w /\ snap # Dangling
        /\ UNCHANGED <<mask, chain, snap, key, held, taken>>
    BY <1>1 DEF Chn!Begin
  <1>3. w = [whole |-> w.whole, met |-> w.met, calm |-> w.calm] /\ w.calm \in BOOLEAN
        /\ w.whole = whole /\ w.met = Chn!Meets(it)
    BY <1>1
  <1>4. ChainSound /\ mask \in Nat /\ SnapHolds(snap, taken, key)
    BY <1>2, MaskIsNatural DEF ChainIInv, SnapSound
  <1>5. snap \in Seq(ChainEntries) /\ \A x : Among(snap, x) => x \in DOMAIN key
    BY <1>4 DEF SnapHolds
  <1>6. ASSUME snap # <<>> PROVE PlaceTyped(mask, it) /\ ThroughSnapshot(mask, chain, key, snap, it, w)
    <2>1. PICK n : n = Head(snap)
      OBVIOUS
    <2>2. Len(snap) \in Nat \ {0} /\ n = snap[1] /\ n \in DOMAIN key
      BY <1>5, <1>6, <2>1, EmptyIsEmpty
    <2>3. it = Chn!InSnapshot(n)
      BY <1>1, <1>6, <2>1 DEF Chn!First
    <2>4. /\ it.entry = n /\ it.entry # NoEntry /\ PlaceTyped(mask, it)
          /\ it.index = HomeIn(mask, key[n])
          /\ \E x \in DOMAIN key : key[x] = key[n] /\ AtOf(chain, it, x)
      BY <1>4, <2>2, <2>3, InSnapshotIs
    <2>5. w.met = <<n>>
      BY <1>3, <2>4 DEF Chn!Meets
    <2>6. 1 \in 1..Len(snap) /\ SubSeq(snap, 1, 1) = <<n>>
      <3>1. 1 \in 1..Len(snap) /\ 1 - 1 = 0 /\ n \in ChainEntries
        BY <1>5, <2>2
      <3>2. PICK s : s = SubSeq(snap, 1, 1)
        OBVIOUS
      <3>3. s \in Seq(ChainEntries) /\ Len(s) = 1 /\ s[1] = n
        BY <1>5, <2>2, <3>1, <3>2
      <3>4. <<n>> \in Seq(ChainEntries) /\ Len(<<n>>) = 1 /\ <<n>>[1] = n
        BY <3>1
      <3>5. \A i \in 1..Len(s) : s[i] = <<n>>[i]
        BY <3>3, <3>4
      <3>6. s = <<n>>
        BY <3>3, <3>4, <3>5, SeqEqual
      <3> QED
        BY <3>1, <3>2, <3>6
    <2> QED
      BY <2>2, <2>4, <2>5, <2>6 DEF ThroughSnapshot
  <1>7. ASSUME snap = <<>> PROVE PlaceTyped(mask, it) /\ ThroughChains(mask, chain, key, it, w)
    <2>1. PICK R : R = From(mask, chain, 0)
      OBVIOUS
    <2>2. it = Chn!FromOn(0)
      BY <1>1, <1>7 DEF Chn!First
    <2>3. 0 \in Nat /\ 0 <= mask + 1
      BY <1>4
    <2>4. MovesTo(mask, chain, R, it) /\ (it.entry # NoEntry => it.entry \in DOMAIN key)
      BY <1>4, <2>1, <2>2, <2>3, FromOnIs
    <2>5. \A x : x \in R <=> x \in DOMAIN key
      <3>1. \A x : x \in R <=> \E j \in 0..mask : Among(chain[j], x)
        BY <2>1 DEF From, Among
      <3>2. /\ \A x \in DOMAIN key : key[x] \in ChainKeys
            /\ \A j \in 0..mask : \A x : Among(chain[j], x) <=> x \in DOMAIN key /\ HomeIn(mask, key[x]) = j
        BY <1>4 DEF ChainSound, Built
      <3>3. \A x \in DOMAIN key : HomeIn(mask, key[x]) \in 0..mask
        BY <1>4, <3>2, HomeInChains
      <3> QED
        BY <3>1, <3>2, <3>3
    <2>6. \A x : x \in whole <=> x \in DOMAIN key
      <3>1. PICK s : s = Chn!InChains
        OBVIOUS
      <3>2. s \in Seq(ChainEntries) /\ \A x : Among(s, x) <=> x \in DOMAIN key
        BY <1>4, <3>1, InChainsIs
      <3>3. \A x : x \in Chn!ToSet(s) <=> Among(s, x)
        BY <3>2, ListsAreLined
      <3> QED
        BY <1>1, <3>1, <3>2, <3>3
    <2>7. CASE it.entry = NoEntry
      <3>1. w.met = <<>> /\ R = {}
        BY <1>3, <2>4, <2>7 DEF Chn!Meets, MovesTo
      <3>2. \A x : x \notin w.whole
        BY <1>3, <2>5, <2>6, <3>1
      <3> QED
        BY <2>4, <2>7, <3>1, <3>2, EmptyList DEF ThroughChains, MovesTo
    <2>8. CASE it.entry # NoEntry
      <3>1. /\ Among(chain[it.index], it.entry) /\ AtOf(chain, it, it.entry)
            /\ ~Beyond(mask, chain, it, it.entry)
            /\ \A x : x \in R <=> x = it.entry \/ Beyond(mask, chain, it, x)
        BY <2>4, <2>8 DEF MovesTo
      <3>2. it.entry \in ChainEntries
        BY <2>4, <2>8 DEF MovesTo, PlaceTyped
      <3>3. PICK one : one = <<it.entry>>
        OBVIOUS
      <3>4. one \in Seq(ChainEntries) /\ Once(one) /\ \A x : Among(one, x) <=> x = it.entry
        BY <3>2, <3>3, SingleList
      <3>5. w.met = one
        BY <1>3, <2>8, <3>3 DEF Chn!Meets
      <3>6. \A x \in w.whole : Among(w.met, x) \/ Beyond(mask, chain, it, x)
        BY <1>3, <2>5, <2>6, <3>1, <3>4, <3>5
      <3>7. \A x : Among(w.met, x) => x \in DOMAIN key /\ ~Beyond(mask, chain, it, x)
        BY <2>4, <2>8, <3>1, <3>4, <3>5
      <3> QED
        BY <2>4, <3>1, <3>4, <3>5, <3>6, <3>7 DEF ThroughChains, MovesTo
    <2> QED
      BY <2>7, <2>8
  <1>8. Strolling(mask, chain, key, snap, it, w)
    BY <1>2, <1>3, <1>6, <1>7 DEF Strolling, StrollSound
  <1> QED
    BY <1>2, <1>8, WalksOn

LEMMA IncrementKeepsChains ==
  ASSUME ChainIInv, Chn!Increment
  PROVE  ChainIInv'
  <1>1. PICK it, w : it = Chn!Following /\ w = [stroll EXCEPT !.met = stroll.met \o Chn!Meets(it)]
    OBVIOUS
  <1>2. /\ place # NoEntry /\ place.entry # NoEntry
        /\ place' = it /\ stroll' = w
        /\ UNCHANGED <<mask, chain, snap, key, held, taken>>
    BY <1>1 DEF Chn!Increment
  <1>3. /\ StrollSound(mask, chain, key, snap, place, stroll)
        /\ ChainSound /\ mask \in Nat /\ Built(mask, chain, held, DOMAIN key, key)
    BY <1>2, MaskIsNatural DEF ChainIInv, ChainSound, Strolling
  <1>4. /\ snap # Dangling /\ PlaceTyped(mask, place)
        /\ stroll = [whole |-> stroll.whole, met |-> stroll.met, calm |-> stroll.calm]
        /\ stroll.calm \in BOOLEAN
    BY <1>3 DEF StrollSound
  <1>5. /\ w = [whole |-> w.whole, met |-> w.met, calm |-> w.calm] /\ w.calm \in BOOLEAN
        /\ w.whole = stroll.whole /\ w.met = stroll.met \o Chn!Meets(it)
    BY <1>1, <1>4
  <1>6. SnapHolds(snap, taken, key)
    BY <1>4 DEF ChainIInv, SnapSound
  <1>7. snap \in Seq(ChainEntries) /\ Once(snap) /\ \A x : Among(snap, x) => x \in DOMAIN key
    BY <1>6 DEF SnapHolds
  <1>8. PICK e, i : e = place.entry /\ i = place.index
    OBVIOUS
  <1>9. e \in ChainEntries /\ e # NoEntry /\ i \in 0..mask
    BY <1>2, <1>4, <1>8 DEF PlaceTyped
  <1>10. ASSUME snap # <<>> PROVE PlaceTyped(mask, it) /\ ThroughSnapshot(mask, chain, key, snap, it, w)
    <2>1. PICK p \in 1..Len(snap) : snap[p] = e /\ stroll.met = SubSeq(snap, 1, p)
      BY <1>2, <1>3, <1>8, <1>10 DEF StrollSound, ThroughSnapshot
    <2>2. Len(snap) \in Nat
      BY <1>7
    <2>3. it = IF e = snap[Len(snap)] THEN Chn!AtEnd ELSE Chn!InSnapshot(snap[Chn!Place(snap, {e}) + 1])
      BY <1>1, <1>8, <1>10 DEF Chn!Following, Chn!Last
    <2>4. CASE e = snap[Len(snap)]
      <3>1. it.entry = NoEntry /\ it.index = 0 /\ it.parent = NoEntry
        BY <2>3, <2>4 DEF Chn!AtEnd
      <3>2. p = Len(snap)
        <4>1. Len(snap) \in 1..Len(snap) /\ snap[p] = snap[Len(snap)]
          BY <2>1, <2>2, <2>4
        <4> QED
          BY <1>7, <4>1 DEF Once
      <3>3. stroll.met = snap
        BY <1>7, <2>1, <3>2
      <3>4. w.met = snap \o <<>>
        BY <1>5, <3>1, <3>3 DEF Chn!Meets
      <3>5. w.met = snap
        BY <1>7, <3>4
      <3> QED
        BY <1>3, <3>1, <3>5 DEF ThroughSnapshot, PlaceTyped
    <2>5. CASE e # snap[Len(snap)]
      <3>1. Chn!Place(snap, {e}) = p
        BY <1>7, <2>1, PlaceOfOne
      <3>2. p + 1 \in 1..Len(snap)
        BY <2>1, <2>2, <2>5
      <3>3. PICK n : n = snap[p + 1]
        OBVIOUS
      <3>4. n \in DOMAIN key
        BY <1>7, <3>2, <3>3 DEF Among
      <3>5. it = Chn!InSnapshot(n)
        BY <2>3, <2>5, <3>1, <3>3
      <3>6. /\ it.entry = n /\ it.entry # NoEntry /\ PlaceTyped(mask, it)
            /\ it.index = HomeIn(mask, key[n])
            /\ \E x \in DOMAIN key : key[x] = key[n] /\ AtOf(chain, it, x)
        BY <1>3, <3>4, <3>5, InSnapshotIs
      <3>7. w.met = SubSeq(snap, 1, p) \o <<n>>
        BY <1>5, <2>1, <3>6 DEF Chn!Meets
      <3>8. SubSeq(snap, 1, p) \o <<n>> = SubSeq(snap, 1, p + 1)
        BY <1>7, <2>1, <2>2, <3>2, <3>3
      <3>9. snap[p + 1] = it.entry /\ w.met = SubSeq(snap, 1, p + 1)
        BY <3>3, <3>6, <3>7, <3>8
      <3> QED
        BY <3>2, <3>6, <3>9 DEF ThroughSnapshot
    <2> QED
      BY <2>4, <2>5
  <1>11. ASSUME snap = <<>> PROVE PlaceTyped(mask, it) /\ ThroughChains(mask, chain, key, it, w)
    <2>1. ThroughChains(mask, chain, key, place, stroll)
      BY <1>3, <1>11 DEF StrollSound
    <2>2. /\ chain \in [0..mask -> Seq(ChainEntries)]
          /\ \A x \in DOMAIN key : x \in ChainEntries
          /\ \A j \in 0..mask : Once(chain[j]) /\ \A x : Among(chain[j], x) => x \in DOMAIN key
      BY <1>3 DEF Built
    <2>3. PICK c : c = chain[i]
      OBVIOUS
    <2>4. c \in Seq(ChainEntries) /\ Once(c) /\ Len(c) \in Nat
      BY <1>9, <2>2, <2>3
    <2>5. Among(c, e)
      BY <1>2, <1>8, <2>1, <2>3 DEF ThroughChains
    <2>6. PICK p \in 1..Len(c) : c[p] = e
      BY <2>5 DEF Among
    <2>7. PICK R : R = {x \in DOMAIN key : Beyond(mask, chain, place, x)}
      OBVIOUS
    <2>8. \A x : Beyond(mask, chain, place, x) => x \in DOMAIN key
      <3>1. \A x : Ahead(c, e, x) => Among(c, x)
        BY <2>4, AheadIsOrder
      <3> QED
        BY <1>8, <1>9, <2>2, <2>3, <3>1 DEF Beyond
    <2>9. \A x : x \in R <=> Beyond(mask, chain, place, x)
      BY <2>7, <2>8
    <2>10. \A x : x \in From(mask, chain, i + 1) <=> \E j \in 0..mask : j > i /\ Among(chain[j], x)
      <3>1. \A j : j \in i + 1..mask <=> j \in 0..mask /\ j > i
        BY <1>3, <1>9
      <3>2. \A x : x \in From(mask, chain, i + 1) <=> \E j \in i + 1..mask : Among(chain[j], x)
        BY DEF From, Among
      <3> QED
        BY <3>1, <3>2
    <2>11. \A x : x \in R <=> Ahead(c, e, x) \/ x \in From(mask, chain, i + 1)
      BY <1>8, <1>9, <2>3, <2>9, <2>10 DEF Beyond
    <2>12. \A x : Ahead(c, e, x) <=> \E q \in p + 1..Len(c) : c[q] = x
      <3>1. \A q \in 1..Len(c) : c[q] = e => q = p
        BY <2>4, <2>6 DEF Once
      <3>2. \A q : q \in p + 1..Len(c) <=> q \in 1..Len(c) /\ p < q
        BY <2>4
      <3> QED
        BY <2>4, <2>6, <3>1, <3>2 DEF Ahead
    <2>13. it = IF e # c[Len(c)] THEN Chn!At(i, Chn!Place(c, {e}) + 1) ELSE Chn!FromOn(i + 1)
      BY <1>1, <1>8, <1>11, <2>3 DEF Chn!Following, Chn!Last
    <2>14. MovesTo(mask, chain, R, it) /\ (it.entry # NoEntry => it.entry \in DOMAIN key)
      <3>1. CASE e # c[Len(c)]
        <4>1. Chn!Place(c, {e}) = p
          BY <2>4, <2>6, PlaceOfOne
        <4>2. PICK q \in 1..Len(c) : q = p + 1
          BY <2>4, <2>6, <3>1
        <4>3. it = [entry |-> chain[i][q], index |-> i, parent |-> IF q = 1 THEN NoEntry ELSE chain[i][q - 1]]
          BY <2>13, <3>1, <4>1, <4>2 DEF Chn!At
        <4>4. q \in 1..Len(chain[i])
          BY <2>3
        <4>5. \A x : x \in R <=> (\E l \in q..Len(chain[i]) : chain[i][l] = x) \/ x \in From(mask, chain, i + 1)
          BY <2>3, <2>11, <2>12, <4>2
        <4> QED
          BY <1>3, <1>9, <4>3, <4>4, <4>5, AtIs
      <3>2. CASE e = c[Len(c)]
        <4>1. p = Len(c)
          <5>1. Len(c) \in 1..Len(c)
            BY <2>4, <2>6
          <5> QED
            BY <2>4, <2>6, <3>2, <5>1 DEF Once
        <4>2. \A x : ~Ahead(c, e, x)
          <5>1. \A q : q \notin p + 1..Len(c)
            BY <2>4, <4>1
          <5> QED
            BY <2>12, <5>1
        <4>3. R = From(mask, chain, i + 1)
          BY <2>11, <4>2
        <4>4. i + 1 \in Nat /\ i + 1 <= mask + 1
          BY <1>3, <1>9
        <4>5. it = Chn!FromOn(i + 1)
          BY <2>13, <3>2
        <4> QED
          BY <1>3, <4>3, <4>4, <4>5, FromOnIs
      <3> QED
        BY <3>1, <3>2
    <2>15. ThroughChains(mask, chain, key, it, w)
      BY <1>3, <1>5, <2>1, <2>2, <2>9, <2>14, MeetsNext
    <2> QED
      BY <2>14, <2>15 DEF MovesTo
  <1>12. Strolling(mask, chain, key, snap, it, w)
    BY <1>4, <1>5, <1>10, <1>11 DEF Strolling, StrollSound
  <1> QED
    BY <1>2, <1>12, WalksOn

\* One action after the other.
LEMMA ChainStepKeeps ==
  ASSUME ChainIInv, Chn!Next \/ UNCHANGED chainVars
  PROVE  ChainIInv'
  <1>1. CASE Chn!Clear
    BY <1>1, ClearKeepsChains
  <1>2. CASE Chn!Snap
    BY <1>2, SnapKeepsChains
  <1>3. CASE Chn!Sort
    BY <1>3, SortKeepsChains
  <1>4. CASE Chn!Begin
    BY <1>4, BeginKeepsChains
  <1>5. CASE Chn!Increment
    BY <1>5, IncrementKeepsChains
  <1>6. CASE Chn!EraseHere
    BY <1>6, EraseHereKeepsChains
  <1>7. CASE Chn!EndWalk
    <2>1. /\ place' = NoEntry /\ mask' = mask /\ chain' = chain /\ snap' = snap /\ key' = key
          /\ held' = held /\ taken' = taken
      BY <1>7 DEF Chn!EndWalk
    <2> QED
      BY <2>1 DEF ChainIInv, ChainSound, Strolling
  <1>8. CASE Chn!Copy
    BY <1>8, CopyKeepsChains
  <1>9. ASSUME NEW k \in ChainKeys, Chn!Insert(k) \/ Chn!FindOrInsert(k) \/ Chn!Erase(k)
        PROVE  ChainIInv'
    BY <1>9, InsertKeepsChains, FindOrInsertKeepsChains, EraseKeepsChains
  <1>10. CASE UNCHANGED chainVars
    <2>1. /\ mask' = mask /\ chain' = chain /\ snap' = snap /\ key' = key
          /\ held' = held /\ taken' = taken /\ place' = place /\ stroll' = stroll
      BY <1>10 DEF chainVars
    <2> QED
      BY <2>1 DEF ChainIInv, ChainSound
  <1> QED
    BY <1>1, <1>2, <1>3, <1>4, <1>5, <1>6, <1>7, <1>8, <1>9, <1>10 DEF Chn!Next

LEMMA ChainVendoredStep ==
  ASSUME [NextVendored]_varsVendored
  PROVE  Chn!Next \/ UNCHANGED chainVars
  BY DEF NextVendored, varsVendored

LEMMA ChainInvariance == SpecVendored => []ChainIInv
  <1>1. InitVendored => ChainIInv
    BY ChainInit DEF InitVendored
  <1>2. ChainIInv /\ [NextVendored]_varsVendored => ChainIInv'
    BY ChainStepKeeps, ChainVendoredStep
  <1> QED
    BY <1>1, <1>2, PTL DEF SpecVendored

-----------------------------------------------------------------------------
LEMMA ChainsAreTyped ==
  ASSUME ChainIInv
  PROVE  Chn!TypeOK
  <1>1. /\ mask = Chn!Rounded(Asked) - 1
        /\ Built(mask, chain, held, DOMAIN key, key) /\ SnapSound(snap, taken, key)
        /\ Strolling(mask, chain, key, snap, place, stroll)
    BY DEF ChainIInv, ChainSound
  <1>2. /\ DOMAIN key \subseteq ChainEntries /\ \A n \in DOMAIN key : key[n] \in ChainKeys
        /\ DOMAIN chain = 0..mask /\ \A i \in 0..mask : chain[i] \in Seq(ChainEntries)
    BY <1>1 DEF Built
  <1>3. snap = Dangling \/ snap \in Seq(ChainEntries)
    BY <1>1 DEF SnapSound, SnapHolds
  <1>4. place = NoEntry \/ PlaceTyped(mask, place)
    BY <1>1 DEF Strolling, StrollSound
  <1> QED
    BY <1>1, <1>2, <1>3, <1>4 DEF Chn!TypeOK, PlaceTyped

LEMMA EntriesAreLinked ==
  ASSUME ChainIInv
  PROVE  Chn!EntriesFound
  <1>1. mask \in Nat /\ Built(mask, chain, held, DOMAIN key, key)
    BY MaskIsNatural DEF ChainIInv, ChainSound
  <1>2. /\ chain \in [0..mask -> Seq(ChainEntries)] /\ held \in [ChainKeys -> Seq(ChainEntries)]
        /\ \A i \in 0..mask : Once(chain[i]) /\ \A x : Among(chain[i], x) <=> x \in DOMAIN key /\ HomeIn(mask, key[x]) = i
        /\ \A k \in ChainKeys : Once(held[k]) /\ \A x : Among(held[k], x) <=> x \in DOMAIN key /\ key[x] = k
        /\ \A k \in ChainKeys : \A x, y : Ahead(held[k], x, y) => Ahead(chain[HomeIn(mask, k)], x, y)
    BY <1>1 DEF Built
  <1>3. ASSUME NEW i \in 0..mask
        PROVE  Chn!ListsJust(chain[i], {n \in DOMAIN key : Chn!Home(key[n]) = i})
    <2>1. PICK T : T = {n \in DOMAIN key : Chn!Home(key[n]) = i}
      OBVIOUS
    <2>2. \A x : x \in T <=> x \in DOMAIN key /\ HomeIn(mask, key[x]) = i
      BY <2>1 DEF Chn!Home, HomeIn
    <2>3. chain[i] \in Seq(ChainEntries) /\ Lined(chain[i], T)
      BY <1>2, <2>2 DEF Lined
    <2>4. Chn!ListsJust(chain[i], T)
      BY <2>3, ListsAreLined
    <2> QED
      BY <2>1, <2>4
  <1>4. ASSUME NEW k \in ChainKeys
        PROVE  /\ Chn!ListsJust(held[k], {n \in DOMAIN key : key[n] = k})
               /\ \A i, j \in DOMAIN held[k] :
                      i < j => Chn!Before(chain[Chn!Home(k)], held[k][i], held[k][j])
    <2>1. PICK T : T = {n \in DOMAIN key : key[n] = k}
      OBVIOUS
    <2>2. \A x : x \in T <=> x \in DOMAIN key /\ key[x] = k
      BY <2>1
    <2>3. held[k] \in Seq(ChainEntries) /\ Once(held[k]) /\ Lined(held[k], T)
      BY <1>2, <2>2 DEF Lined
    <2>4. Chn!ListsJust(held[k], T)
      BY <2>3, ListsAreLined
    <2>5. PICK h : h = HomeIn(mask, k)
      OBVIOUS
    <2>6. chain[h] \in Seq(ChainEntries)
      BY <1>1, <1>2, <2>5, HomeInChains
    <2>7. ASSUME NEW i \in DOMAIN held[k], NEW j \in DOMAIN held[k], i < j
          PROVE  Chn!Before(chain[h], held[k][i], held[k][j])
      <3>1. i \in 1..Len(held[k]) /\ j \in 1..Len(held[k])
        BY <2>3, <2>7
      <3>2. Ahead(held[k], held[k][i], held[k][j])
        BY <2>3, <2>7, <3>1, AheadIsOrder
      <3>3. Ahead(chain[h], held[k][i], held[k][j])
        BY <1>2, <2>5, <3>2
      <3> QED
        BY <2>6, <3>3, ListsAreLined
    <2>8. Chn!Home(k) = h
      BY <2>5 DEF Chn!Home, HomeIn
    <2> QED
      BY <2>1, <2>4, <2>7, <2>8
  <1> QED
    BY <1>3, <1>4 DEF Chn!EntriesFound

LEMMA WalksMeetAll ==
  ASSUME ChainIInv
  PROVE  Chn!WalkMeetsAll
  <1> SUFFICES ASSUME place # NoEntry, place.entry = NoEntry
               PROVE  IF snap # <<>>
                      THEN /\ Chn!ListsJust(stroll.met, Chn!ToSet(taken.order))
                           /\ IF taken.sorted
                              THEN \A i, j \in DOMAIN stroll.met :
                                       i < j => Chn!Ordered(stroll.met[i], stroll.met[j])
                              ELSE stroll.met = taken.order
                      ELSE Chn!IsInjective(stroll.met) /\ stroll.whole \subseteq Chn!ToSet(stroll.met)
    BY DEF Chn!WalkMeetsAll
  <1>1. StrollSound(mask, chain, key, snap, place, stroll)
    BY DEF ChainIInv, Strolling
  <1>2. SnapHolds(snap, taken, key)
    BY <1>1 DEF ChainIInv, SnapSound, StrollSound
  <1>3. PICK met, order : met = stroll.met /\ order = taken.order
    OBVIOUS
  <1>4. CASE snap # <<>>
    <2>1. met = snap
      BY <1>1, <1>3, <1>4 DEF StrollSound, ThroughSnapshot
    <2>2. /\ met \in Seq(ChainEntries) /\ Once(met)
          /\ order \in Seq(ChainEntries) /\ Once(order) /\ taken.sorted \in BOOLEAN
          /\ \A x : Among(met, x) <=> Among(order, x)
          /\ taken.sorted = FALSE => met = order
          /\ \A x, y : Ahead(met, x, y) /\ key[x] = key[y] => Ahead(order, x, y)
          /\ taken.sorted = TRUE => \A x, y : Ahead(met, x, y) => key[x] < key[y] \/ key[x] = key[y]
      BY <1>2, <1>3, <1>4, <2>1 DEF SnapHolds
    <2>3. Chn!ListsJust(met, Chn!ToSet(order))
      <3>1. PICK T : T = Chn!ToSet(order)
        OBVIOUS
      <3>2. \A x : x \in T <=> Among(order, x)
        BY <2>2, <3>1, ListsAreLined
      <3>3. Lined(met, T)
        BY <2>2, <3>2 DEF Lined
      <3> QED
        BY <2>2, <3>1, <3>3, ListsAreLined
    <2>4. ASSUME taken.sorted, NEW i \in DOMAIN met, NEW j \in DOMAIN met, i < j
          PROVE  Chn!Ordered(met[i], met[j])
      <3>1. i \in 1..Len(met) /\ j \in 1..Len(met)
        BY <2>2, <2>4
      <3>2. Ahead(met, met[i], met[j])
        BY <2>2, <2>4, <3>1, AheadIsOrder
      <3>3. key[met[i]] < key[met[j]] \/ (key[met[i]] = key[met[j]] /\ Ahead(order, met[i], met[j]))
        BY <2>2, <2>4, <3>2
      <3>4. Ahead(order, met[i], met[j]) => Chn!Before(order, met[i], met[j])
        BY <2>2, ListsAreLined
      <3> QED
        BY <1>3, <3>3, <3>4 DEF Chn!Ordered
    <2>5. taken.sorted \/ taken.sorted = FALSE
      BY <2>2
    <2> QED
      BY <1>3, <1>4, <2>2, <2>3, <2>4, <2>5
  <1>5. CASE snap = <<>>
    <2>1. ThroughChains(mask, chain, key, place, stroll)
      BY <1>1, <1>5 DEF StrollSound
    <2>2. met \in Seq(ChainEntries) /\ Once(met) /\ \A x \in stroll.whole : Among(met, x)
      BY <1>3, <2>1 DEF ThroughChains, Beyond
    <2>3. Chn!IsInjective(met) /\ \A x : x \in Chn!ToSet(met) <=> Among(met, x)
      BY <2>2, ListsAreLined
    <2> QED
      BY <1>3, <1>5, <2>2, <2>3
  <1> QED
    BY <1>4, <1>5

\* For any number of entries and chains, every entry allocated and not freed is
\* in the chain of its key, in the order in which the calls gave those of its
\* key, a stable sort leaves the snapshot in the order of the keys, and walks
\* meet what they should, through the snapshot in its order or sorted, or
\* through the chains, whatever is inserted meanwhile (hash_chain.h and
\* hash_chain_prot.h).
THEOREM HashChainsStayIntact == SpecVendored => []HashChainsIntact
  <1>1. ChainIInv => HashChainsIntact
    BY ChainsAreTyped, EntriesAreLinked, WalksMeetAll DEF HashChainsIntact
  <1> QED
    BY <1>1, ChainInvariance, PTL
=============================================================================
