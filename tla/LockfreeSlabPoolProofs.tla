----------------------- MODULE LockfreeSlabPoolProofs -----------------------
(***************************************************************************)
(* When the last user of a block leaves only while nobody is being counted *)
(* in, a LockfreeSlabPool never has a block in two places, counts the      *)
(* users of each block, and decr_ref's assertion holds, for any number of  *)
(* threads and blocks.                                                     *)
(***************************************************************************)
EXTENDS LockfreeSlabPool, FiniteSetTheorems, TLAPS

\* Thread t has block b in its hands; it is one of b's counted users.
Has(t, b)  == block[t] = b /\ pc[t] # "decrReset"
Uses(t, b) == block[t] = b /\ pc[t] \in {"using", "decrLoad", "decrLast", "decrCas"}

\* A block is on the stack just when it was made and nobody has it.
InPool ==
    /\ \A b \in Blocks : stacked[b] = 1 <=> b \in allocated /\ \A t \in Threads : ~Has(t, b)
    /\ \A t \in Threads : block[t] # Null => block[t] \in allocated

\* An owner, and a thread that is about to push a block, has it alone.
Alone ==
    \A t, u \in Threads : pc[t] \in {"own", "decrPush"} /\ Has(u, block[t]) => u = t

\* A thread that is being counted in has the block alone, or some user of the
\* block waits for it: no user becomes the last one meanwhile.
Accompanied ==
    \A t \in Threads : Incrementing(t) =>
        \/ \E u \in Threads : pc[u] = "using" /\ block[u] = block[t]
        \/ \A u \in Threads : Has(u, block[t]) => u = t

\* What last says: decr_ref has told the last user from the others, and the
\* exchange of incr_ref with -1 fails.
LastsRight ==
    \A t \in Threads :
        /\ pc[t] = "decrLast" => last[t] = 1
        /\ pc[t] = "decrCas" => last[t] # 1
        /\ pc[t] = "incrCas" /\ last[t] = BACKING => users[block[t]] # BACKING

IInv ==
    /\ TypeOK /\ InPool /\ Alone /\ Accompanied /\ LastsRight /\ CountsUsers
    /\ AssertionHolds

-----------------------------------------------------------------------------
LEMMA CountedIsFinite ==
  ASSUME NEW b
  PROVE  IsFiniteSet(Counted(b)) /\ Cardinality(Counted(b)) \in Nat
  <1>1. Counted(b) \in SUBSET Threads
    BY DEF Counted
  <1> QED
    BY <1>1, PoolAssumption, FS_Subset, FS_CardinalityType

\* A block some thread uses has a count above zero.
LEMMA UsersArePositive ==
  ASSUME CountsUsers, NEW b \in Blocks, NEW t \in Threads, Uses(t, b)
  PROVE  users[b] \in Nat \ {0} /\ users[b] = Cardinality(Counted(b))
  <1>1. t \in Counted(b)
    BY DEF Counted, Uses
  <1>2. Cardinality(Counted(b)) # 0
    BY <1>1, CountedIsFinite, FS_EmptySet
  <1> QED
    BY <1>1, <1>2, CountedIsFinite DEF CountsUsers

\* A step that leaves users alone, and who is one.
LEMMA CountsKept ==
  ASSUME CountsUsers, UNCHANGED users,
         \A t \in Threads, b \in Blocks : Uses(t, b)' <=> Uses(t, b)
  PROVE  CountsUsers'
  <1>1. ASSUME NEW b \in Blocks PROVE Counted(b)' = Counted(b)
    BY <1>1 DEF Counted, Uses
  <1> QED
    BY <1>1 DEF CountsUsers

\* A step that sets a count that was BACKING to 0.
LEMMA CountsReset ==
  ASSUME TypeOK, CountsUsers, NEW c \in Blocks, users[c] = BACKING,
         users' = [users EXCEPT ![c] = 0],
         \A t \in Threads, b \in Blocks : Uses(t, b)' <=> Uses(t, b)
  PROVE  CountsUsers'
  <1>1. ASSUME NEW b \in Blocks PROVE Counted(b)' = Counted(b)
    BY <1>1 DEF Counted, Uses
  <1>2. Counted(c) = {}
    BY CountedIsFinite DEF CountsUsers, BACKING
  <1>3. Cardinality(Counted(c)) = 0
    BY <1>2, FS_EmptySet
  <1> QED
    BY <1>1, <1>3 DEF CountsUsers, TypeOK

\* A step that makes t a user of c.
LEMMA OneUserMore ==
  ASSUME TypeOK, CountsUsers, NEW c \in Blocks, NEW t \in Threads,
         users[c] # BACKING, ~Uses(t, c), Uses(t, c)',
         users' = [users EXCEPT ![c] = users[c] + 1],
         \A u \in Threads, b \in Blocks : u # t \/ b # c => (Uses(u, b)' <=> Uses(u, b))
  PROVE  CountsUsers'
  <1>1. ASSUME NEW b \in Blocks, b # c
    PROVE Counted(b)' = Counted(b) /\ users'[b] = users[b]
    BY <1>1 DEF Counted, Uses, TypeOK
  <1>2. Counted(c)' = Counted(c) \cup {t} /\ t \notin Counted(c)
    BY DEF Counted, Uses
  <1>3. Cardinality(Counted(c)') = Cardinality(Counted(c)) + 1
    BY <1>2, CountedIsFinite, FS_AddElement
  <1>4. users'[c] = Cardinality(Counted(c)')
    BY <1>3 DEF CountsUsers, TypeOK
  <1> QED
    BY <1>1, <1>4 DEF CountsUsers

\* A step by which t is a user of c no longer.
LEMMA OneUserLess ==
  ASSUME TypeOK, CountsUsers, NEW c \in Blocks, NEW t \in Threads,
         Uses(t, c), ~Uses(t, c)',
         \/ users' = [users EXCEPT ![c] = users[c] - 1]
         \/ users[c] = 1 /\ users' = [users EXCEPT ![c] = BACKING],
         \A u \in Threads, b \in Blocks : u # t \/ b # c => (Uses(u, b)' <=> Uses(u, b))
  PROVE  CountsUsers'
  <1>1. ASSUME NEW b \in Blocks, b # c
    PROVE Counted(b)' = Counted(b) /\ users'[b] = users[b]
    BY <1>1 DEF Counted, Uses, TypeOK
  <1>2. Counted(c)' = Counted(c) \ {t} /\ t \in Counted(c)
    BY DEF Counted, Uses
  <1>3. Cardinality(Counted(c)') = Cardinality(Counted(c)) - 1 /\ IsFiniteSet(Counted(c)')
    BY <1>2, CountedIsFinite, FS_RemoveElement
  <1>4. users[c] = Cardinality(Counted(c))
    BY UsersArePositive
  <1>5. \/ users'[c] = Cardinality(Counted(c)')
        \/ users'[c] = BACKING /\ Counted(c)' = {}
    <2>1. CASE users' = [users EXCEPT ![c] = users[c] - 1]
      BY <2>1, <1>3, <1>4 DEF TypeOK
    <2>2. CASE users[c] = 1 /\ users' = [users EXCEPT ![c] = BACKING]
      BY <1>3, <1>4, FS_EmptySet DEF TypeOK
    <2> QED
      BY <2>1, <2>2
  <1> QED
    BY <1>1, <1>5 DEF CountsUsers

\* The last user has its block alone: were a thread being counted in, the block
\* would have another user.
LEMMA LastIsAlone ==
  ASSUME IInv, NEW t \in Threads, pc[t] = "decrLast", users[block[t]] = 1
  PROVE  \A u \in Threads : Has(u, block[t]) => u = t
  <1> USE DEF IInv
  <1>1. block[t] \in Blocks /\ Uses(t, block[t])
    BY DEF TypeOK, Uses
  <1>2. Cardinality(Counted(block[t])) = 1
    BY <1>1, UsersArePositive
  <1>3. ASSUME NEW u \in Threads, Uses(u, block[t]) PROVE u = t
    <2>1. PICK w : Counted(block[t]) = {w}
      BY <1>2, CountedIsFinite, FS_Singleton
    <2>2. u \in Counted(block[t]) /\ t \in Counted(block[t])
      BY <1>1, <1>3 DEF Counted, Uses
    <2> QED
      BY <2>1, <2>2
  <1>4. ASSUME NEW u \in Threads, Has(u, block[t]), ~Uses(u, block[t]) PROVE FALSE
    <2>1. pc[u] \in {"own", "decrPush"} \/ Incrementing(u)
      BY <1>4 DEF TypeOK, Places, Has, Uses, Incrementing
    <2>2. block[u] = block[t] /\ Has(t, block[t]) /\ u # t
      BY <1>1, <1>4 DEF Has, Uses
    <2>3. CASE pc[u] \in {"own", "decrPush"}
      BY <2>2, <2>3 DEF Alone
    <2>4. CASE Incrementing(u)
      <3>1. PICK w \in Threads : pc[w] = "using" /\ block[w] = block[t]
        BY <2>2, <2>4 DEF Accompanied
      <3> QED
        BY <3>1, <1>3 DEF Uses
    <2> QED
      BY <2>1, <2>3, <2>4
  <1> QED
    BY <1>3, <1>4

\* A user that is not the last one leaves another behind.
LEMMA OthersStay ==
  ASSUME IInv, NEW t \in Threads, pc[t] = "decrCas", users[block[t]] = last[t]
  PROVE  /\ last[t] \in Nat \ {0}
         /\ \E w \in Threads : w # t /\ Uses(w, block[t])
  <1> USE DEF IInv
  <1>1. block[t] \in Blocks /\ Uses(t, block[t])
    BY DEF TypeOK, Uses
  <1>2. last[t] \in Nat \ {0, 1} /\ Cardinality(Counted(block[t])) = last[t]
    BY <1>1, UsersArePositive DEF LastsRight
  <1>3. Counted(block[t]) # {t}
    BY <1>2, FS_Singleton
  <1>4. t \in Counted(block[t])
    BY <1>1 DEF Counted, Uses
  <1>5. PICK w \in Counted(block[t]) : w # t
    BY <1>3, <1>4
  <1> QED
    BY <1>2, <1>5 DEF Counted, Uses

\* A block that the pool has, or that is new, comes into one thread's hands.
LEMMA GetStep ==
  ASSUME IInv, NEW t \in Threads, NEW b \in Blocks,
         NEW counted \in BOOLEAN, Get(t, b, counted)
  PROVE  IInv'
  <1> USE DEF IInv, BACKING
  <1>1. \A u \in Threads : u # t =>
          pc'[u] = pc[u] /\ block'[u] = block[u] /\ last'[u] = last[u]
    BY DEF TypeOK, Get, Move
  <1>2. \A u \in Threads : ~Has(u, b)
    BY PoolAssumption DEF TypeOK, InPool, Has, Get
  <1>3. block'[t] = b /\ pc'[t] \in {"own", "incrLoad"} /\ UNCHANGED <<users, last>>
    BY DEF TypeOK, Get, Move
  <1>4. \A c \in Blocks : stacked'[c] = (IF c = b THEN 0 ELSE stacked[c])
    BY DEF TypeOK, InPool, Get
  <1>5. allocated' = allocated \cup {b}
    BY DEF TypeOK, InPool, Get
  <1>6. pc[t] = "idle"
    BY DEF Get, Move
  <1>7. TypeOK'
    BY <1>1, PoolAssumption DEF TypeOK, Places, Get, Move
  <1>8. \A c \in Blocks : (\A u \in Threads : ~Has(u, c)') <=> c # b
           /\ (\A u \in Threads : ~Has(u, c))
    BY <1>1, <1>3, <1>6, PoolAssumption DEF TypeOK, Has
  <1>9. InPool'
    BY <1>1, <1>3, <1>4, <1>5, <1>8 DEF InPool
  <1>10. Alone'
    BY <1>1, <1>2, <1>3 DEF Alone, Has
  <1>11. Accompanied'
    BY <1>1, <1>2, <1>3, <1>6 DEF Accompanied, Incrementing, Has
  <1>12. LastsRight'
    BY <1>1, <1>3 DEF TypeOK, LastsRight, Has
  <1>13. \A v \in Threads, c \in Blocks : Uses(v, c)' <=> Uses(v, c)
    BY <1>1, <1>3, <1>6 DEF Uses
  <1>14. CountsUsers'
    BY <1>3, <1>13, CountsKept
  <1>15. AssertionHolds'
    BY DEF AssertionHolds, Get, Move
  <1> QED
    BY <1>7, <1>9, <1>10, <1>11, <1>12, <1>14, <1>15

\* An owner had its block alone.
LEMMA BackStep ==
  ASSUME IInv, NEW t \in Threads, Back(t)
  PROVE  IInv'
  <1> USE DEF IInv, BACKING
  <1>1. \A u \in Threads : u # t =>
          pc'[u] = pc[u] /\ block'[u] = block[u] /\ last'[u] = last[u]
    BY DEF Back, Drop, Move
  <1>2. /\ block'[t] = Null
        /\ pc'[t] = "idle"
        /\ pc[t] = "own"
        /\ block[t] \in Blocks
        /\ UNCHANGED <<users, allocated>>
    BY DEF TypeOK, Back, Drop, Move
  <1>3. \A u \in Threads : Has(u, block[t]) => u = t
    BY DEF Alone, Back, Drop, Move
  <1>4. \A c \in Blocks : stacked'[c] = (IF c = block[t] THEN 1 ELSE stacked[c])
    BY DEF TypeOK, InPool, Has, Back, Drop, Move
  <1>5. block[t] \in allocated
    BY DEF TypeOK, InPool, Back, Drop, Move
  <1>6. TypeOK'
    BY <1>4 DEF TypeOK, Places, Back, Drop, Move
  <1>7. \A c \in Blocks : (\A u \in Threads : ~Has(u, c)') <=> c = block[t] \/ (\A u \in Threads : ~Has(u, c))
    BY <1>1, <1>2, <1>3, PoolAssumption DEF Has
  <1>8. InPool'
    BY <1>1, <1>2, <1>4, <1>5, <1>7 DEF InPool
  <1>9. Alone'
    BY <1>1, <1>2 DEF TypeOK, Alone, Has
  <1>10. Accompanied'
    BY <1>1, <1>2 DEF TypeOK, Accompanied, Incrementing, Has
  <1>11. LastsRight'
    BY <1>1, <1>2 DEF TypeOK, LastsRight, Has
  <1>12. \A v \in Threads, c \in Blocks : Uses(v, c)' <=> Uses(v, c)
    BY <1>1, <1>2 DEF TypeOK, Uses
  <1>13. CountsUsers'
    BY <1>2, <1>12, CountsKept
  <1>14. AssertionHolds'
    BY DEF AssertionHolds, Back, Drop
  <1> QED
    BY <1>6, <1>8, <1>9, <1>10, <1>11, <1>13, <1>14

\* The new one is accompanied by the user it found.
LEMMA ShareStep ==
  ASSUME IInv, NEW t \in Threads, NEW w \in Threads, Share(t, w)
  PROVE  IInv'
  <1> USE DEF IInv, BACKING
  <1>1. \A u \in Threads : u # t =>
          pc'[u] = pc[u] /\ block'[u] = block[u] /\ last'[u] = last[u]
    BY DEF TypeOK, Share, Move
  <1>2. /\ block'[t] = block[w]
        /\ pc'[t] = "incrLoad"
        /\ pc[t] = "idle"
        /\ pc[w] = "using"
        /\ block[w] \in Blocks
        /\ UNCHANGED <<users, stacked, allocated, last>>
    BY PoolAssumption DEF TypeOK, Share, Move
  <1>3. TypeOK'
    BY <1>1, PoolAssumption DEF TypeOK, Places, Share, Move
  <1>4. \A c \in Blocks : (\A u \in Threads : ~Has(u, c)') <=> (\A u \in Threads : ~Has(u, c))
    BY <1>1, <1>2, PoolAssumption DEF TypeOK, Has
  <1>5. InPool'
    BY <1>1, <1>2, <1>4 DEF InPool
  <1>6. Alone'
    BY <1>1, <1>2 DEF TypeOK, Alone, Has
  <1>7. Accompanied'
    BY <1>1, <1>2 DEF Accompanied, Incrementing, Has
  <1>8. LastsRight'
    BY <1>1, <1>2 DEF TypeOK, LastsRight, Has
  <1>9. \A v \in Threads, c \in Blocks : Uses(v, c)' <=> Uses(v, c)
    BY <1>1, <1>2 DEF TypeOK, Uses
  <1>10. CountsUsers'
    BY <1>2, <1>9, CountsKept
  <1>11. AssertionHolds'
    BY DEF AssertionHolds, Share, Move
  <1> QED
    BY <1>3, <1>5, <1>6, <1>7, <1>8, <1>10, <1>11

\* A thread that finds BACKING goes to help.
LEMMA IncrLoadStep ==
  ASSUME IInv, NEW t \in Threads, IncrLoad(t)
  PROVE  IInv'
  <1> USE DEF IInv, BACKING
  <1>1. \A u \in Threads : u # t =>
          pc'[u] = pc[u] /\ block'[u] = block[u] /\ last'[u] = last[u]
    BY DEF IncrLoad, Move, Load
  <1>2. /\ pc[t] = "incrLoad"
        /\ pc'[t] \in {"incrHelp", "incrCas"}
        /\ block' = block
        /\ block[t] \in Blocks
        /\ UNCHANGED <<users, stacked, allocated>>
    BY DEF TypeOK, IncrLoad, Move
  <1>3. pc'[t] = "incrCas" => users[block[t]] # BACKING
    BY DEF TypeOK, IncrLoad, Move
  <1>4. TypeOK'
    BY DEF TypeOK, Places, IncrLoad, Move, Load
  <1>5. \A c \in Blocks : (\A u \in Threads : ~Has(u, c)') <=> (\A u \in Threads : ~Has(u, c))
    BY <1>1, <1>2 DEF TypeOK, Has
  <1>6. InPool'
    BY <1>2, <1>5 DEF InPool
  <1>7. Alone'
    BY <1>1, <1>2 DEF TypeOK, Alone, Has
  <1>8. Accompanied'
    BY <1>1, <1>2 DEF Accompanied, Incrementing, Has
  <1>9. LastsRight'
    BY <1>1, <1>2, <1>3 DEF LastsRight
  <1>10. \A v \in Threads, c \in Blocks : Uses(v, c)' <=> Uses(v, c)
    BY <1>1, <1>2 DEF TypeOK, Uses
  <1>11. CountsUsers'
    BY <1>2, <1>10, CountsKept
  <1>12. AssertionHolds'
    BY DEF AssertionHolds, IncrLoad, Move
  <1> QED
    BY <1>4, <1>6, <1>7, <1>8, <1>9, <1>11, <1>12

\* After helping, the count is not BACKING.
LEMMA IncrHelpStep ==
  ASSUME IInv, NEW t \in Threads, IncrHelp(t)
  PROVE  IInv'
  <1> USE DEF IInv, BACKING
  <1>1. \A u \in Threads : u # t =>
          pc'[u] = pc[u] /\ block'[u] = block[u] /\ last'[u] = last[u]
    BY DEF TypeOK, IncrHelp, Move, Load
  <1>2. /\ pc[t] = "incrHelp"
        /\ pc'[t] = "incrCas"
        /\ block'[t] = block[t]
        /\ block[t] \in Blocks
        /\ UNCHANGED <<stacked, allocated>>
        /\ block' = block
    BY DEF TypeOK, IncrHelp, Move
  <1>3. \/ users[block[t]] = BACKING
           /\ users' = [users EXCEPT ![block[t]] = 0] /\ UNCHANGED last
        \/ users[block[t]] # BACKING /\ UNCHANGED users /\ last'[t] = users[block[t]]
    BY DEF TypeOK, IncrHelp, Load
  <1>4. TypeOK'
    BY DEF TypeOK, Places, IncrHelp, Move, Load
  <1>5. \A c \in Blocks : (\A u \in Threads : ~Has(u, c)') <=> (\A u \in Threads : ~Has(u, c))
    BY <1>1, <1>2 DEF TypeOK, Has
  <1>6. InPool'
    BY <1>2, <1>5 DEF InPool
  <1>7. Alone'
    BY <1>1, <1>2 DEF TypeOK, Alone, Has
  <1>8. Accompanied'
    BY <1>1, <1>2 DEF Accompanied, Incrementing, Has
  <1>9. LastsRight'
    BY <1>1, <1>2, <1>3 DEF TypeOK, LastsRight, Has
  <1>10. \A v \in Threads, c \in Blocks : Uses(v, c)' <=> Uses(v, c)
    BY <1>1, <1>2 DEF TypeOK, Uses
  <1>11. CountsUsers'
    BY <1>2, <1>3, <1>10, CountsKept, CountsReset
  <1>12. AssertionHolds'
    BY DEF AssertionHolds, IncrHelp, Move
  <1> QED
    BY <1>4, <1>6, <1>7, <1>8, <1>9, <1>11, <1>12

\* An exchange that succeeds makes its thread a user, and with last = -1 none does.
LEMMA IncrCasStep ==
  ASSUME IInv, NEW t \in Threads, IncrCas(t)
  PROVE  IInv'
  <1> USE DEF IInv, BACKING
  <1>1. \A u \in Threads : u # t =>
          pc'[u] = pc[u] /\ block'[u] = block[u] /\ last'[u] = last[u]
    BY DEF TypeOK, IncrCas, Move
  <1>2. /\ pc[t] = "incrCas"
        /\ block' = block
        /\ last' = last
        /\ block[t] \in Blocks
        /\ UNCHANGED <<stacked, allocated>>
    BY DEF TypeOK, IncrCas, Move
  <1>3. \/ pc'[t] = "using" /\ users[block[t]] = last[t]
           /\ users' = [users EXCEPT ![block[t]] = last[t] + 1]
        \/ pc'[t] = "incrLoad" /\ UNCHANGED users
    BY DEF TypeOK, IncrCas, Exchanged, Kept, Move
  <1>4. TypeOK'
    BY PoolAssumption DEF TypeOK, Places, IncrCas, Exchanged, Kept, Move
  <1>5. \A c \in Blocks : (\A u \in Threads : ~Has(u, c)') <=> (\A u \in Threads : ~Has(u, c))
    BY <1>1, <1>2, <1>3 DEF Has
  <1>6. InPool'
    BY <1>2, <1>5 DEF InPool
  <1>7. Alone'
    BY <1>1, <1>2, <1>3 DEF Alone, Has
  <1>8. Accompanied'
    BY <1>1, <1>2 DEF Accompanied, Incrementing, Has
  <1>9. LastsRight'
    BY <1>1, <1>3 DEF TypeOK, LastsRight, Has
  <1>10. \A v \in Threads, c \in Blocks : v # t \/ c # block[t] =>
          (Uses(v, c)' <=> Uses(v, c))
    BY <1>1, <1>2 DEF TypeOK, Uses
  <1>11. CountsUsers'
    <2>1. CASE /\ pc'[t] = "using"
              /\ users[block[t]] = last[t]
              /\ users' = [users EXCEPT ![block[t]] = last[t] + 1]
      <3>1. PICK c \in Blocks : c = block[t]
        BY <1>1, <1>2
      <3>2. users[c] # BACKING /\ ~Uses(t, c) /\ Uses(t, c)'
        BY <2>1, <3>1, <1>2 DEF Uses, LastsRight
      <3>3. users' = [users EXCEPT ![c] = users[c] + 1]
        BY <2>1, <3>1
      <3>4. \A v \in Threads, b \in Blocks : v # t \/ b # c => (Uses(v, b)' <=> Uses(v, b))
        BY <3>1, <1>10
      <3> QED
        BY <3>2, <3>3, <3>4, OneUserMore
    <2>2. CASE pc'[t] = "incrLoad" /\ UNCHANGED users
      <3>1. \A v \in Threads, c \in Blocks : Uses(v, c)' <=> Uses(v, c)
        BY <2>2, <1>1, <1>2 DEF Uses
      <3> QED
        BY <2>2, <3>1, CountsKept
    <2> QED
      BY <2>1, <2>2, <1>3
  <1>12. AssertionHolds'
    BY DEF AssertionHolds, IncrCas, Exchanged
  <1> QED
    BY <1>4, <1>6, <1>7, <1>8, <1>9, <1>11, <1>12

\* If somebody is being counted in, another user stays.
LEMMA CallDecrStep ==
  ASSUME IInv, NEW t \in Threads, ~Racing, CallDecr(t)
  PROVE  IInv'
  <1> USE DEF IInv, BACKING
  <1>1. \A u \in Threads : u # t =>
          pc'[u] = pc[u] /\ block'[u] = block[u] /\ last'[u] = last[u]
    BY DEF TypeOK, CallDecr, Move
  <1>2. /\ pc[t] = "using"
        /\ pc'[t] = "decrLoad"
        /\ block'[t] = block[t]
        /\ block[t] \in Blocks
        /\ UNCHANGED <<stacked, allocated>>
        /\ block' = block
        /\ last' = last
        /\ UNCHANGED users
    BY PoolAssumption DEF TypeOK, CallDecr, Move
  <1>3. \/ \A u \in Threads : Incrementing(u) => block[u] # block[t]
        \/ \E u \in Threads \ {t} : pc[u] = "using" /\ block[u] = block[t]
    BY DEF MayLeave, CallDecr
  <1>4. TypeOK'
    BY DEF TypeOK, Places, CallDecr, Move
  <1>5. \A c \in Blocks : (\A u \in Threads : ~Has(u, c)') <=> (\A u \in Threads : ~Has(u, c))
    BY <1>1, <1>2 DEF TypeOK, Has
  <1>6. InPool'
    BY <1>2, <1>5 DEF InPool
  <1>7. Alone'
    BY <1>1, <1>2 DEF TypeOK, Alone, Has
  <1>8. Accompanied'
    BY <1>1, <1>2, <1>3 DEF Accompanied, Incrementing, Has
  <1>9. LastsRight'
    BY <1>1, <1>2 DEF TypeOK, LastsRight, Has
  <1>10. \A v \in Threads, c \in Blocks : Uses(v, c)' <=> Uses(v, c)
    BY <1>1, <1>2 DEF TypeOK, Uses
  <1>11. CountsUsers'
    BY <1>2, <1>10, CountsKept
  <1>12. AssertionHolds'
    BY DEF AssertionHolds, CallDecr, Move
  <1> QED
    BY <1>4, <1>6, <1>7, <1>8, <1>9, <1>11, <1>12

\* A user is counted, so it does not find BACKING.
LEMMA DecrLoadStep ==
  ASSUME IInv, NEW t \in Threads, DecrLoad(t)
  PROVE  IInv'
  <1> USE DEF IInv, BACKING
  <1>1. \A u \in Threads : u # t =>
          pc'[u] = pc[u] /\ block'[u] = block[u] /\ last'[u] = last[u]
    BY DEF DecrLoad, Move, Load
  <1>2. /\ pc[t] = "decrLoad"
        /\ pc'[t] \in {"decrLast", "decrCas"}
        /\ block' = block
        /\ block[t] \in Blocks
        /\ UNCHANGED <<users, stacked, allocated>>
    BY DEF TypeOK, DecrLoad, Move
  <1>3. last'[t] = users[block[t]] /\ (pc'[t] = "decrLast" <=> users[block[t]] = 1)
    BY DEF TypeOK, DecrLoad, Move, Load
  <1>4. TypeOK'
    BY DEF TypeOK, Places, DecrLoad, Move, Load
  <1>5. \A c \in Blocks : (\A u \in Threads : ~Has(u, c)') <=> (\A u \in Threads : ~Has(u, c))
    BY <1>1, <1>2 DEF TypeOK, Has
  <1>6. InPool'
    BY <1>2, <1>5 DEF InPool
  <1>7. Alone'
    BY <1>1, <1>2 DEF TypeOK, Alone, Has
  <1>8. Accompanied'
    BY <1>1, <1>2 DEF Accompanied, Incrementing, Has
  <1>9. LastsRight'
    BY <1>1, <1>2, <1>3 DEF LastsRight, Has
  <1>10. \A v \in Threads, c \in Blocks : Uses(v, c)' <=> Uses(v, c)
    BY <1>1, <1>2 DEF TypeOK, Uses
  <1>11. CountsUsers'
    BY <1>2, <1>10, CountsKept
  <1>12. block[t] \in Blocks /\ Uses(t, block[t])
    BY <1>1, <1>2 DEF Uses
  <1>13. users[block[t]] # BACKING
    BY <1>12, UsersArePositive
  <1>14. AssertionHolds'
    BY <1>13 DEF AssertionHolds, DecrLoad, Move
  <1> QED
    BY <1>4, <1>6, <1>7, <1>8, <1>9, <1>11, <1>14

\* The last user has its block alone.
LEMMA DecrLastStep ==
  ASSUME IInv, NEW t \in Threads, DecrLast(t)
  PROVE  IInv'
  <1> USE DEF IInv, BACKING
  <1>1. \A u \in Threads : u # t =>
          pc'[u] = pc[u] /\ block'[u] = block[u] /\ last'[u] = last[u]
    BY DEF TypeOK, DecrLast, Move
  <1>2. /\ pc[t] = "decrLast"
        /\ block' = block
        /\ last' = last
        /\ block[t] \in Blocks
        /\ UNCHANGED <<stacked, allocated>>
    BY DEF TypeOK, DecrLast, Move
  <1>3. \/ pc'[t] = "decrPush" /\ users[block[t]] = 1
           /\ users' = [users EXCEPT ![block[t]] = BACKING]
        \/ pc'[t] = "decrLoad" /\ UNCHANGED users
    BY DEF TypeOK, LastsRight, DecrLast, Exchanged, Kept, Move
  <1>4. users[block[t]] = 1 => \A u \in Threads : Has(u, block[t]) => u = t
    BY LastIsAlone DEF DecrLast, Move
  <1>5. TypeOK'
    BY PoolAssumption DEF TypeOK, Places, DecrLast, Exchanged, Kept, Move
  <1>6. \A c \in Blocks : (\A u \in Threads : ~Has(u, c)') <=> (\A u \in Threads : ~Has(u, c))
    BY <1>1, <1>2, <1>3 DEF Has
  <1>7. InPool'
    BY <1>2, <1>6 DEF InPool
  <1>8. Alone'
    BY <1>1, <1>2, <1>3, <1>4 DEF Alone, Has
  <1>9. Accompanied'
    BY <1>1, <1>2, <1>3 DEF Accompanied, Incrementing, Has
  <1>10. LastsRight'
    BY <1>1, <1>3, <1>4 DEF TypeOK, LastsRight, Has
  <1>11. \A v \in Threads, c \in Blocks : v # t \/ c # block[t] =>
          (Uses(v, c)' <=> Uses(v, c))
    BY <1>1, <1>2 DEF TypeOK, Uses
  <1>12. CountsUsers'
    <2>1. CASE /\ pc'[t] = "decrPush"
              /\ users[block[t]] = 1
              /\ users' = [users EXCEPT ![block[t]] = BACKING]
      <3>1. PICK c \in Blocks : c = block[t]
        BY <1>1, <1>2
      <3>2. Uses(t, c) /\ ~Uses(t, c)'
        BY <2>1, <3>1, <1>2 DEF Uses
      <3>3. users[c] = 1 /\ users' = [users EXCEPT ![c] = BACKING]
        BY <2>1, <3>1
      <3>4. \A v \in Threads, b \in Blocks : v # t \/ b # c => (Uses(v, b)' <=> Uses(v, b))
        BY <3>1, <1>11
      <3> QED
        BY <3>2, <3>3, <3>4, OneUserLess
    <2>2. CASE pc'[t] = "decrLoad" /\ UNCHANGED users
      <3>1. \A v \in Threads, c \in Blocks : Uses(v, c)' <=> Uses(v, c)
        BY <2>2, <1>1, <1>2 DEF Uses
      <3> QED
        BY <2>2, <3>1, CountsKept
    <2> QED
      BY <2>1, <2>2, <1>3
  <1>13. AssertionHolds'
    BY DEF AssertionHolds, DecrLast, Exchanged
  <1> QED
    BY <1>5, <1>7, <1>8, <1>9, <1>10, <1>12, <1>13

\* The block is in nobody else's hands.
LEMMA DecrPushStep ==
  ASSUME IInv, NEW t \in Threads, DecrPush(t)
  PROVE  IInv'
  <1> USE DEF IInv, BACKING
  <1>1. \A u \in Threads : u # t =>
          pc'[u] = pc[u] /\ block'[u] = block[u] /\ last'[u] = last[u]
    BY DEF TypeOK, DecrPush, Move
  <1>2. /\ block'[t] = block[t]
        /\ pc'[t] = "decrReset"
        /\ pc[t] = "decrPush"
        /\ block[t] \in Blocks
        /\ UNCHANGED <<users, allocated, last>>
    BY PoolAssumption DEF TypeOK, DecrPush, Move
  <1>3. \A u \in Threads : Has(u, block[t]) => u = t
    BY DEF Alone, DecrPush, Move
  <1>4. \A c \in Blocks : stacked'[c] = (IF c = block[t] THEN 1 ELSE stacked[c])
    BY DEF TypeOK, InPool, Has, DecrPush, Move
  <1>5. block[t] \in allocated
    BY DEF TypeOK, InPool, DecrPush, Move
  <1>6. TypeOK'
    BY <1>4 DEF TypeOK, Places, DecrPush, Move
  <1>7. \A c \in Blocks : (\A u \in Threads : ~Has(u, c)') <=> c = block[t] \/ (\A u \in Threads : ~Has(u, c))
    BY <1>1, <1>2, <1>3 DEF Has
  <1>8. InPool'
    BY <1>1, <1>2, <1>4, <1>5, <1>7 DEF InPool
  <1>9. Alone'
    BY <1>1, <1>2 DEF TypeOK, Alone, Has
  <1>10. Accompanied'
    BY <1>1, <1>2 DEF Accompanied, Incrementing, Has
  <1>11. LastsRight'
    BY <1>1, <1>2 DEF TypeOK, LastsRight, Has
  <1>12. \A v \in Threads, c \in Blocks : Uses(v, c)' <=> Uses(v, c)
    BY <1>1, <1>2 DEF TypeOK, Uses
  <1>13. CountsUsers'
    BY <1>2, <1>12, CountsKept
  <1>14. AssertionHolds'
    BY DEF AssertionHolds, DecrPush, Move
  <1> QED
    BY <1>6, <1>8, <1>9, <1>10, <1>11, <1>13, <1>14

\* The block is no longer its thread's.
LEMMA DecrResetStep ==
  ASSUME IInv, NEW t \in Threads, DecrReset(t)
  PROVE  IInv'
  <1> USE DEF IInv, BACKING
  <1>1. \A u \in Threads : u # t =>
          pc'[u] = pc[u] /\ block'[u] = block[u] /\ last'[u] = last[u]
    BY DEF DecrReset, Drop, Move
  <1>2. /\ pc[t] = "decrReset"
        /\ pc'[t] = "idle"
        /\ block'[t] = Null
        /\ block[t] \in Blocks
        /\ UNCHANGED <<stacked, allocated>>
    BY DEF TypeOK, DecrReset, Drop, Move
  <1>3. \/ users[block[t]] = BACKING /\ users' = [users EXCEPT ![block[t]] = 0]
        \/ UNCHANGED users
    BY DEF TypeOK, DecrReset, Drop
  <1>4. TypeOK'
    BY DEF TypeOK, Places, DecrReset, Drop, Move
  <1>5. \A c \in Blocks : (\A u \in Threads : ~Has(u, c)') <=> (\A u \in Threads : ~Has(u, c))
    BY <1>1, <1>2, PoolAssumption DEF Has
  <1>6. InPool'
    BY <1>1, <1>2, <1>5 DEF InPool
  <1>7. Alone'
    BY <1>1, <1>2 DEF TypeOK, Alone, Has
  <1>8. Accompanied'
    BY <1>1, <1>2 DEF TypeOK, Accompanied, Incrementing, Has
  <1>9. LastsRight'
    BY <1>1, <1>2, <1>3 DEF TypeOK, LastsRight, Has
  <1>10. \A v \in Threads, c \in Blocks : Uses(v, c)' <=> Uses(v, c)
    BY <1>1, <1>2 DEF TypeOK, Uses
  <1>11. CountsUsers'
    BY <1>2, <1>3, <1>10, CountsKept, CountsReset
  <1>12. AssertionHolds'
    BY DEF AssertionHolds, DecrReset, Drop
  <1> QED
    BY <1>4, <1>6, <1>7, <1>8, <1>9, <1>11, <1>12

\* Another user stays.
LEMMA DecrCasStep ==
  ASSUME IInv, NEW t \in Threads, DecrCas(t)
  PROVE  IInv'
  <1> USE DEF IInv, BACKING
  <1>1. \A u \in Threads : u # t =>
          pc'[u] = pc[u] /\ block'[u] = block[u] /\ last'[u] = last[u]
    BY DEF TypeOK, DecrCas, Drop, Move
  <1>2. pc[t] = "decrCas" /\ block[t] \in Blocks /\ UNCHANGED <<stacked, allocated>>
    BY DEF TypeOK, DecrCas, Drop, Move
  <1>3. \/ pc'[t] = "idle" /\ block'[t] = Null /\ users[block[t]] = last[t]
           /\ users' = [users EXCEPT ![block[t]] = last[t] - 1]
        \/ pc'[t] = "decrLoad" /\ UNCHANGED <<users, block, last>>
    BY DEF TypeOK, DecrCas, Exchanged, Kept, Drop, Move
  <1>4. /\ users[block[t]] = last[t] => last[t] \in Nat \ {0}
           /\ \E w \in Threads : w # t /\ Has(w, block[t])
    BY OthersStay DEF DecrCas, Drop, Move, Has, Uses
  <1>5. TypeOK'
    BY <1>4, PoolAssumption DEF TypeOK, Places, DecrCas, Exchanged, Kept, Drop, Move
  <1>6. \A c \in Blocks : (\A u \in Threads : ~Has(u, c)') <=> (\A u \in Threads : ~Has(u, c))
    BY <1>1, <1>2, <1>3, <1>4, PoolAssumption DEF Has
  <1>7. InPool'
    BY <1>1, <1>2, <1>3, <1>6 DEF InPool
  <1>8. Alone'
    BY <1>1, <1>2, <1>3, <1>4 DEF TypeOK, Alone, Has
  <1>9. Accompanied'
    BY <1>1, <1>2, <1>3, <1>4 DEF TypeOK, Accompanied, Incrementing, Has
  <1>10. LastsRight'
    BY <1>1, <1>3, <1>4 DEF TypeOK, LastsRight
  <1>11. \A v \in Threads, c \in Blocks : v # t \/ c # block[t] =>
          (Uses(v, c)' <=> Uses(v, c))
    BY <1>1, <1>3 DEF TypeOK, Uses
  <1>12. CountsUsers'
    <2>1. CASE /\ pc'[t] = "idle"
              /\ block'[t] = Null
              /\ users[block[t]] = last[t]
              /\ users' = [users EXCEPT ![block[t]] = last[t] - 1]
      <3>1. PICK c \in Blocks : c = block[t]
        BY <1>1, <1>2
      <3>2. Uses(t, c) /\ ~Uses(t, c)'
        BY <2>1, <3>1, <1>2 DEF Uses
      <3>3. users' = [users EXCEPT ![c] = users[c] - 1]
        BY <2>1, <3>1
      <3>4. \A v \in Threads, b \in Blocks : v # t \/ b # c => (Uses(v, b)' <=> Uses(v, b))
        BY <3>1, <1>11
      <3> QED
        BY <3>2, <3>3, <3>4, OneUserLess
    <2>2. CASE pc'[t] = "decrLoad" /\ UNCHANGED <<users, block, last>>
      <3>1. \A v \in Threads, c \in Blocks : Uses(v, c)' <=> Uses(v, c)
        BY <2>2, <1>1, <1>2 DEF Uses
      <3> QED
        BY <2>2, <3>1, CountsKept
    <2> QED
      BY <2>1, <2>2, <1>3
  <1>13. AssertionHolds'
    BY DEF AssertionHolds, DecrCas, Exchanged
  <1> QED
    BY <1>5, <1>7, <1>8, <1>9, <1>10, <1>12, <1>13

-----------------------------------------------------------------------------
LEMMA InitIInv == Init => IInv
  <1> SUFFICES ASSUME Init PROVE IInv
    OBVIOUS
  <1> USE PoolAssumption DEF Init
  <1>1. TypeOK
    <2>1. broken \in BOOLEAN /\ stacked \in [Blocks -> {0, 1}] /\ pc \in [Threads -> Places]
      BY DEF Places
    <2>2. spurious \in 0..MaxSpurious /\ done \in [Threads -> 0..Rounds]
      OBVIOUS
    <2> QED
      BY <2>1, <2>2 DEF TypeOK
  <1>2. InPool
    BY DEF InPool, Has
  <1>3. Alone /\ Accompanied /\ LastsRight
    BY DEF Alone, Accompanied, LastsRight, Incrementing
  <1>4. ASSUME NEW b \in Blocks PROVE Counted(b) = {}
    BY <1>4 DEF Counted
  <1>5. CountsUsers
    BY <1>4, FS_EmptySet DEF CountsUsers
  <1> QED
    BY <1>1, <1>2, <1>3, <1>5 DEF IInv, AssertionHolds

LEMMA StepIInv == ~Racing /\ IInv /\ [Next]_vars => IInv'
  <1> SUFFICES ASSUME ~Racing, IInv, [Next]_vars PROVE IInv'
    OBVIOUS
  <1>1. CASE UNCHANGED vars
    BY <1>1 DEF vars, IInv, TypeOK, InPool, Alone, Accompanied, LastsRight,
       CountsUsers, AssertionHolds, Counted, Has, Incrementing
  <1>2. ASSUME NEW t \in Threads, Step(t) PROVE IInv'
    BY <1>2, GetStep, BackStep, ShareStep, IncrLoadStep, IncrHelpStep, IncrCasStep,
       CallDecrStep, DecrLoadStep, DecrLastStep, DecrPushStep, DecrResetStep,
       DecrCasStep DEF Step
  <1> QED
    BY <1>1, <1>2 DEF Next

LEMMA Invariance == ASSUME ~Racing PROVE Spec => []IInv
  <1>1. IInv /\ [Next]_vars => IInv'
    BY StepIInv
  <1> QED
    BY <1>1, InitIInv, PTL DEF Spec

\* The state has its type: no block is on the stack twice (get and back).
THEOREM TypeCorrect == ASSUME ~Racing PROVE Spec => []TypeOK
  <1>1. IInv => TypeOK
    BY DEF IInv
  <1> QED
    BY <1>1, Invariance, PTL

\* A block is on the stack or in somebody's hands, and what was got but not
\* counted in one thread's (get, back, incr_ref and decr_ref).
THEOREM BlocksHaveOnePlace == ASSUME ~Racing PROVE Spec => []OnePlace
  <1>1. IInv => OnePlace
    <2> SUFFICES ASSUME IInv PROVE OnePlace
      OBVIOUS
    <2> USE DEF IInv
    <2>1. ASSUME NEW b \in Blocks PROVE Holders(b) = {} <=> \A t \in Threads : ~Has(t, b)
      BY DEF Holders, Has
    <2>2. ASSUME NEW t \in Threads, pc[t] \in {"own", "decrPush"}
          PROVE  Holders(block[t]) = {t}
      BY <2>2 DEF Alone, Holders, Has
    <2> QED
      BY <2>1, <2>2 DEF InPool, OnePlace
  <1> QED
    BY <1>1, Invariance, PTL

\* The count of each block is the number of its users, or BACKING if it has
\* none (incr_ref and decr_ref).
THEOREM UsersAreCounted == ASSUME ~Racing PROVE Spec => []CountsUsers
  <1>1. IInv => CountsUsers
    BY DEF IInv
  <1> QED
    BY <1>1, Invariance, PTL

\* The assertion of decr_ref holds (lockfree_slab_pool.h:39).
THEOREM NoAssertionFails == ASSUME ~Racing PROVE Spec => []AssertionHolds
  <1>1. IInv => AssertionHolds
    BY DEF IInv
  <1> QED
    BY <1>1, Invariance, PTL
==============================================================================
