-------------------------------- MODULE Trie --------------------------------
(***************************************************************************)
(* naesala/container/trie.h: a set of words, kept as the tree of their     *)
(* prefixes.                                                               *)
(***************************************************************************)
EXTENDS Naturals, Sequences, FiniteSets, SequencesExt

CONSTANTS Letters,
          MaxLength   \* bound: the length of the words a client uses

LengthAssumption == MaxLength \in Nat /\ IsFiniteSet(Letters)

Words == UNION {[1..n -> Letters] : n \in 0..MaxLength}

Null == 0
Root == 1

\* Every prefix of a word needs a node at most.
Nodes == 1..Cardinality(Words)

VARIABLES next,       \* next of each node that new has made
          isWord,     \* is_word of those nodes
          inserted    \* history: the words inserted

vars == <<next, isWord, inserted>>

NoNext == [c \in Letters |-> Null]

\* root_.
Init ==
    /\ next = <<NoNext>>
    /\ isWord = <<FALSE>>
    /\ inserted = {}

\* A tree and the node that Insert's p is at.
Start == [next |-> next, isWord |-> isWord, p |-> Root]

\* A defect to catch: a new node is linked in the place of one that is there.
FollowNew(tree, c) ==
    LET new == Len(tree.next) + 1
    IN  [next   |-> Append([tree.next EXCEPT ![tree.p][c] = new], NoNext),
         isWord |-> Append(tree.isWord, FALSE),
         p      |-> new]

\* Follows the letter c, along a new node if there is none yet.
Follow(tree, c) ==
    IF tree.next[tree.p][c] # Null
    THEN [tree EXCEPT !.p = tree.next[tree.p][c]]
    ELSE LET new == Len(tree.next) + 1
         IN  [next   |-> Append([tree.next EXCEPT ![tree.p][c] = new], NoNext),
              isWord |-> Append(tree.isWord, FALSE),
              p      |-> new]

\* The trees that Insert makes, one for each letter.
Grown(word) ==
    LET tree[i \in 0..Len(word)] == IF i = 0 THEN Start ELSE Follow(tree[i - 1], word[i])
    IN  tree

Insert(word) ==
    LET end == Grown(word)[Len(word)]
    IN  /\ next' = end.next
        /\ isWord' = [end.isWord EXCEPT ![end.p] = TRUE]
        /\ inserted' = inserted \cup {word}

\* A defect to catch: a letter without a node is left out.
MetOn(word) ==
    LET p[i \in 0..Len(word)] ==
            IF i = 0 THEN Root
            ELSE IF next[p[i - 1]][word[i]] = Null THEN p[i - 1] ELSE next[p[i - 1]][word[i]]
    IN  p

\* What Find's p is after each letter.
Met(word) ==
    LET p[i \in 0..Len(word)] ==
            IF i = 0 THEN Root ELSE IF p[i - 1] = Null THEN Null ELSE next[p[i - 1]][word[i]]
    IN  p

\* The node the word leads to, or null.
Find(word) == Met(word)[Len(word)]

Search(word) == Find(word) # Null /\ isWord[Find(word)]

StartsWith(word) == Find(word) # Null

Next == \E word \in Words : Insert(word)

Spec == Init /\ [][Next]_vars

-----------------------------------------------------------------------------
\* Type invariant.
TypeOK ==
    /\ next \in Seq([Letters -> 0..Len(next)]) /\ Len(next) <= Cardinality(Words)
    /\ isWord \in [DOMAIN next -> BOOLEAN]
    /\ inserted \subseteq Words

\* Search finds the words that were inserted, and StartsWith what one of them
\* starts with, and the empty prefix (Insert and Find of trie.h).
WordsFound ==
    \A word \in Words :
        /\ Search(word) <=> word \in inserted
        /\ StartsWith(word) <=> word = <<>> \/ \E w \in inserted : IsPrefix(word, w)

\* One link leads to each node but the root, and none to the root: the
\* destructor, which deletes along the links, deletes every node once.
OneTree ==
    \A n \in DOMAIN next :
        Cardinality({link \in (DOMAIN next) \X Letters : next[link[1]][link[2]] = n})
            = IF n = Root THEN 0 ELSE 1
=============================================================================
