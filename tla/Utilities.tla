------------------------------ MODULE Utilities ------------------------------
(***************************************************************************)
(* The small components, which have nothing to do with each other: a       *)
(* behaviour is one of the component that active names, and the others     *)
(* stay in their initial states.  The barrier's names are its module's.    *)
(***************************************************************************)
EXTENDS Barrier, Integers, Sequences

CONSTANTS CacheKeys, CacheValues, CacheCapacity,       \* LruCache
          Letters, MaxLength,                          \* Trie
          Lists, ListNodes, NoNode,                    \* IntrusiveList, SlabPool
          Options, NoOption, ConfKeys, Texts, Numbers, MaxLines,    \* ConfParser
          MaxProcesses                                 \* ProcStat

VARIABLES
    active,
    sign, first, bound, step, value,                             \* Range
    entry, cache, index, used,                                   \* LruCache
    child, isWord, inserted,                                     \* Trie
    start, end, next, destroyed, dead, contents,                 \* IntrusiveList
    link, live, free, got, returned, ever, deleted,              \* SlabPool
    conf, loaded, var, thrown,                                   \* ConfParser
    spaced, running, started, call, opened, ids, head, rest, result, restarted   \* ProcStat

Loop == INSTANCE Range WITH Signs <- {"signed", "unsigned"}, start <- first, end <- bound
Lru  == INSTANCE LruCache WITH
            Keys <- CacheKeys, Values <- CacheValues, Capacity <- CacheCapacity
Tri  == INSTANCE Trie WITH next <- child
Lst  == INSTANCE IntrusiveList WITH Nodes <- ListNodes, Null <- NoNode
Pool == INSTANCE SlabPool WITH Nodes <- ListNodes, Null <- NoNode, next <- link
Conf == INSTANCE ConfParser WITH Keys <- ConfKeys
Proc == INSTANCE ProcStat WITH pc <- call

ASSUME UtilitiesAssumption ==
    /\ Loop!WordAssumption /\ Lru!CapacityAssumption /\ Tri!LengthAssumption
    /\ Lst!NodeAssumption /\ Pool!NodeAssumption
    /\ Conf!ConfAssumption /\ Proc!ProcessAssumption

Components ==
    {"Barrier", "Range", "LruCache", "Trie", "IntrusiveList", "SlabPool", "ConfParser", "ProcStat"}

\* What is not active starts in one state.
InitAll ==
    /\ active \in Components
    /\ Init      /\ (active # "Barrier" => needed = CHOOSE n \in PartyCounts : TRUE)
    /\ Loop!Init /\ (active # "Range" =>
                        sign = "signed" /\ first = 0 /\ bound = 0 /\ step = 0)
    /\ Proc!Init /\ (active # "ProcStat" => spaced = {})
    /\ Lru!Init /\ Tri!Init /\ Lst!Init /\ Pool!Init /\ Conf!Init

rangeVars == <<sign, first, bound, step, value>>
cacheVars == <<entry, cache, index, used>>
trieVars  == <<child, isWord, inserted>>
listVars  == <<start, end, next, destroyed, dead, contents>>
poolVars  == <<link, live, free, got, returned, ever, deleted>>
confVars  == <<conf, loaded, var, thrown>>
procVars  == <<spaced, running, started, call, opened, ids, head, rest, result, restarted>>

varsAll == <<active, vars, rangeVars, cacheVars, trieVars, listVars, poolVars, confVars, procVars>>

NextAll ==
    /\ UNCHANGED active
    /\ IF active = "Barrier" THEN Next ELSE UNCHANGED vars
    /\ IF active = "Range" THEN Loop!Next ELSE UNCHANGED rangeVars
    /\ IF active = "LruCache" THEN Lru!Next ELSE UNCHANGED cacheVars
    /\ IF active = "Trie" THEN Tri!Next ELSE UNCHANGED trieVars
    /\ IF active = "IntrusiveList" THEN Lst!Next ELSE UNCHANGED listVars
    /\ IF active = "SlabPool" THEN Pool!Next ELSE UNCHANGED poolVars
    /\ IF active = "ConfParser" THEN Conf!Next ELSE UNCHANGED confVars
    /\ IF active = "ProcStat" THEN Proc!Next ELSE UNCHANGED procVars

SpecAll == InitAll /\ [][NextAll]_varsAll

\* The operating system keeps running some thread that can run.
FairSpecAll == SpecAll /\ WF_varsAll(NextAll)

-----------------------------------------------------------------------------
\* The properties of the active component, which its module explains.

\* The state of the active component has its type; the others keep their
\* initial ones.
TypesOK ==
    /\ active = "Barrier" => TypeOK
    /\ active = "Range" => Loop!TypeOK
    /\ active = "LruCache" => Lru!TypeOK
    /\ active = "Trie" => Tri!TypeOK
    /\ active = "IntrusiveList" => Lst!TypeOK
    /\ active = "SlabPool" => Pool!TypeOK
    /\ active = "ConfParser" => Conf!TypeOK
    /\ active = "ProcStat" => Proc!TypeOK

\* A loop over a range meets start, start + step and so on up to its end, and
\* ends (operator++ and operator!= of range.h).
StaysInRange == active = "Range" => Loop!StaysInRange
LoopEnds     == active = "Range" => Loop!LoopEnds

\* The cache's index agrees with its list, and they hold what was used last
\* (Get and Set of lru.h).
CacheIntact == active = "LruCache" => Lru!IndexAgrees /\ Lru!HoldsMostRecent

\* The trie finds the words inserted and no others, and is a tree (Insert, Find
\* and ~TrieNode of trie.h).
TrieIntact == active = "Trie" => Tri!WordsFound /\ Tri!OneTree

\* Each list links what was pushed and not popped, and its destructor leaves
\* the last of it (push, append, pop and ~List of list.h).
ListsIntact == active = "IntrusiveList" => Lst!ChainsIntact /\ Lst!LastIsLeft

\* The pool's free nodes are those given back, and its destructor deletes some
\* node twice just when there ever were some (get, back and ~SlabPool of
\* slab_pool.h).
PoolIntact == active = "SlabPool" => Pool!FreeIntact /\ Pool!DeletedOnce

\* The parser has what the file says up to its end or its first malformed line,
\* over what it had before (load, set and get of conf_parser.h).
LoadReads == active = "ConfParser" => Conf!LoadReads

\* An update that succeeds is about one process, unless the pid went to another
\* one meanwhile or a blank in the command hid the rest (update of proc_stat.h).
OneProcess == active = "ProcStat" => Proc!OneProcess
=============================================================================
