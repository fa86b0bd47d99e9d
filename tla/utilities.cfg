\* Each of the small components alone, and each of the vendored hashmaps.
CONSTANTS
    Threads = {t1, t2, t3, t4}
    MaxSpurious = 3
    PartyCounts = {2, 4}
    Word = 8
    CacheKeys = {1, 2, 3}
    CacheValues = {1, 2}
    CacheCapacity = 2
    Letters = {a, b}
    MaxLength = 2
    Lists = {l1, l2}
    ListNodes = {n1, n2, n3}
    NoNode = noNode
    Options = {noOption, net}
    NoOption = noOption
    ConfKeys = {port}
    Texts = {one, name}
    Numbers = {one}
    MaxLines = 3
    MaxProcesses = 3
    TableKeys = {0, 3, 7, 8}
    TableValues = {1, 2}
    TableHash <- MCTableHash
    EmptyFlag = empty
    DeletedFlag = deleted
    Junk = junk
    MaxBuckets = 8
    ChainEntries = {1, 2, 3}
    ChainKeys = {0, 1, 2}
    Asked = 2
    NoEntry = noEntry
    Dangling = dangling
SPECIFICATION FairSpecMC
INVARIANTS TypesOK NobodyEarly StaysInRange CacheIntact TrieIntact ListsIntact PoolIntact LoadReads OneProcess TableIntact HashChainsIntact
PROPERTIES EverybodyPasses LoopEnds TableSpec
CHECK_DEADLOCK FALSE
