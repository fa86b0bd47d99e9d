\* One producer and two consumers, or two producers; the addresses of deleted
\* nodes come back.
CONSTANTS
    p1 = p1
    p2 = p2
    c1 = c1
    c2 = c2
    Nodes = {n1, n2, n3, n4}
    Dummy = n1
    Null = null
    Versions = 64
    Producers = {p1, p2}
    Consumers = {c1, c2}
    Quotas <- MCQuotas
    Reuse = TRUE
    MaxSpurious = 0
SPECIFICATION FairSpec
INVARIANTS ListIntact
PROPERTIES FifoSpec Termination
CHECK_DEADLOCK FALSE
