\* Two producers and two consumers, or one consumer alone; the addresses of
\* deleted nodes come back.
CONSTANTS
    p1 = p1
    p2 = p2
    c1 = c1
    c2 = c2
    Nodes = {n1, n2}
    Null = null
    Versions = 64
    Producers = {p1, p2}
    Consumers = {c1, c2}
    Quotas <- MCQuotas
    Reuse = TRUE
    MaxSpurious = 1
SPECIFICATION FairSpec
INVARIANTS StackIntact
PROPERTIES LifoSpec Termination
CHECK_DEADLOCK FALSE
