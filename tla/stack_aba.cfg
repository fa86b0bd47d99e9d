\* One producer and two consumers; the addresses of deleted nodes come back.
CONSTANTS
    p1 = p1
    p2 = p2
    c1 = c1
    c2 = c2
    Nodes = {n1, n2}
    Null = null
    Versions = 64
    Producers = {p1}
    Consumers = {c1, c2}
    Quotas <- MCRecycled
    Reuse = TRUE
    MaxSpurious = 0
SPECIFICATION Spec
INVARIANTS AssertionsHold
CHECK_DEADLOCK FALSE
