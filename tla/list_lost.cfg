\* Two producers and one consumer: is a node ever lost?
CONSTANTS
    p1 = p1
    p2 = p2
    c1 = c1
    c2 = c2
    Nodes = {n1, n2, n3}
    Dummy = n1
    Null = null
    Versions = 64
    Producers = {p1, p2}
    Consumers = {c1}
    Quotas <- MCLossy
    Reuse = FALSE
    MaxSpurious = 0
SPECIFICATION FairSpec
PROPERTIES Termination
CHECK_DEADLOCK FALSE
