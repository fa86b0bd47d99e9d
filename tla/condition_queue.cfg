CONSTANTS
    Producers = {p1, p2}
    Consumers = {c1, c2}
    Capacity = 2
    PutQuota = 2
    TakeQuota = 2
    MaxSpurious = 1
    NoThread = NoThread
SPECIFICATION FairSpec
INVARIANTS TypeOK NoLostWakeup
PROPERTIES FifoSpec Termination
CHECK_DEADLOCK FALSE
