\* Two producers, two consumers, and waits that are interrupted.
CONSTANTS
    Producers = {p1, p2}
    Consumers = {c1, c2}
    Capacity = 2
    PutQuota = 2
    TakeQuota = 2
    MaxInterrupts = 2
    NoThread = NoThread
SPECIFICATION FairSpec
INVARIANTS TypeOK PermitsConserved AbortsAreInterrupted
PROPERTIES FifoSpec Termination
CHECK_DEADLOCK FALSE
