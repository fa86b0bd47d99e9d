CONSTANTS
    Producers = {p1, p2}
    Consumers = {c1, c2}
    Capacity = 1
    PutQuota = 2
    TakeQuota = 2
    MaxInterrupts = 1
    NoThread = NoThread
SPECIFICATION Spec
INVARIANTS AssertionsHold
CHECK_DEADLOCK FALSE
