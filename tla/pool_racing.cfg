\* A thread may be counted in while the last user leaves.
CONSTANTS
    Threads = {t1, t2, t3}
    Blocks = {b1, b2}
    Null = null
    Rounds = 2
    Racing = TRUE
    MaxSpurious = 0
SPECIFICATION Spec
INVARIANTS AssertionHolds
CHECK_DEADLOCK FALSE
