\* The last user of a block leaves when nobody is being counted in.
CONSTANTS
    Threads = {t1, t2, t3}
    Blocks = {b1, b2}
    Null = null
    Rounds = 2
    Racing = FALSE
    MaxSpurious = 1
SPECIFICATION FairSpec
INVARIANTS TypeOK OnePlace CountsUsers AssertionHolds
PROPERTIES Termination
CHECK_DEADLOCK FALSE
