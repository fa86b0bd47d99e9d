\* A client that inserts and erases at will.
CONSTANTS
    Maps = {m1}
    Keys = {0, 7, 15, 16}
    Values = {1, 2}
    Hash <- MCHash
    Empty = Empty
    Erased = Erased
    Dead = Dead
    Clients <- MCCareless
SPECIFICATION Spec
INVARIANTS ErasedIsGone
