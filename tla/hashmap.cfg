\* Clients that look before they insert, once they have erased.
CONSTANTS
    Maps = {m1, m2}
    Keys = {0, 7, 15, 16}
    Values = {1, 2}
    Hash <- MCHash
    Empty = Empty
    Erased = Erased
    Dead = Dead
    Clients <- MCClients
SYMMETRY MCSymmetry
SPECIFICATION Spec
INVARIANTS TypeOK NeverFull CountsAgree EntriesFound TraversalMeetsAll
PROPERTIES MapSpec
