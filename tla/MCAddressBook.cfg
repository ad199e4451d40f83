SPECIFICATION FairSpec
CONSTANTS
    a1 = a1
    a2 = a2
    Addresses = {a1, a2}
    NoAddress = NoAddress
    Book <- Two
    Slots = {s1, s2}
    Faults = {"message", "null", "failed"}
    MaxScreens = 2
    MaxTaps = 5
INVARIANTS
    TypeOK
    SpinnerHasOwner
    ListIsCurrent
PROPERTIES
    KeepsDefault
    ClosedByItsOwn
    SpinnersEnd
CHECK_DEADLOCK FALSE
