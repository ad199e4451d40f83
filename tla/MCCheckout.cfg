SPECIFICATION Spec
CONSTANTS
    Methods = {m1, m2}
    NoMethod = NoMethod
    Addresses = {a1, a2}
    NoAddress = NoAddress
    Slots = {s1, s2}
    Faults = {"message", "null", "failed"}
    MaxScreens = 2
    MaxTaps = 5
SYMMETRY Symmetric
INVARIANTS
    TypeOK
    OneAtATime
    SpinnerHasOwner
    DeliverySetFirst
    MisdeliveryExplained
PROPERTIES
    ImplementsFlow
CHECK_DEADLOCK FALSE
