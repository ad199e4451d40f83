SPECIFICATION FairSpec
CONSTANTS
    Products = {p1}
    NoProduct = NoProduct
    Parts = {"cart", "profile", "hearts"}
    Slots = {s1, s2, s3}
    Faults = {"message"}
    MaxQty = 2
    MaxTaps = 3
INVARIANTS
    EveryChangeFetched
    SpinnerHasOwner
PROPERTIES
    ChangeFetched
    SpinnerEnds
CHECK_DEADLOCK FALSE
