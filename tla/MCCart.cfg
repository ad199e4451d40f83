SPECIFICATION Spec
CONSTANTS
    Products = {p1, p2}
    NoProduct = NoProduct
    Parts = {"list", "cart", "profile", "hearts"}
    Slots = {s1, s2, s3}
    Faults = {"message", "failed"}
    MaxQty = 2
    MaxTaps = 3
SYMMETRY Symmetric
INVARIANTS
    TypeOK
    OwnLine
    HomeOneAtATime
    HomeNotNegative
PROPERTY
    ImplementsStore
CHECK_DEADLOCK FALSE
