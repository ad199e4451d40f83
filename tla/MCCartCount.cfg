SPECIFICATION Spec
CONSTANTS
    Products = {p1}
    NoProduct = NoProduct
    Parts = {"cart"}
    Slots = {s1, s2, s3}
    Faults = {}
    MaxQty = 2
    MaxTaps = 3
CHECK_DEADLOCK FALSE
SYMMETRY Symmetric
INVARIANT
    CountIsFresh
