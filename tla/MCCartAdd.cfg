SPECIFICATION Spec
CONSTANTS
    Products = {p1}
    NoProduct = NoProduct
    Parts = {"list", "profile"}
    Slots = {s1, s2, s3, s4}
    Faults = {}
    MaxQty = 3
    MaxTaps = 3
CHECK_DEADLOCK FALSE
SYMMETRY Symmetric
PROPERTY
    AddNeverTakes
