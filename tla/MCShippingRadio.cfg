SPECIFICATION Spec
CONSTANTS
    m1 = m1
    m2 = m2
    m3 = m3
    Methods = {m1, m2, m3}
    NoMethod = NoMethod
    Lists <- TwoOrOne
    Slots = {s1, s2}
    Faults = {}
    MaxTaps = 2
INVARIANTS
    RadioInRange
CHECK_DEADLOCK FALSE
