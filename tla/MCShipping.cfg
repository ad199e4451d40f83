SPECIFICATION FairSpec
CONSTANTS
    m1 = m1
    m2 = m2
    m3 = m3
    Methods = {m1, m2, m3}
    NoMethod = NoMethod
    Lists <- TwoOrOne
    Slots = {s1, s2}
    Faults = {"message", "null", "failed"}
    MaxTaps = 3
INVARIANTS
    TypeOK
    LoadingHasOwner
    HudHasOwner
    AskedForSelection
PROPERTIES
    SpinnersEnd
CHECK_DEADLOCK FALSE
