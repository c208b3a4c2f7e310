SPECIFICATION Spec
CONSTANTS
    Procs = {p1, p2, p3}
    Names = {n1, n2, n3}
    Hash <- Colliding
    NumSlots = 2
    Rings = {g1, g2, g3}
    MaxCalls = 3
    MaxCrashes = 2
    MaxFlushes = 1
    None = None
SYMMETRY Symmetry
INVARIANTS
    TypeOK
    LookupExact
    OneRing
    RealRings
    FullIsFull
CHECK_DEADLOCK FALSE
