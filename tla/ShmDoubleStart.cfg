SPECIFICATION Spec
CONSTANTS
    p1 = p1
    p2 = p2
    p3 = p3
    Procs = {p1, p2, p3}
    Wish <- Wishes
    Inodes = {i1, i2, i3, i4}
    Found <- NoFile
    Staggered = FALSE
    MaxCrashes = 0
    None = None
INVARIANTS
    LiveIntact
CHECK_DEADLOCK FALSE
