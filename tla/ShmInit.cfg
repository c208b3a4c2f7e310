SPECIFICATION FairSpec
CONSTANTS
    p1 = p1
    p2 = p2
    p3 = p3
    Procs = {p1, p2, p3}
    Wish <- Wishes
    Inodes = {i1, i2, i3, i4}
    Found <- AnyFile
    Staggered = TRUE
    MaxCrashes = 2
    None = None
INVARIANTS
    TypeOK
    MagicComplete
    LiveIntact
    LiveTogether
    RegionLaidOut
PROPERTIES
    StartsFinish
CHECK_DEADLOCK FALSE
