SPECIFICATION Spec
CONSTANTS
    Procs = {p1, p2}
    GroupNames = {g1, g2}
    Channels = {c1, c2, c3}
    NumSlots = 2
    NumMembers = 2
    Arrays = {a1, a2}
    Expiry = 0
    MaxTime = 1
    MaxCalls = 3
    MaxReads = 1
    MaxCrashes = 1
    None = None
SYMMETRY Symmetry
INVARIANTS
    TypeOK
    MembersReached
    OnlyMembers
    CountCovers
    GroupsApart
CHECK_DEADLOCK FALSE
