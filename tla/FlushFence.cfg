SPECIFICATION FSpec
CONSTANTS
    Senders = {s1}
    Receivers = {r1}
    Capacity = 2
    Msgs = {big}
    Large = {big}
    Mortal = {big}
    Pages = {g1}
    StartTime <- SameTick
    FirstTicket = 2
    FirstStart = 1
    MaxSends = 1
    SpinBound = 2
    None = None
    Recovering = Recovering
    MaxInits = 1
    MaxFlushes = 1
SYMMETRY Symmetry
INVARIANTS
    FTypeOK
PROPERTIES
    FenceUntilInit
CHECK_DEADLOCK FALSE
