SPECIFICATION RSpec
CONSTANTS
    Senders = {s1, s2}
    Receivers = {r1}
    Capacity = 2
    Msgs = {big}
    Large = {big}
    Mortal = {}
    Pages = {g1}
    StartTime <- SameTick
    FirstTicket = 2
    FirstStart = 1
    MaxSends = 3
    SpinBound = 2
    None = None
    Recovering = Recovering
    Keepers = {r1}
    MaxCrashes = 2
    Recorded = FALSE
    Quiet = TRUE
    CrashPcs <- BeforeLateClear
SYMMETRY Symmetry
INVARIANTS
    DeliveredIntact
    AcceptedNotSkipped
CHECK_DEADLOCK FALSE
