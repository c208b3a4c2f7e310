SPECIFICATION RFairSpec
CONSTANTS
    Senders = {s1, s2}
    Receivers = {s1, r1}
    Capacity = 2
    Msgs = {small}
    Large = {}
    Mortal = {small}
    Pages = {g1}
    StartTime <- SameTick
    FirstTicket = 2
    FirstStart = 1
    MaxSends = 2
    SpinBound = 1
    None = None
    Recovering = Recovering
    Keepers = {s1, r1}
    MaxCrashes = 1
    Recorded = TRUE
    Quiet = TRUE
    CrashPcs <- Owned
INVARIANTS
    SlotExclusive
PROPERTIES
    ReadyTaken
    DrainedAccepts
CHECK_DEADLOCK FALSE
