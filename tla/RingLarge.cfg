SPECIFICATION Spec
CONSTANTS
    Senders = {s1, s2}
    Receivers = {r1}
    Capacity = 2
    Msgs = {big, small}
    Large = {big}
    Mortal = {}
    Pages = {g1}
    StartTime <- SameTick
    FirstTicket = 2
    FirstStart = 1
    MaxSends = 3
    SpinBound = 2
    None = None
    Recovering = Recovering
SYMMETRY Symmetry
INVARIANTS
    TypeOK
    SlotExclusive
    DeliveredIntact
    NoneSkipped
    NoPageLeak
PROPERTIES
    ImplementsQueue
