SPECIFICATION Spec
CONSTANTS
    Senders = {s1, s2}
    Receivers = {r1}
    Capacity = 2
    Msgs = {big}
    Large = {big}
    Mortal = {big}
    Pages = {g1}
    StartTime <- Apart
    FirstTicket = 2
    FirstStart = 1
    MaxSends = 3
    SpinBound = 2
    None = None
    Recovering = Recovering
SYMMETRY Symmetry
INVARIANTS
    NoDoubleFree
