SPECIFICATION FairSpec
CONSTANTS
    p1 = p1
    p2 = p2
    p3 = p3
    room = room
    own = own
    own2 = own2
    Procs = {p1, p2}
    Everyone = Everyone
    Channels = {room, own}
    Owner <- Owner2
    Members <- OneEach
    Senders = {p1}
    Groupers = {p1}
    Receivers = {p2}
    Flushers = {p2}
    Mortal = {p1, p2}
    Watchdogs = {p2}
    MaxProcesses = 2
    ReuseSlots = FALSE
    RingCap = 1
    BufCap = 1
    SocketMax = 2
    DrainMax = 1
    SpinBound = 1
    MaxSends = 3
    None = None
    Torn = Torn
INVARIANTS
    TypeOK
    LiveRegistered
    NoLostWakeup
PROPERTIES
    Drained
CHECK_DEADLOCK FALSE
