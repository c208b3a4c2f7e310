SPECIFICATION Spec
CONSTANTS
    Procs = {p1, p2, p3}
    SizeClasses <- TwoClasses
    Sizes <- Requests
    PoolOffset = 1
    PoolSize = 9
    Exclusive <- AllApart
    MaxCalls = 5
    MaxCrashes = 1
    None = None
PROPERTIES
    CallsReturn
INVARIANTS
    TypeOK
    OneOwner
    ListIntact
    NothingLost
    FullMeansFull
CHECK_DEADLOCK FALSE
