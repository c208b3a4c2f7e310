SPECIFICATION Spec
CONSTANTS
    Procs = {p1, p2}
    SizeClasses <- TwoClasses
    Sizes <- Requests
    PoolOffset = 1
    PoolSize = 9
    Exclusive <- GrowBeside
    MaxCalls = 2
    MaxCrashes = 0
    None = None
INVARIANTS
    OneOwner
CHECK_DEADLOCK FALSE
