\* Two processors share the memory manager.
SPECIFICATION SmpSpec
CONSTANTS
    W = 32
    OVERHEAD = 1
    BootFree <- MCBootFree
    BootUsed <- MCBootUsed
    Requests <- MCRequests
    p1 = p1
    p2 = p2
    CPUs <- MCCPUs
    MaxOwned = 2
INVARIANTS
    Exclusive
PROPERTIES
    LockFreed
\* Both processors may be stopped.
CHECK_DEADLOCK FALSE
