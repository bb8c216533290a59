\* A request that nearly fits: an area in use is also free.
SPECIFICATION Spec
CONSTANTS
    W = 64
    OVERHEAD = 2
    BootFree <- MCBootFree
    BootUsed <- MCBootUsed
    Requests <- MCNearRequests
INVARIANTS
    UsedIsNotFree
