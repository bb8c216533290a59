\* The highest block taken whole: a stale block stays on list_free.
SPECIFICATION Spec
CONSTANTS
    W = 64
    OVERHEAD = 2
    BootFree <- MCBootFree
    BootUsed <- MCBootUsed
    Requests <- MCTopRequests
INVARIANTS
    FreeApart
