\* Callers that keep clear of the near fits: the allocator is safe.
SPECIFICATION ClearSpec
CONSTANTS
    W = 64
    OVERHEAD = 2
    BootFree <- MCBootFree
    BootUsed <- MCBootUsed
    Requests <- MCRequests
INVARIANTS
    IInv
    NoOverlap
    NoStaleHead
    Coalesced
    Conserved
PROPERTIES
    KeepsPromise
