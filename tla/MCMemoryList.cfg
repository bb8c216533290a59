\* The doubly linked lists implement the sets of Memory.
SPECIFICATION ClearSpec
CONSTANTS
    W = 64
    OVERHEAD = 2
    BootFree <- MCBootFree
    BootUsed <- MCBootUsed
    Requests <- MCRequests
INVARIANTS
    ListsWellLinked
PROPERTIES
    ImplementsSets
