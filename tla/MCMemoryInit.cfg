\* Maps whose entries lie in every way to video memory, the kernel and each other,
\* and reserved regions over RAM.
SPECIFICATION Spec
CONSTANTS
    W = 64
    OVERHEAD = 2
    Maps <- MCMaps
    Kernel <- MCKernel
    Graphics <- MCGraphics
    LowPage = 4
INVARIANTS
    LeavesConsistent
    CoversRAM
    ListsWellLinked
PROPERTIES
    Terminates
\* memory_init returns, or stops the machine.
CHECK_DEADLOCK FALSE
