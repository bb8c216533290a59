\* Callers that do not remove the first of several elements.
SPECIFICATION OrderlySpec
CONSTANTS
    cpu1 = cpu1
    cpu2 = cpu2
    CPUs <- MCCPUs
    ThreadAreas <- MCThreadAreas
    ProcessAreas <- MCProcessAreas
    Nodes <- MCNodes
    Steps = 5
INVARIANTS
    OneInside
    AreasOwned
    ListsHold
PROPERTIES
    LockFreed
    ImplementsTable
\* After a failure of thread_create both processors wait for the lock, and
\* nothing more happens once the memory manager has gone astray.
CHECK_DEADLOCK FALSE
