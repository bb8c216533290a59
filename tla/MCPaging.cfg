\* Two processors and the page tables they share, on i386 and on amd64.
SPECIFICATION Spec
CONSTANTS
    CPUs = {c1, c2}
    BootCPU = c1
    SIZE = 4
    Machines <- MCMachines
    MaxCalls = 2
    NoFrame = NoFrame
    NoCall = NoCall
INVARIANTS
    WindowShowsTable
    TablesOwned
PROPERTIES
    ImplementsPageMap
    Terminates
\* The processors have mapped all they have to map.
CHECK_DEADLOCK FALSE
