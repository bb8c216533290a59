\* Up to three processors are started, each despite a lost interrupt.
SPECIFICATION Spec
CONSTANTS
    Boards <- MCBoards
    MaxLost = 1
INVARIANTS
    OwnStack
    UpIsRunning
    TableRead
PROPERTIES
    TrampolineStable
    Terminates
\* smp_init returns, or stops the boot processor.
CHECK_DEADLOCK FALSE
