\* Messages of two processors on one screen.
SPECIFICATION Spec
CONSTANTS
    W = 64
    BUFFER = 6
    CPUs = {1, 2}
    Formats <- MCFormats
    ROWS = 2
    COLS = 3
    POINTER = 2
INVARIANTS
    TypeOK
    ScreenShowsTail
    MessagesWhole
    NumbersReadBack
\* The processors have printed all they have to print.
CHECK_DEADLOCK FALSE
