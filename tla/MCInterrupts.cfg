\* Both builds, with and without a second processor.
SPECIFICATION Spec
CONSTANTS
    Devices <- MCDevices
    Raises = 2
    Noises = 1
    Exceptions <- MCExceptions
    Faults = 1
INVARIANTS
    ReportRight
    ArgumentsArrive
PROPERTIES
    ResumesRight
    Boots
    IrqsServed
    FaultsReported
\* After an exception the processor halts for ever.
CHECK_DEADLOCK FALSE
