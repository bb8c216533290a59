\* Every block is mapped while page tables are allocated from the lists walked.
SPECIFICATION Spec
CONSTANTS
    W = 1024
    OVERHEAD = 1
    PAGE = 16
    Boots <- MCBoots
    EarlyLimit = 512
    Deadcode = 893
INVARIANTS
    AllMapped
PROPERTIES
    Terminates
\* kernel_entry goes on with smp_init, or stops.
CHECK_DEADLOCK FALSE
