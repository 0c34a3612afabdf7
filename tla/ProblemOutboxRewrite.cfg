SPECIFICATION OutboxSpec
CONSTANTS
    Sets = 1
    Problems = 2
    VerdictCapacity = 2
    MaxVerdicts = 2
    MaxOutboxFaults = 1
PROPERTIES
    RewriteIsAtomic
CHECK_DEADLOCK FALSE
