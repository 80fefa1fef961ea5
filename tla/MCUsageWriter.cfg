\* Shutdown with three requests; the process stops when main exits.
SPECIFICATION WriterSpec
CONSTANTS
    q1 = q1
    q2 = q2
    q3 = q3
    Handlers <- MCHandlers
    usageChannelCapacity = 1
    Deliveries = 1
CHECK_DEADLOCK FALSE
INVARIANT TypeOK
INVARIANT OneOutcome
INVARIANT CleanShutdownDrains
PROPERTY ShutdownEnds
