SPECIFICATION Spec
CONSTANTS
    NumRows = 5
    ScanRowBudget = 2
    ChunkSizes <- MCChunkSizes
INVARIANT
    CollectedIsPrefix
PROPERTIES
    EventuallyCompleted
    ImplementsStream
CHECK_DEADLOCK FALSE
