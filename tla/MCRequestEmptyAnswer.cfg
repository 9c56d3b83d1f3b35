SPECIFICATION Spec
CONSTANTS
    A = A
    B = B
    C = C
    Self = A
    Children <- MCChildren
    Supply <- MCSupply
    ChunkSizes <- MCChunkSizes
    MaxStalls = 1
    MayFail = {}
    MayInterrupt = FALSE
INVARIANT EmptyAnswerIsLast
CHECK_DEADLOCK FALSE
