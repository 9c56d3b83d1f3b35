SPECIFICATION Spec
CONSTANTS
    A = A
    B = B
    C = C
    Self = A
    Children <- MCChildren
    Supply <- MCSupply
    ChunkSizes <- MCChunkSizes
    MaxStalls = 1
    MayFail = {B, C}
    MayInterrupt = TRUE
INVARIANTS
    ExactlyOnce
    DoneMeansDelivered
    WindowIsBounded
PROPERTIES
    InterruptStopsFetching
    CallerIsReleased
    ImplementsStream
CHECK_DEADLOCK FALSE
