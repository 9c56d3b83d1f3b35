SPECIFICATION Spec
CONSTANTS
    A = A
    B = B
    C = C
    D = D
    Node = {A, B, C, D}
    Start = A
    Neighbors <- CyclicNeighbors
    Forwarding = {A, B, C}
    TTL = 3
    MayCrash = {A, B}
    MaxCrashes = 2
INVARIANTS
    ReplyIsComplete
    OneHandlerAtWork
PROPERTY FloodEnds
CHECK_DEADLOCK FALSE
