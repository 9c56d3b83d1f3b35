SPECIFICATION Spec
CONSTANTS
    A = A
    B = B
    D = D
    E = E
    Node = {A, B, D, E}
    Root = A
    Overlay <- SharedChildOverlay
    Supply <- TwoRowsBelow
    ChunkSize = 1
    MayFail = {B, D, E}
    MayCrash = {B, D}
INVARIANTS
    DoneMeansCovered
    NoRowTwice
PROPERTIES
    OneHandlerPerRequest
    ImplementsVisit
    ClientIsTold
CHECK_DEADLOCK FALSE
