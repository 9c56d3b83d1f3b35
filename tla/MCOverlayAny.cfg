SPECIFICATION Spec
CONSTANTS
    A = A
    B = B
    C = C
    D = D
    Node = {A, B, C, D}
    Root = A
    Overlays <- AnyOverlay
    MayFail = {B}
INVARIANTS
    FullCoverage
    NestedMeansOnce
    NoNodeTwiceOnAPath
CHECK_DEADLOCK FALSE
