SPECIFICATION Spec
CONSTANTS
    A = A
    B = B
    C = C
    D = D
    Node = {A, B, C, D}
    Root = A
    Overlays <- DiamondOverlay
    MayFail = {}
INVARIANT NoDuplicateTraversal
CHECK_DEADLOCK FALSE
