--------------------------- MODULE MCOverlayVisit ---------------------------
(***************************************************************************)
(* Overlays for OverlayVisit: all overlays of a few nodes, and the one     *)
(* where two branches meet in a shared node.                               *)
(***************************************************************************)
EXTENDS OverlayVisit

CONSTANTS A, B, C, D

\* B and C share the child D.
DiamondOverlay ==
    {[n \in Node |-> CASE n = A -> {B, C}
                       [] n \in {B, C} -> {D}
                       [] OTHER -> {}]}

\* Every overlay of these nodes: shared nodes, cycles, unreachable nodes.
AnyOverlay ==
    {f \in [Node -> SUBSET Node] : \A n \in Node : n \notin f[n]}
=============================================================================
