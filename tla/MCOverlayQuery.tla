--------------------------- MODULE MCOverlayQuery ---------------------------
(***************************************************************************)
(* Overlays and supplies for OverlayQuery.                                 *)
(***************************************************************************)
EXTENDS OverlayQuery

CONSTANTS A, B, D, E

\* The part of the shipped overlay where D and its parent B share E.
SharedChildOverlay ==
    [n \in Node |-> CASE n = A -> <<B>>
                      [] n = B -> <<D, E>>
                      [] n = D -> <<E>>
                      [] OTHER -> <<>>]

TwoRowsBelow == [n \in Node |-> IF n \in {A, B} THEN 1 ELSE 2]
=============================================================================
