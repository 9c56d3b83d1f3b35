------------------------------ MODULE MCProbe ------------------------------
(***************************************************************************)
(* An overlay with a shared node, a cycle through the start and a Python   *)
(* node that has a neighbor it never calls.                                *)
(***************************************************************************)
EXTENDS Probe

CONSTANTS A, B, C, D

CyclicNeighbors ==
    [n \in Node |-> CASE n = A -> {B, C}
                      [] n = B -> {A, C, D}
                      [] n = C -> {D}
                      [] n = D -> {A}]
=============================================================================
