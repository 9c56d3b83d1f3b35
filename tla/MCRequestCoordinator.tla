------------------------ MODULE MCRequestCoordinator ------------------------
(***************************************************************************)
(* A node with its own shard and two children of unequal supply.           *)
(***************************************************************************)
EXTENDS RequestCoordinator, TLC

CONSTANTS A, B, C

MCChildren == <<B, C>>

MCSupply == (A :> 3) @@ (B :> 2) @@ (C :> 1)

MCChunkSizes == {1, 2}
=============================================================================
