---------------------------- MODULE MCLocalScan ----------------------------
(***************************************************************************)
(* Stores of a few rows scanned with every mix of chunk sizes.             *)
(***************************************************************************)
EXTENDS LocalScan

MCChunkSizes == {0, 1, 2}
=============================================================================
