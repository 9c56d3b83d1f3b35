--------------------------- MODULE MCServerTables ---------------------------
(***************************************************************************)
(* A parent and its child, both asked by clients; pressure passes its two  *)
(* marks with one request and with four.                                   *)
(***************************************************************************)
EXTENDS ServerTables, TLC

CONSTANTS A, B, c1, c2, c3

MCChildren == (A :> <<B>>) @@ (B :> <<>>)

\* The budget is two rows, so that the first call of c3 is answered without a
\* row, wherever it asks.
MCShard ==
    (A :> <<{c1}, {}, {c1, c2, c3}>>) @@ (B :> <<{c2}, {}, {c1, c2, c3}>>)

MCEntries ==
    { (c1 :> A) @@ (c2 :> A) @@ (c3 :> B), (c1 :> A) @@ (c2 :> B) @@ (c3 :> A) }

MCAsked == (c1 :> 0) @@ (c2 :> 2) @@ (c3 :> 0)
=============================================================================
