---------------------------- MODULE MCInProcess ----------------------------
(***************************************************************************)
(* The three workers of distributedquery_main.                             *)
(***************************************************************************)
EXTENDS InProcess, TLC

CONSTANTS A, B, C, X

MCWorkers == <<A, B, C>>

MCRequests == [type : {"Count", "Execute"}, target : {NoTarget, A, B, X}]

\* Requests without a target have a filter that fewer rows pass.
MCShard ==
    LET some == {q \in MCRequests : q.target # NoTarget}
    IN  (A :> <<some, {}, MCRequests>>) @@ (B :> <<MCRequests>>)
            @@ (C :> <<some, MCRequests>>)
=============================================================================
