---------------------------- MODULE ChunkStream ----------------------------
(***************************************************************************)
(* What one producer of rows promises the caller that drains it chunk by   *)
(* chunk.  Both sides of the query engine are held to it: the local scan   *)
(* of a node (LocalScan) and a whole request of a coordinator, which       *)
(* merges its local scan and its children (RequestCoordinator).  A         *)
(* coordinator relies on it for each child and promises it to its caller,  *)
(* so the promise passes up the overlay one level at a time.               *)
(*                                                                         *)
(* Row names the rows a producer can hold.  pending is the set of those    *)
(* it owes and has neither handed over nor given up, out the rows handed   *)
(* over, in order, lost those given up (where MayLose or MayStop), and     *)
(* finished tells that the caller was answered with done = TRUE, which a   *)
(* producer that is interrupted says as well.                              *)
(***************************************************************************)
EXTENDS Naturals, Sequences

CONSTANTS Row, MayLose, MayStop

VARIABLES pending, out, lost, finished

vars == <<pending, out, lost, finished>>

ElementsOf(s) == {s[i] : i \in DOMAIN s}

TypeOK ==
    /\ pending \subseteq Row
    /\ out \in Seq(Row)
    /\ lost \subseteq Row
    /\ finished \in BOOLEAN

Init ==
    /\ pending \in SUBSET Row
    /\ out = <<>>
    /\ lost = {}
    /\ finished = FALSE

\* A reply extends out by rows that were still pending, each of them once;
\* "done" may be said only when nothing is pending any more.
Reply ==
    /\ ~finished
    /\ Len(out') >= Len(out)
    /\ SubSeq(out', 1, Len(out)) = out
    /\ LET batch == SubSeq(out', Len(out) + 1, Len(out'))
       IN  /\ \A i, j \in DOMAIN batch : batch[i] = batch[j] => i = j
           /\ ElementsOf(batch) \subseteq pending
           /\ pending' = pending \ ElementsOf(batch)
    /\ finished' \in {FALSE, pending' = {}}
    /\ UNCHANGED lost

\* Rows that can no longer be obtained are given up.
GiveUp ==
    /\ MayLose
    /\ ~finished
    /\ pending' \in SUBSET pending
    /\ lost' = lost \cup (pending \ pending')
    /\ UNCHANGED <<out, finished>>

\* A producer that was interrupted says that it is done, once, and gives up
\* all that is pending.
Stop ==
    /\ MayStop
    /\ ~finished
    /\ finished' = TRUE
    /\ pending' = {}
    /\ lost' = lost \cup pending
    /\ UNCHANGED out

Next == Reply \/ GiveUp \/ Stop

Spec == Init /\ [][Next]_vars
=============================================================================
