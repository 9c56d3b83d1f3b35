----------------------------- MODULE InProcess -----------------------------
(***************************************************************************)
(* A coordinator in one process with its workers and without an overlay,   *)
(* as distributedquery_main sets it up: runCount and runExecute, each with *)
(* a request that carries its own id and may name one worker.  The id of a *)
(* request is the request here.                                            *)
(***************************************************************************)
EXTENDS RequestTable

CONSTANTS
    Workers,        \* the registered workers, in order
    Shard,          \* worker -> its rows, each as the requests that it matches
    Requests,       \* what is asked: its type, Count or Execute, and its target,
                    \* NoTarget for none
    NoTarget,
    ChunkSize,      \* of an EXECUTE request
    MaxCalls        \* bound

VARIABLES
    table,          \* queryStates_
    answer,         \* the last call's request and the rows it says match
    calls

vars == <<table, answer, calls>>

Init ==
    /\ table = <<>>
    /\ answer = [of |-> NoTarget, matched |-> 0]
    /\ calls = 0

\* determineTargetWorkers, as the workers themselves: all of them, or the
\* first with the name.
TargetWorkers(q) ==
    IF q.target = NoTarget THEN Workers
    ELSE LET i == SelectInSeq(Workers, LAMBDA w : w = q.target)
         IN  IF i = 0 THEN <<>> ELSE <<Workers[i]>>

\* LocalQueryEngine::count.
CountOf(q, w) == Cardinality(Hits(Shard[w], q, 0, Len(Shard[w])))

\* processLocalCount: without an overlay canProcessLocally always holds.
LocalCount(q) ==
    IF TargetWorkers(q) = <<>> THEN 0 ELSE CountOf(q, Head(TargetWorkers(q)))

RunCount(q) ==
    /\ calls < MaxCalls
    /\ calls' = calls + 1
    /\ q.type = "Count"
    /\ LET tab == Created(table, q, q)
       IN  table' = [tab EXCEPT ![Find(tab, q)].state = "COMPLETED",
                                ![Find(tab, q)].matched = LocalCount(q)]
    /\ answer' = [of |-> q, matched |-> LocalCount(q)]

\* initializeExecuteProgress and fetchNextExecuteChunks: the first worker the
\* target allows takes part, and is asked for one chunk.  What the caller is
\* given counts as unread, so a later call adds to it.
RunExecute(q) ==
    /\ calls < MaxCalls
    /\ calls' = calls + 1
    /\ q.type = "Execute"
    /\ LET tab == Created(table, q, q)
           i == Find(tab, q)
           ws == SelectSeq(TargetWorkers(q), LAMBDA w : w = Head(TargetWorkers(q)))
           begun == [tab EXCEPT ![i] = WithWorkers([@ EXCEPT !.state = "IN_PROGRESS"],
                                                   ToSet(ws))]
           asked == FoldLeft(LAMBDA t, w : WithLocalChunk(t, i, w, Shard[w], ChunkSize),
                             begun, ws)
       IN  /\ table' = [asked EXCEPT ![i].oddRound = ~@,
                                     ![i].state = IF AllWorkersCompleted(asked[i])
                                                  THEN "COMPLETED" ELSE @]
           /\ answer' = [of |-> q, matched |-> table'[i].matched]

Next == \E q \in Requests : RunCount(q) \/ RunExecute(q)

Spec == Init /\ [][Next]_vars

-----------------------------------------------------------------------------
MatchesOf(q, ws) == FoldLeft(LAMBDA n, w : n + CountOf(q, w), 0, ws)

(* The answer to a COUNT is the number of rows that match at all workers      *)
(* eligible for it, as QueryCoordinator.hpp says of runCount; the code asks   *)
(* the first of them.                                                         *)
CountIsOfAllWorkers ==
    answer.of # NoTarget /\ answer.of.type = "Count" =>
        answer.matched = MatchesOf(answer.of, TargetWorkers(answer.of))
=============================================================================
