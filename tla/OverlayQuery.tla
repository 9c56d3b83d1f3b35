---------------------------- MODULE OverlayQuery ----------------------------
(***************************************************************************)
(* One EXECUTE query on the whole overlay: the requests it leaves on the   *)
(* nodes, the SubmitSubQuery and FetchSubChunk calls between them and the  *)
(* rows that flow back to the client.                                      *)
(*                                                                         *)
(* A request is named by the chain of nodes it came through.  A call that  *)
(* a request serves asks in turn its own worker and its children; while it *)
(* waits for a child's answer it does nothing else.  RPCs have deadlines:  *)
(* the caller may give up at any time, and then the handler it has started *)
(* runs on, unheard, down to the end of the overlay.  A node may crash.    *)
(*                                                                         *)
(* RequestCoordinator models a single request in full detail; here its     *)
(* local worker simply hands over the next chunk, nobody cancels, and the  *)
(* chunk size is fixed.                                                    *)
(***************************************************************************)
EXTENDS Naturals, Sequences, SequencesExt

CONSTANTS
    Node, Root,
    Overlay,        \* the children of every node, in order
    Supply,         \* matching rows of every node's own shard
    ChunkSize,
    MayFail,        \* nodes an RPC to which may fail or time out
    MayCrash        \* nodes that may crash

\* No node is its own child: validateConfig refuses such a .conf file.
ASSUME OverlayQueryAssumption ==
    /\ Root \in Node
    /\ Overlay \in [Node -> Seq(Node)]
    /\ \A n \in Node : \A i \in DOMAIN Overlay[n] : Overlay[n][i] # n
    /\ Supply \in [Node -> Nat]
    /\ ChunkSize \in Nat \ {0}
    /\ MayCrash \subseteq MayFail /\ MayFail \subseteq Node \ {Root}

VARIABLES
    visited,        \* the visited list of every request
    progress,       \* WorkerProgress of every request's workers
    window,         \* rows merged and not yet handed to the caller
    left,           \* matching rows the request's local worker still holds
    oddRound,       \* fetchRound_ % 2 = 1
    plan,           \* workers the call in progress has still to ask
    serving,        \* requests a handler is running for
    awaited,        \* requests the caller of which waits for the handler
    failed,         \* nodes some caller gave up on
    down,           \* nodes that crashed
    out,            \* the rows the client got
    told            \* the client was told "done"

requestVars == <<visited, progress, window, left, oddRound>>
callVars == <<plan, serving, awaited>>
vars == <<requestVars, callVars, failed, down, out, told>>

Request == DOMAIN visited

NodeOf(p) == Last(p)

ChildrenOf(n) == ToSet(Overlay[n])

\* Children of p's node that are on p's visited list are no workers of p.
Worker(p) == {NodeOf(p)} \cup (ChildrenOf(NodeOf(p)) \ visited[p])

Row == Node \X (Nat \ {0})

NewProgress(n, v) ==
    [w \in {n} \cup (ChildrenOf(n) \ v) |-> IF w = n THEN "submitted" ELSE "new"]

Init ==
    LET Entry(e) == [p \in {<<Root>>} |-> e]
    IN  /\ visited = Entry({Root})
        /\ progress = Entry(NewProgress(Root, {Root}))
        /\ window = Entry(<<>>) /\ left = Entry(Supply[Root])
        /\ oddRound = Entry(FALSE) /\ plan = Entry(<<>>)
        /\ serving = {} /\ awaited = {}
        /\ failed = {} /\ down = {}
        /\ out = <<>> /\ told = FALSE

AllWorkersCompleted(p) == \A w \in Worker(p) : progress[p][w] = "completed"

-----------------------------------------------------------------------------
\* A call of fetchChunkForRpc enters at p: it plans a fetch round if p's
\* window is used up and some worker is not completed.
Enter(p) ==
    LET self == <<NodeOf(p)>>
        others == Overlay[NodeOf(p)]
    IN  /\ serving' = serving \cup {p}
        /\ awaited' = awaited \cup {p}
        /\ plan' = [plan EXCEPT ![p] =
              IF window[p] # <<>> \/ AllWorkersCompleted(p) THEN <<>>
              ELSE IF oddRound[p] THEN others \o self ELSE self \o others]
        /\ oddRound' = [oddRound EXCEPT ![p] =
              IF window[p] # <<>> \/ AllWorkersCompleted(p) THEN @ ELSE ~@]

\* FetchChunk of the client, one call at a time.
ClientCalls ==
    /\ ~told
    /\ <<Root>> \notin awaited
    /\ Enter(<<Root>>)
    /\ UNCHANGED <<visited, progress, window, left, failed, down, out, told>>

\* p's handler runs, waits for no child and has w to ask next.
Turn(p, w) ==
    /\ p \in serving /\ NodeOf(p) \notin down
    /\ \A c \in Worker(p) : Append(p, c) \notin awaited
    /\ plan[p] # <<>> /\ Head(plan[p]) = w

Advance(p) == plan' = [plan EXCEPT ![p] = Tail(@)]

\* A child on p's visited list is passed over.
SkipVisited(p, c) ==
    /\ Turn(p, c)
    /\ c # NodeOf(p) /\ c \in visited[p]
    /\ Advance(p)
    /\ UNCHANGED <<requestVars, serving, awaited, failed, down, out, told>>

SkipCompleted(p, w) ==
    /\ Turn(p, w)
    /\ progress[p][w] = "completed"
    /\ Advance(p)
    /\ UNCHANGED <<requestVars, serving, awaited, failed, down, out, told>>

AtMost(m, n) == IF m < n THEN m ELSE n

\* fetchLocalExecuteChunk: a full chunk says that there is more, also if it has
\* the last row.
FetchLocal(p) ==
    LET n == NodeOf(p)
        k == AtMost(ChunkSize, left[p])
    IN  /\ Turn(p, n)
        /\ progress[p][n] # "completed"
        /\ window' = [window EXCEPT ![p] =
                         @ \o [i \in 1 .. k |-> <<n, Supply[n] - left[p] + i>>]]
        /\ left' = [left EXCEPT ![p] = @ - k]
        /\ progress' = [progress EXCEPT ![p][n] =
                            IF k = ChunkSize THEN @ ELSE "completed"]
        /\ Advance(p)
        /\ UNCHANGED <<visited, oddRound, serving, awaited, failed, down, out,
                       told>>

\* MUTANT: a child learns only of the nodes on its own path.
ForwardedPathOnly(p, c) == visited[p] \cup {NodeOf(p), c}

\* The visited list of the request that p's submitSubQuery leaves at c.
Forwarded(p, c) == visited[p] \cup {NodeOf(p), c} \cup ChildrenOf(NodeOf(p))

\* A table of the requests with entry e for the new request q.
Extended(table, q, e) ==
    [p \in DOMAIN table \cup {q} |-> IF p = q THEN e ELSE table[p]]

\* submitSubQuery: c records a request of its own.
SubmitToChild(p, c) ==
    LET q == Append(p, c)
    IN  /\ Turn(p, c) /\ c # NodeOf(p)
        /\ progress[p][c] = "new" /\ c \notin down
        /\ visited' = Extended(visited, q, Forwarded(p, c))
        /\ progress' = Extended([progress EXCEPT ![p][c] = "submitted"],
                                q, NewProgress(c, Forwarded(p, c)))
        /\ window' = Extended(window, q, <<>>)
        /\ left' = Extended(left, q, Supply[c])
        /\ oddRound' = Extended(oddRound, q, FALSE)
        /\ plan' = Extended(plan, q, <<>>)
        /\ UNCHANGED <<serving, awaited, failed, down, out, told>>

\* fetchSubChunk reaches c.
CallChild(p, c) ==
    /\ Turn(p, c) /\ c # NodeOf(p)
    /\ progress[p][c] = "submitted" /\ c \notin down
    /\ Enter(Append(p, c))
    /\ UNCHANGED <<visited, progress, window, left, failed, down, out, told>>

\* p's handler is busy with its child c, before or during an RPC to it.
Busy(p, c) ==
    /\ p \in serving /\ NodeOf(p) \notin down
    /\ plan[p] # <<>> /\ Head(plan[p]) = c
    /\ c \in Worker(p) \ {NodeOf(p)}
    /\ progress[p][c] # "completed"
    /\ Append(p, c) \in awaited \/ Turn(p, c)

\* MUTANT: a child the RPC to which timed out is asked again next round.
GiveUpForNow(p, c) ==
    /\ Busy(p, c) /\ c \in MayFail
    /\ progress' = progress
    /\ awaited' = awaited \ {Append(p, c)}
    /\ failed' = failed \cup {c}
    /\ Advance(p)
    /\ UNCHANGED <<visited, window, left, oddRound, serving, down, out, told>>

\* MUTANT: the error of one child ends the round.
GiveUpRound(p, c) ==
    /\ Busy(p, c) /\ c \in MayFail
    /\ progress' = [progress EXCEPT ![p] = [w \in Worker(p) |-> "completed"]]
    /\ awaited' = awaited \ {Append(p, c)}
    /\ failed' = failed \cup {c}
    /\ plan' = [plan EXCEPT ![p] = <<>>]
    /\ UNCHANGED <<visited, window, left, oddRound, serving, down, out, told>>

\* An RPC to c fails or its deadline passes: c counts as completed for p.
\* The handler the RPC has started, if any, runs on.
GiveUp(p, c) ==
    /\ Busy(p, c) /\ c \in MayFail
    /\ progress' = [progress EXCEPT ![p][c] = "completed"]
    /\ awaited' = awaited \ {Append(p, c)}
    /\ failed' = failed \cup {c}
    /\ Advance(p)
    /\ UNCHANGED <<visited, window, left, oddRound, serving, down, out, told>>

-----------------------------------------------------------------------------
\* p's handler has asked everyone: it takes at most a chunk from the window.
Answering(p) == p \in serving /\ NodeOf(p) \notin down /\ plan[p] = <<>>

Taken(p) == SubSeq(window[p], 1, AtMost(ChunkSize, Len(window[p])))

Rest(p) == SubSeq(window[p], Len(Taken(p)) + 1, Len(window[p]))

IsDone(p) == Rest(p) = <<>> /\ AllWorkersCompleted(p)

\* The answer to the client.
AnswerClient ==
    LET p == <<Root>>
    IN  /\ Answering(p)
        /\ out' = out \o Taken(p)
        /\ window' = [window EXCEPT ![p] = Rest(p)]
        /\ told' = IsDone(p)
        /\ serving' = serving \ {p} /\ awaited' = awaited \ {p}
        /\ UNCHANGED <<visited, progress, left, oddRound, plan, failed, down>>

\* MUTANT: the child's done flag is not looked at.
AnswerCallerMore(p, c) ==
    LET q == Append(p, c)
    IN  /\ q \in awaited /\ NodeOf(p) \notin down
        /\ Answering(q)
        /\ window' = [window EXCEPT ![p] = @ \o Taken(q), ![q] = Rest(q)]
        /\ progress' = progress
        /\ serving' = serving \ {q} /\ awaited' = awaited \ {q}
        /\ Advance(p)
        /\ UNCHANGED <<visited, left, oddRound, failed, down, out, told>>

\* The answer of child c, which p waits for: p merges the rows.
AnswerCaller(p, c) ==
    LET q == Append(p, c)
    IN  /\ q \in awaited /\ NodeOf(p) \notin down
        /\ Answering(q)
        /\ window' = [window EXCEPT ![p] = @ \o Taken(q), ![q] = Rest(q)]
        /\ progress' = [progress EXCEPT ![p][c] =
                            IF IsDone(q) THEN "completed" ELSE @]
        /\ serving' = serving \ {q} /\ awaited' = awaited \ {q}
        /\ Advance(p)
        /\ UNCHANGED <<visited, left, oddRound, failed, down, out, told>>

\* The answer of a handler whose caller is gone: its rows are lost.
AnswerNobody(q) ==
    /\ q # <<Root>>
    /\ q \notin awaited \/ NodeOf(Front(q)) \in down
    /\ Answering(q)
    /\ window' = [window EXCEPT ![q] = Rest(q)]
    /\ serving' = serving \ {q} /\ awaited' = awaited \ {q}
    /\ UNCHANGED <<visited, progress, left, oddRound, plan, failed, down, out,
                   told>>

\* A node's process ends, with all its requests and handlers.
Crash(n) ==
    /\ n \in MayCrash \ down
    /\ down' = down \cup {n}
    /\ UNCHANGED <<requestVars, callVars, failed, out, told>>

HandlerStep(p) ==
    \/ FetchLocal(p)
    \/ \E c \in ChildrenOf(NodeOf(p)) : SkipVisited(p, c)
    \/ \E w \in Worker(p) : \/ SkipCompleted(p, w)
                            \/ SubmitToChild(p, w)
                            \/ CallChild(p, w)
                            \/ AnswerCaller(p, w)
    \/ AnswerNobody(p)

Next ==
    \/ ClientCalls
    \/ AnswerClient
    \/ \E p \in Request :
           HandlerStep(p) \/ \E c \in ChildrenOf(NodeOf(p)) : GiveUp(p, c)
    \/ \E n \in MayCrash : Crash(n)

\* The client keeps calling, a handler runs until it answers, and an RPC to a
\* node that is down ends with an error.
Fairness ==
    /\ WF_vars(ClientCalls)
    /\ WF_vars(AnswerClient)
    /\ WF_vars(\E p \in Request : HandlerStep(p))
    /\ WF_vars(\E p \in Request, c \in down : GiveUp(p, c))

Spec == Init /\ [][Next]_vars /\ Fairness

-----------------------------------------------------------------------------
\* OverlayVisit under this module's names.
VisitChildren == [n \in Node |-> ChildrenOf(n)]

VisitRequest(p) == [path |-> p, node |-> NodeOf(p), visited |-> visited[p]]

VisitRequests == {VisitRequest(p) : p \in Request}

VisitAsked ==
    UNION {{<<VisitRequest(p), c>> :
                c \in {w \in Worker(p) \ {NodeOf(p)} : progress[p][w] # "new"}} :
           p \in Request}

Visit == INSTANCE OverlayVisit WITH
    Overlays <- {VisitChildren}, children <- VisitChildren,
    requests <- VisitRequests, asked <- VisitAsked

\* The calls between the nodes send the query where OverlayVisit says.
ImplementsVisit == Visit!Spec

\* When the client is told "done" it has every row of every node of the
\* overlay, but for those on or below a node that some caller gave up on: one
\* failure, timeout or crash costs no row of the rest of the overlay.
DoneMeansCovered ==
    told => \A n \in Visit!Reachable \ Visit!Excused : \A i \in 1 .. Supply[n] :
                \E k \in DOMAIN out : out[k] = <<n, i>>

\* On an overlay with nested parents no row reaches the client twice, late
\* answers and handlers that run on unheard included.
NoRowTwice ==
    Visit!NestedParents =>
        \A i, j \in DOMAIN out : out[i] = out[j] => i = j

\* A request's rows and progress have no lock: no call comes in for a request
\* while a handler of an earlier one still runs.
OneHandlerPerRequest ==
    [][\A p \in Request : (p \notin awaited /\ p \in awaited') => p \notin serving]_vars

\* The client is told "done", whatever fails.
ClientIsTold == <>told
=============================================================================
