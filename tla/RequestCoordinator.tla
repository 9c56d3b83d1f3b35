------------------------- MODULE RequestCoordinator -------------------------
(***************************************************************************)
(* One EXECUTE request at one node: QueryCoordinator::fetchChunkForRpc and *)
(* what it calls, over the request's RequestState.                         *)
(*                                                                         *)
(* The node keeps a window of merged rows (aggregatedResult_) and a cursor *)
(* into it.  When the window is used up and some worker is not completed,  *)
(* a call runs one fetch round: the local worker and every child that is   *)
(* not completed are asked for one chunk each, children after the local    *)
(* worker in even rounds and before it in odd ones.  Every RPC is a step   *)
(* of its own, so CancelQuery, which runs on another server thread, may    *)
(* come between any two of them.  One caller drains the request, one call  *)
(* at a time, as query_client and a parent coordinator do.                 *)
(*                                                                         *)
(* The local worker and the children are ChunkStreams: they hand over      *)
(* their matching rows in order, may answer with no rows yet, and say "no  *)
(* more" only at the end.  The rows themselves are pairs <<source, n>>.    *)
(***************************************************************************)
EXTENDS Naturals, Sequences

CONSTANTS
    Self,           \* the node's own worker
    Children,       \* its children in the overlay not yet visited, in order
    Supply,         \* matching rows each source holds
    ChunkSizes,     \* values chooseAdaptiveChunkSize may return
    MaxStalls,      \* bound: empty "not yet" replies a source may give
    MayFail,        \* children whose RPCs may fail
    MayInterrupt    \* may the request be cancelled or timed out?

Child == {Children[i] : i \in DOMAIN Children}

Source == {Self} \cup Child

ASSUME CoordinatorAssumption ==
    /\ Children \in Seq(Child)
    /\ \A i, j \in DOMAIN Children : Children[i] = Children[j] => i = j
    /\ Self \notin Child
    /\ Supply \in [Source -> Nat]
    /\ ChunkSizes \subseteq Nat \ {0}
    /\ MaxStalls \in Nat
    /\ MayFail \subseteq Child
    /\ MayInterrupt \in BOOLEAN

Row == Source \X (Nat \ {0})

QueryState == {"ABSENT", "IN_PROGRESS", "COMPLETED", "CANCELLED", "TIMED_OUT"}

Message == {"none", "more", "done", "no rows available yet",
            "request not found", "request cancelled", "request timed out"}

VARIABLES
    state,          \* RequestState::state_, ABSENT when there is none
    window,         \* aggregatedResult_.matchedTrips
    nextUnread,     \* nextUnreadIndex_
    oddRound,       \* fetchRound_ % 2 = 1
    completed,      \* WorkerProgress::completed of every worker
    submitted,      \* WorkerProgress::submitted of every child
    phase,          \* where the call in progress is; "idle" between calls
    plan,           \* workers this round has still to ask
    adaptive,       \* adaptiveMaxRows of the call in progress
    reply,          \* the last answer: its message, done flag and row count
    served,         \* rows received from each source so far
    stalls,         \* "not yet" replies each source may still give
    failed,         \* children an RPC to which failed
    out,            \* every row handed to the caller, in order
    saidDone,       \* the caller was told that the rows are complete
    interrupted     \* "no", or when it was last cancelled or timed out:
                    \* "between calls" (for good) or "in a call"

requestVars == <<state, window, nextUnread, oddRound, completed, submitted>>
callVars == <<phase, plan, adaptive, reply>>
sourceVars == <<served, stalls, failed>>
callerVars == <<out, saidDone, interrupted>>
vars == <<requestVars, callVars, sourceVars, callerVars>>

Reply == [message : Message, done : BOOLEAN, rows : Nat]

TypeOK ==
    /\ state \in QueryState
    /\ window \in Seq(Row)
    /\ nextUnread \in 0 .. Len(window)
    /\ oddRound \in BOOLEAN
    /\ completed \in [Source -> BOOLEAN]
    /\ submitted \in [Child -> BOOLEAN]
    /\ phase \in {"idle", "fetching", "answering"}
    /\ plan \in Seq(Source)
    /\ adaptive \in ChunkSizes \cup {0}
    /\ reply \in Reply
    /\ served \in [Source -> Nat]
    /\ stalls \in [Source -> 0 .. MaxStalls]
    /\ failed \subseteq MayFail
    /\ out \in Seq(Row)
    /\ saidDone \in BOOLEAN
    /\ interrupted \in {"no", "in a call", "between calls"}

Init ==
    /\ state = "ABSENT"
    /\ window = <<>> /\ nextUnread = 0
    /\ oddRound = FALSE
    /\ completed = [s \in Source |-> FALSE]
    /\ submitted = [c \in Child |-> FALSE]
    /\ phase = "idle" /\ plan = <<>> /\ adaptive = 0
    /\ reply = [message |-> "none", done |-> FALSE, rows |-> 0]
    /\ served = [s \in Source |-> 0]
    /\ stalls = [s \in Source |-> MaxStalls]
    /\ failed = {}
    /\ out = <<>> /\ saidDone = FALSE /\ interrupted = "no"

AllWorkersCompleted == \A s \in Source : completed[s]

WindowUsedUp == nextUnread >= Len(window)

-----------------------------------------------------------------------------
\* submitClientQuery and submitSubQuery: the request is recorded, its local
\* worker and its children are put on record, and nothing is fetched yet.
Submit ==
    /\ state = "ABSENT"
    /\ phase = "idle"
    /\ state' = "IN_PROGRESS"
    /\ UNCHANGED <<window, nextUnread, oddRound, completed, submitted,
                   callVars, sourceVars, callerVars>>

Answer(message, done, rows) ==
    reply' = [message |-> message, done |-> done, rows |-> rows]

\* A call for an unknown or interrupted request is answered at once.
AnswerAtOnce ==
    /\ phase = "idle"
    /\ \/ state = "ABSENT" /\ Answer("request not found", TRUE, 0)
       \/ state = "CANCELLED" /\ Answer("request cancelled", TRUE, 0)
       \/ state = "TIMED_OUT" /\ Answer("request timed out", TRUE, 0)
    /\ UNCHANGED <<requestVars, phase, plan, adaptive, sourceVars, callerVars>>

RoundPlan ==
    IF oddRound THEN Children \o <<Self>> ELSE <<Self>> \o Children

\* MUTANT: a round is started on a request that was cancelled.
BeginRoundUnchecked ==
    /\ phase = "idle"
    /\ state # "ABSENT"
    /\ adaptive' \in ChunkSizes
    /\ WindowUsedUp /\ ~AllWorkersCompleted
    /\ window' = <<>> /\ nextUnread' = 0
    /\ plan' = RoundPlan
    /\ phase' = "fetching"
    /\ UNCHANGED <<state, oddRound, completed, submitted, reply, sourceVars,
                   callerVars>>

\* MUTANT: the rows already handed over stay in the window.
BeginRoundKeepsWindow ==
    /\ phase = "idle"
    /\ state \in {"IN_PROGRESS", "COMPLETED"}
    /\ adaptive' \in ChunkSizes
    /\ WindowUsedUp /\ ~AllWorkersCompleted
    /\ plan' = RoundPlan
    /\ phase' = "fetching"
    /\ UNCHANGED <<state, window, nextUnread, oddRound, completed, submitted, reply,
                   sourceVars, callerVars>>

\* A call that finds the window used up and some worker not completed starts
\* a fetch round on a cleared window.
BeginRound ==
    /\ phase = "idle"
    /\ state \in {"IN_PROGRESS", "COMPLETED"}
    /\ adaptive' \in ChunkSizes
    /\ WindowUsedUp /\ ~AllWorkersCompleted
    /\ window' = <<>> /\ nextUnread' = 0
    /\ plan' = RoundPlan
    /\ phase' = "fetching"
    /\ UNCHANGED <<state, oddRound, completed, submitted, reply, sourceVars,
                   callerVars>>

\* Any other call answers from the window as it is.
BeginFromWindow ==
    /\ phase = "idle"
    /\ state \in {"IN_PROGRESS", "COMPLETED"}
    /\ adaptive' \in ChunkSizes
    /\ ~WindowUsedUp \/ AllWorkersCompleted
    /\ phase' = "answering"
    /\ UNCHANGED <<requestVars, plan, reply, sourceVars, callerVars>>

-----------------------------------------------------------------------------
\* The next worker of the round is s.
Turn(s) == phase = "fetching" /\ plan # <<>> /\ Head(plan) = s

\* A completed worker is passed over.
SkipCompleted(s) ==
    /\ Turn(s)
    /\ completed[s]
    /\ plan' = Tail(plan)
    /\ UNCHANGED <<requestVars, phase, adaptive, reply, sourceVars, callerVars>>

Batch(s, k) == [n \in 1 .. k |-> <<s, served[s] + n>>]

\* MUTANT: the end of a source is not recorded.
MergeForgetsEnd(s, k, hasMore) ==
    /\ window' = window \o Batch(s, k)
    /\ completed' = completed
    /\ served' = [served EXCEPT ![s] = @ + k]
    /\ plan' = Tail(plan)
    /\ UNCHANGED <<state, nextUnread, oddRound, submitted, phase, adaptive,
                   reply, failed, callerVars>>

\* Source s hands over k rows and says whether there is more
\* (mergePartialResult, then updateWorkerProgress).
Merge(s, k, hasMore) ==
    /\ window' = window \o Batch(s, k)
    /\ completed' = [completed EXCEPT ![s] = ~hasMore]
    /\ served' = [served EXCEPT ![s] = @ + k]
    /\ plan' = Tail(plan)
    /\ UNCHANGED <<state, nextUnread, oddRound, submitted, phase, adaptive,
                   reply, failed, callerVars>>

\* What a ChunkStream may answer to a request for at most `adaptive' rows.
Supplies(s) ==
    \E k \in 0 .. adaptive, hasMore \in BOOLEAN :
        /\ served[s] + k <= Supply[s]
        /\ ~hasMore => served[s] + k = Supply[s]
        /\ IF k = 0 /\ hasMore
           THEN stalls[s] > 0 /\ stalls' = [stalls EXCEPT ![s] = @ - 1]
           ELSE UNCHANGED stalls
        /\ Merge(s, k, hasMore)

\* fetchLocalExecuteChunk.
FetchLocal ==
    /\ Turn(Self)
    /\ ~completed[Self]
    /\ Supplies(Self)

\* submitSubQuery accepted by a child asked for the first time.
SubmitToChild(c) ==
    /\ Turn(c)
    /\ ~completed[c] /\ ~submitted[c]
    /\ submitted' = [submitted EXCEPT ![c] = TRUE]
    /\ UNCHANGED <<state, window, nextUnread, oddRound, completed, callVars,
                   sourceVars, callerVars>>

\* fetchSubChunk answered by a child.
FetchFromChild(c) ==
    /\ Turn(c)
    /\ ~completed[c] /\ submitted[c]
    /\ Supplies(c)

\* Either RPC fails (no stub, transport error, deadline, request not found):
\* the child counts as completed from then on.
ChildFails(c) ==
    /\ Turn(c)
    /\ ~completed[c]
    /\ c \in MayFail
    /\ completed' = [completed EXCEPT ![c] = TRUE]
    /\ failed' = failed \cup {c}
    /\ plan' = Tail(plan)
    /\ UNCHANGED <<state, window, nextUnread, oddRound, submitted, phase,
                   adaptive, reply, served, stalls, callerVars>>

\* The end of fetchNextExecuteChunks.
EndRound ==
    /\ phase = "fetching"
    /\ plan = <<>>
    /\ oddRound' = ~oddRound
    /\ state' = IF AllWorkersCompleted THEN "COMPLETED" ELSE state
    /\ phase' = "answering"
    /\ UNCHANGED <<window, nextUnread, completed, submitted, plan, adaptive,
                   reply, sourceVars, callerVars>>

-----------------------------------------------------------------------------
\* MUTANT: done as soon as the caller has caught up with the window.
AnswerEmptyDone ==
    /\ phase = "answering"
    /\ WindowUsedUp
    /\ Answer("done", TRUE, 0)
    /\ saidDone' = TRUE
    /\ phase' = "idle"
    /\ UNCHANGED <<requestVars, plan, adaptive, sourceVars, out,
                   interrupted>>

\* The window has nothing for the caller: done, or "no rows available yet".
AnswerEmpty ==
    /\ phase = "answering"
    /\ WindowUsedUp
    /\ IF AllWorkersCompleted
       THEN Answer("done", TRUE, 0)
       ELSE Answer("no rows available yet", FALSE, 0)
    /\ saidDone' = (saidDone \/ AllWorkersCompleted)
    /\ phase' = "idle"
    /\ UNCHANGED <<requestVars, plan, adaptive, sourceVars, out,
                   interrupted>>

AtMost(m, n) == IF m < n THEN m ELSE n

\* MUTANT: the cursor moves by the chunk size, not by the rows taken.
AnswerRowsCursorByChunk ==
    LET take == AtMost(adaptive, Len(window) - nextUnread)
        end == nextUnread + take
        done == end >= Len(window) /\ AllWorkersCompleted
    IN  /\ phase = "answering"
        /\ ~WindowUsedUp
        /\ out' = out \o SubSeq(window, nextUnread + 1, end)
        /\ nextUnread' = AtMost(nextUnread + adaptive + 1, Len(window))
        /\ state' = IF done THEN "COMPLETED" ELSE state
        /\ Answer(IF done THEN "done" ELSE "more", done, take)
        /\ saidDone' = (saidDone \/ done)
        /\ phase' = "idle"
        /\ UNCHANGED <<window, oddRound, completed, submitted, plan, adaptive,
                       sourceVars, interrupted>>

\* MUTANT: done when every worker is completed, whatever is unread.
AnswerRowsDoneEarly ==
    LET take == AtMost(adaptive, Len(window) - nextUnread)
        end == nextUnread + take
        done == AllWorkersCompleted
    IN  /\ phase = "answering"
        /\ ~WindowUsedUp
        /\ out' = out \o SubSeq(window, nextUnread + 1, end)
        /\ nextUnread' = end
        /\ state' = IF done THEN "COMPLETED" ELSE state
        /\ Answer(IF done THEN "done" ELSE "more", done, take)
        /\ saidDone' = (saidDone \/ done)
        /\ phase' = "idle"
        /\ UNCHANGED <<window, oddRound, completed, submitted, plan, adaptive,
                       sourceVars, interrupted>>

\* The caller gets the next rows of the window, at most adaptive of them.
AnswerRows ==
    LET take == AtMost(adaptive, Len(window) - nextUnread)
        end == nextUnread + take
        done == end >= Len(window) /\ AllWorkersCompleted
    IN  /\ phase = "answering"
        /\ ~WindowUsedUp
        /\ out' = out \o SubSeq(window, nextUnread + 1, end)
        /\ nextUnread' = end
        /\ state' = IF done THEN "COMPLETED" ELSE state
        /\ Answer(IF done THEN "done" ELSE "more", done, take)
        /\ saidDone' = (saidDone \/ done)
        /\ phase' = "idle"
        /\ UNCHANGED <<window, oddRound, completed, submitted, plan, adaptive,
                       sourceVars, interrupted>>

\* CancelQuery / CancelSubQuery (cancel) and handleTimeout: they set the
\* state and nothing else, whatever the state is and wherever a call is.
Interrupt(final) ==
    /\ MayInterrupt
    /\ state # "ABSENT"
    /\ state' = final
    /\ interrupted' = IF phase = "idle" \/ interrupted = "between calls"
                      THEN "between calls" ELSE "in a call"
    /\ UNCHANGED <<window, nextUnread, oddRound, completed, submitted,
                   callVars, sourceVars, out, saidDone>>

Cancel == Interrupt("CANCELLED")
HandleTimeout == Interrupt("TIMED_OUT")

BeginCall == AnswerAtOnce \/ BeginRound \/ BeginFromWindow

AskChild(c) == SubmitToChild(c) \/ FetchFromChild(c) \/ ChildFails(c)

Round ==
    \/ \E s \in Source : SkipCompleted(s)
    \/ FetchLocal
    \/ \E c \in Child : AskChild(c)
    \/ EndRound

Next == Submit \/ BeginCall \/ Round \/ AnswerEmpty \/ AnswerRows
        \/ Cancel \/ HandleTimeout

\* The caller submits and keeps calling until it is told "done"; a call runs
\* on its server thread until it answers.
Fairness ==
    /\ WF_vars(Submit)
    /\ WF_vars(~saidDone /\ BeginCall)
    /\ WF_vars(Round \/ AnswerEmpty \/ AnswerRows)

Spec == Init /\ [][Next]_vars /\ Fairness

-----------------------------------------------------------------------------
Interrupted == state \in {"CANCELLED", "TIMED_OUT"}

Unread == SubSeq(window, nextUnread + 1, Len(window))

\* The rows handed to the caller followed by those waiting in the window.
Merged == out \o Unread

\* seq holds the rows 1 .. upTo[s] of every source s, each once, those of one
\* source in their order.
MergesInOrder(seq, upTo) ==
    /\ \A i \in DOMAIN seq : seq[i][2] <= upTo[seq[i][1]]
    /\ \A s \in Source : \A n \in 1 .. upTo[s] :
           \E i \in DOMAIN seq : seq[i] = <<s, n>>
    /\ \A i, j \in DOMAIN seq :
           (i < j /\ seq[i][1] = seq[j][1]) => seq[i][2] < seq[j][2]

\* Whatever a fetch merges into the window reaches the caller exactly once
\* and in its source's order: clearing the window, cutting it into chunks of
\* changing size, alternating local-first and remote-first rounds, a failing
\* child or a cancel in the middle of a round lose and repeat nothing.
ExactlyOnce == MergesInOrder(Merged, served)

\* When the caller is told "done" it has every row of every source whose
\* RPCs succeeded: one failing child costs no row of another source.
DoneMeansDelivered ==
    saidDone =>
        \A s \in Source \ failed : \A n \in 1 .. Supply[s] :
            \E i \in DOMAIN out : out[i] = <<s, n>>

\* The window holds no more than one chunk of every source: its memory does
\* not grow with the size of the result.
WindowIsBounded ==
    \A i, j \in DOMAIN window :
        window[i][1] = window[j][1]
            => \E k \in ChunkSizes : window[j][2] < window[i][2] + k

\* Once a request is cancelled or timed out, no call that begins later asks
\* a worker for rows, even if the call in flight at that moment set the state
\* back to COMPLETED.
InterruptStopsFetching ==
    [][(phase = "idle" /\ phase' = "fetching") => interrupted = "no"]_vars

\* An interruption that meets no call in flight is final: the caller gets no
\* further row.
QuietInterruptIsFinal ==
    [][interrupted = "between calls" => out' = out]_vars

\* A caller that keeps calling is told eventually to stop: every source is
\* drained although some answer "not yet" or fail, or the request was
\* interrupted.
CallerIsReleased ==
    <>(reply.message \in {"done", "request cancelled", "request timed out"})

\* What benchmark_chunk_sizes.py assumes when it stops on `rows == 0': an
\* answer without rows is the last one.
EmptyAnswerIsLast ==
    (reply.message # "none" /\ reply.rows = 0) => reply.done

\* The request is itself a ChunkStream over the rows of its sources.  The rows
\* a failed child still held are given up; so are all that were not handed
\* over when the caller of an interrupted request is answered done = TRUE.
OwedRows == UNION {{<<s, n>> : n \in 1 .. Supply[s]} : s \in Source}

LostRows == {r \in OwedRows : r[1] \in failed /\ r[2] > served[r[1]]}

HandedOver == {out[i] : i \in DOMAIN out}

ToldInterrupted == reply.message \in {"request cancelled", "request timed out"}

GivenUp == IF ToldInterrupted THEN OwedRows \ HandedOver ELSE LostRows

Stream == INSTANCE ChunkStream WITH
    MayLose <- MayFail # {},
    MayStop <- MayInterrupt,
    pending <- OwedRows \ (GivenUp \cup HandedOver),
    lost <- GivenUp,
    finished <- saidDone \/ ToldInterrupted

ImplementsStream == Stream!Spec
=============================================================================
