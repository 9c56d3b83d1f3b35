----------------------------- MODULE LocalScan -----------------------------
(***************************************************************************)
(* The chunked scan of a node's own shard: LocalQueryEngine::execute,      *)
(* called again and again by QueryCoordinator::fetchLocalExecuteChunk with *)
(* startRow = WorkerProgress::nextStartRow until it answers hasMore=false. *)
(*                                                                         *)
(* The store is the concatenation of the non-empty data lines of every     *)
(* file that opens and whose header parses, which is the sequence the row  *)
(* ids number.  A row matches the filter, is rejected by it, or does not   *)
(* parse; the text of a row and the filter are left out.                   *)
(***************************************************************************)
EXTENDS Naturals, Sequences

CONSTANTS
    NumRows,        \* physical rows of the store
    ScanRowBudget,  \* rows one call may look at (50000 in the code)
    ChunkSizes      \* chunk sizes a caller may ask for; 0 means no limit

ASSUME ScanAssumption ==
    /\ NumRows \in Nat
    /\ ScanRowBudget \in Nat \ {0}
    /\ ChunkSizes \subseteq Nat

Rows == 0 .. NumRows - 1

RowKind == {"match", "rejected", "malformed"}

VARIABLES
    kind,           \* what each row is to the filter; never changes
    pc,             \* "idle" between calls, "scanning" inside execute
    startRow, chunkSize,                \* the call's request
    localRowId, scannedThisChunk,       \* the call's counters
    matchedLocalRowIds,                 \* the call's result so far
    nextStartRow, completed,            \* WorkerProgress of this worker
    collected       \* row ids merged into the request over all calls

callVars == <<startRow, chunkSize>>
progressVars == <<nextStartRow, completed, collected>>
vars == <<kind, pc, callVars, localRowId, scannedThisChunk,
          matchedLocalRowIds, progressVars>>

TypeOK ==
    /\ kind \in [Rows -> RowKind]
    /\ pc \in {"idle", "scanning"}
    /\ startRow \in 0 .. NumRows
    /\ chunkSize \in ChunkSizes \cup {0}
    /\ localRowId \in 0 .. NumRows
    /\ scannedThisChunk \in Nat
    /\ matchedLocalRowIds \in Seq(Rows)
    /\ nextStartRow \in 0 .. NumRows
    /\ completed \in BOOLEAN
    /\ collected \in Seq(Rows)

Init ==
    /\ kind \in [Rows -> RowKind]
    /\ pc = "idle"
    /\ startRow = 0 /\ chunkSize = 0
    /\ localRowId = 0 /\ scannedThisChunk = 0
    /\ matchedLocalRowIds = <<>>
    /\ nextStartRow = 0 /\ completed = FALSE
    /\ collected = <<>>

-----------------------------------------------------------------------------
\* fetchLocalExecuteChunk: a worker that is not completed is asked to scan
\* from its cursor with the chunk size of the moment.
BeginCall ==
    /\ pc = "idle"
    /\ ~completed
    /\ pc' = "scanning"
    /\ startRow' = nextStartRow
    /\ chunkSize' \in ChunkSizes
    /\ localRowId' = 0
    /\ scannedThisChunk' = 0
    /\ matchedLocalRowIds' = <<>>
    /\ UNCHANGED <<kind, progressVars>>

\* The reply of execute and what the coordinator does with it:
\* mergePartialResult appends the rows, updateWorkerProgress moves the cursor
\* and completes the worker when there is no more.
Reply(hits, next, hasMore) ==
    /\ pc' = "idle"
    /\ collected' = collected \o hits
    /\ nextStartRow' = next
    /\ completed' = ~hasMore
    /\ matchedLocalRowIds' = hits
    /\ UNCHANGED callVars

ChunkFull(emitted) == chunkSize # 0 /\ emitted >= chunkSize

MoreRows == pc = "scanning" /\ localRowId < NumRows

\* Rows before startRow were served by earlier calls.
SkipServedRow ==
    /\ MoreRows
    /\ localRowId < startRow
    /\ localRowId' = localRowId + 1
    /\ UNCHANGED <<kind, pc, callVars, scannedThisChunk, matchedLocalRowIds,
                   progressVars>>

\* MUTANT: the row that found the budget spent is left behind.
BudgetStopPastRow ==
    /\ MoreRows
    /\ localRowId >= startRow
    /\ scannedThisChunk >= ScanRowBudget
    /\ Reply(matchedLocalRowIds, localRowId + 1, TRUE)
    /\ UNCHANGED <<kind, localRowId, scannedThisChunk>>

\* The scan budget is spent: the row in hand is left for the next call.
BudgetStop ==
    /\ MoreRows
    /\ localRowId >= startRow
    /\ scannedThisChunk >= ScanRowBudget
    /\ Reply(matchedLocalRowIds, localRowId, TRUE)
    /\ UNCHANGED <<kind, localRowId, scannedThisChunk>>

\* A row within the budget that does not parse or does not match.
PassOverRow ==
    /\ MoreRows
    /\ localRowId >= startRow
    /\ scannedThisChunk < ScanRowBudget
    /\ kind[localRowId] # "match"
    /\ scannedThisChunk' = scannedThisChunk + 1
    /\ localRowId' = localRowId + 1
    /\ UNCHANGED <<kind, pc, callVars, matchedLocalRowIds, progressVars>>

\* A matching row that does not fill the chunk.
EmitRow ==
    /\ MoreRows
    /\ localRowId >= startRow
    /\ scannedThisChunk < ScanRowBudget
    /\ kind[localRowId] = "match"
    /\ scannedThisChunk' = scannedThisChunk + 1
    /\ localRowId' = localRowId + 1
    /\ matchedLocalRowIds' = Append(matchedLocalRowIds, localRowId)
    /\ ~ChunkFull(Len(matchedLocalRowIds'))
    /\ UNCHANGED <<kind, pc, callVars, progressVars>>

\* The matching row that fills the chunk ends the call, with hasMore = true
\* even when it is the last row of the store.
EmitLastRow ==
    LET hits == Append(matchedLocalRowIds, localRowId)
    IN  /\ MoreRows
        /\ localRowId >= startRow
        /\ scannedThisChunk < ScanRowBudget
        /\ kind[localRowId] = "match"
        /\ ChunkFull(Len(hits))
        /\ scannedThisChunk' = scannedThisChunk + 1
        /\ localRowId' = localRowId + 1
        /\ Reply(hits, localRowId + 1, TRUE)
        /\ UNCHANGED kind

\* MUTANT: a call that reached the end still says there is more.
EndOfStoreSaysMore ==
    /\ pc = "scanning"
    /\ localRowId = NumRows
    /\ Reply(matchedLocalRowIds, localRowId, TRUE)
    /\ UNCHANGED <<kind, localRowId, scannedThisChunk>>

\* Every file is read to its end.
EndOfStore ==
    /\ pc = "scanning"
    /\ localRowId = NumRows
    /\ Reply(matchedLocalRowIds, localRowId, FALSE)
    /\ UNCHANGED <<kind, localRowId, scannedThisChunk>>

ScanRow == SkipServedRow \/ BudgetStop \/ PassOverRow \/ EmitRow
           \/ EmitLastRow \/ EndOfStore

Next == BeginCall \/ ScanRow

\* A call runs on its server thread until it returns, and the caller asks
\* again while the worker is not completed.
Fairness == WF_vars(BeginCall) /\ WF_vars(ScanRow)

Spec == Init /\ [][Next]_vars /\ Fairness

-----------------------------------------------------------------------------
Matching == {r \in Rows : kind[r] = "match"}

\* s lists the members of S, each once, in increasing order.
Lists(s, S) ==
    /\ {s[i] : i \in DOMAIN s} = S
    /\ \A i, j \in DOMAIN s : i < j => s[i] < s[j]

\* Between calls and during them, what the request has received from this
\* worker is exactly the matching rows below the resume cursor, each once and
\* in store order: no row is lost or repeated where one call stops (chunk
\* full, budget spent, end) and the next resumes.
CollectedIsPrefix ==
    Lists(collected, {r \in Matching : r < nextStartRow})

\* Inside a call the same holds of the rows found so far between the call's
\* startRow and the row in hand.
CallFindsEveryMatch ==
    pc = "scanning" =>
        Lists(matchedLocalRowIds,
              {r \in Matching : startRow <= r /\ r < localRowId})

\* A worker is marked completed only when every matching row of its store has
\* been handed over.
CompletedMeansAll ==
    completed => Lists(collected, Matching)

\* One call never looks at more than ScanRowBudget rows, so a selective
\* filter cannot hold FetchChunk beyond the budget.
CallIsBounded ==
    scannedThisChunk <= ScanRowBudget

\* A call that answers hasMore = true has moved the cursor: the coordinator,
\* which retries on "no rows available yet", can never be sent in circles.
HasMoreMovesCursor ==
    [][(pc = "scanning" /\ pc' = "idle" /\ ~completed')
            => nextStartRow' > nextStartRow]_vars

\* A caller that keeps asking is told eventually that there is no more.
EventuallyCompleted == <>completed

\* The worker is a ChunkStream: a reply hands over pending rows, and "no
\* more" comes only when none is pending.
Stream == INSTANCE ChunkStream WITH
    Row <- Rows,
    MayLose <- FALSE,
    MayStop <- FALSE,
    pending <- {r \in Matching : r >= nextStartRow},
    out <- collected,
    lost <- {},
    finished <- completed

ImplementsStream == Stream!Spec
=============================================================================
