---------------------------- MODULE RequestTable ----------------------------
(***************************************************************************)
(* queryStates_, the requests a QueryCoordinator has been given, in the    *)
(* order of their coming.  None is ever erased.  How many are open and how *)
(* many rows they hold decide the size of every chunk.                     *)
(***************************************************************************)
EXTENDS Naturals, SequencesExt

CONSTANTS
    Small, Default, Large,      \* the chunk sizes
    RequestLimit, RowLimit,     \* where pressure is full
    ScanRowBudget               \* rows one scan may look at (50000 in the code)

ASSUME SizeAssumption ==
    /\ {Small, Default, Large} \subseteq Nat \ {0}
    /\ {RequestLimit, RowLimit} \subseteq Nat \ {0}
    /\ ScanRowBudget \in Nat \ {0}

\* A request with this id for the rows of query `of`.  `progress` has a record for every
\* worker that takes part: the rows it has looked at, whether it is completed,
\* and for a child the id it knows the request by, 0 before it does.
NewRequest(id, of) ==
    [id |-> id, of |-> of, state |-> "IN_PROGRESS", window |-> <<>>, unread |-> 0,
     oddRound |-> FALSE, progress |-> <<>>, matched |-> 0]

Worker == [next |-> 0, completed |-> FALSE, remoteId |-> 0]

\* try_emplace: a worker that is on record keeps its record.
WithWorkers(r, ws) ==
    [r EXCEPT !.progress = [w \in ws \cup DOMAIN @ |-> IF w \in DOMAIN @ THEN @[w] ELSE Worker]]

\* findRequestState: the first with this id, 0 for none.
Find(tab, id) == SelectInSeq(tab, LAMBDA r : r.id = id)

\* createRequestState: a request with this id is taken as it is.
Created(tab, id, of) == IF Find(tab, id) # 0 THEN tab ELSE Append(tab, NewRequest(id, of))

IsTerminal(r) == r.state \in {"COMPLETED", "CANCELLED", "TIMED_OUT"}

AllWorkersCompleted(r) == \A w \in DOMAIN r.progress : r.progress[w].completed

WindowUsedUp(r) == r.unread >= Len(r.window)

-----------------------------------------------------------------------------
ActiveRequests(tab) == Len(SelectSeq(tab, LAMBDA r : ~IsTerminal(r)))

CachedRows(tab) == FoldLeft(LAMBDA n, r : n + Len(r.window), 0, tab)

\* getCoordinatorPressureRatio compared with a number of tenths.
PressureAtLeast(tab, tenths) ==
    \/ 10 * ActiveRequests(tab) >= tenths * RequestLimit
    \/ 10 * CachedRows(tab) >= tenths * RowLimit

PressureAtMost(tab, tenths) ==
    /\ 10 * ActiveRequests(tab) <= tenths * RequestLimit
    /\ 10 * CachedRows(tab) <= tenths * RowLimit

Recommended(tab) ==
    IF PressureAtLeast(tab, 8) THEN Small
    ELSE IF PressureAtMost(tab, 2) THEN Large ELSE Default

\* MUTANT of ChooseAdaptiveChunkSize: a caller without a wish gets nothing.
ChooseWithoutDefault(tab, asked) == Min({asked, Recommended(tab)})

ChooseAdaptiveChunkSize(tab, asked) ==
    IF asked = 0 THEN Recommended(tab) ELSE Min({asked, Recommended(tab)})

-----------------------------------------------------------------------------
\* updateWorkerProgress and mergePartialResult of what worker w brings.
Merged(r, w, rows, next, hasMore) ==
    [r EXCEPT !.window = @ \o rows,
              !.matched = @ + Len(rows),
              !.progress[w].next = next,
              !.progress[w].completed = ~hasMore]

\* The rows behind row `from' of a shard, up to row n, that match query `of'.
Hits(shard, of, from, n) == {k \in from + 1 .. n : of \in shard[k]}

\* LocalQueryEngine::execute, which LocalScan has row by row: a scan that goes
\* on behind row `from' ends where the chunk is full or the budget is spent.
ScanEnd(shard, of, from, size) ==
    Min({n \in from .. Len(shard) : \/ n - from = ScanRowBudget
                                   \/ Cardinality(Hits(shard, of, from, n)) = size}
        \cup {Len(shard)})

\* fetchLocalExecuteChunk.  A chunk that comes out full says that there may be
\* more, as does one that leaves rows for the next call, even if it has none.
WithLocalChunk(tab, i, w, shard, maxRows) ==
    LET r == tab[i]
        p == r.progress[w]
        size == ChooseAdaptiveChunkSize(tab, maxRows)
        next == ScanEnd(shard, r.of, p.next, size)
        k == Cardinality(Hits(shard, r.of, p.next, next))
    IN  IF p.completed THEN tab
        ELSE [tab EXCEPT ![i] = Merged(r, w, [j \in 1 .. k |-> r.of], next,
                                       k = size \/ next < Len(shard))]
=============================================================================
