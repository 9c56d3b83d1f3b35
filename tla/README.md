# Verification of the distributed taxi query engine

TLA+ modules, TLC configurations and TLAPS proofs for the system under `src/`:
a query engine over taxi trip shards, spread over nodes A..I that pass a query
down an overlay and rows back up (the repository's "mini 2"), and the local
engines it grew from ("mini 1").

1. [The system](#the-system)
2. [Modules and code](#modules-and-code)
3. [Runs](#runs)
4. [Fairness](#fairness)
5. [Proofs](#proofs)
6. [Where code and documentation differ](#where-code-and-documentation-differ)
7. [What is not modelled](#what-is-not-modelled)
8. [Plan](#plan)

All paths below are relative to `src/basic/src/` unless they start with `src/`.

## The system

### A query on the overlay

Every node runs `server/main.cpp`: a synchronous gRPC server (a pool of threads,
no lock anywhere in the query path) with one `QueryCoordinator`, one local
`WorkerNode` over the shard files of the node's `.conf`, and an `OverlayConfig`
that holds the node itself and its outgoing neighbours, its *children*. A node
knows nothing of the rest of the overlay. The shipped overlay
(`src/basic/config/*.conf`) is A → B,H,G,I; B → C,D,E; D → E; E → F,G: E and G
have two parents each.

    client --SubmitQuery--> A      A --SubmitSubQuery--> child   (2000 ms)
    client --FetchChunk---> A      A --FetchSubChunk---> child   (2500 ms)
    client --CancelQuery--> A      (3000 ms for the client's calls)

* **submit** (`submitClientQuery`, `submitSubQuery`) only records the request in
  a `RequestState`: an id of the node's own (`q-N`), one `WorkerProgress` for the
  local worker and one for every child that is not on the request's visited list.
* **fetch** (`fetchChunkForRpc`) answers from a *window* of merged rows. When the
  cursor has reached the end of the window and some worker is not completed, the
  call clears the window and runs one *fetch round*: the local worker scans for a
  chunk and every child is asked for a chunk, children last in even rounds and
  first in odd ones. A child is submitted to the first time it is asked, with a
  visited list that names the node and all its children.
* a child that fails an RPC counts as completed from then on.
* the child runs the same code; a chunk is therefore a stack of nested calls, one
  handler thread on each node.
* the **local worker** (`LocalQueryEngine::execute`) has no state between calls: it
  reads the shard files from the start, passes over the rows before `startRow`,
  and stops at the chunk size, at a budget of 50000 scanned rows, or at the end.
* **cancel** and **timeout** set the request's state and nothing else. Nothing is
  sent to the children, and no one calls `handleTimeout` in the server.

### Components

| component | state | operations | made correct by |
|---|---|---|---|
| request coordinator (`querycoordination/QueryCoordinator`, `RequestState`) | requests, each with state, window, cursor, round number, progress per worker; next id | submit, fetch, cancel, timeout, add worker; COUNT | every fetched row is handed over once, in order; "done" means everything was; a cancelled request stops |
| local engine (`WorkerNode`, `query/LocalQueryEngine`) | none of its own; the coordinator keeps its cursor | execute from a row id, count | the chunks of a scan add up to the matching rows; every call is bounded and moves on |
| overlay routing (`QueryRequest` visited list, `fetchRemoteExecuteChunks`) | visited list per request | mark, test, forward | every reachable node is asked; where possible once; cycles end |
| RPC layer (`server/QueryServiceImpl`, `transport/GrpcRemoteQueryClient`, `client/query_client.cc`) | stubs per child | five RPCs with deadlines | a late or lost answer costs rows of that child only, and never repeats a row |
| overlay configuration (`model/OverlayConfig.hpp`) | nodes, children, parents, file owners | add node, set children, traversals, validate | the indexes agree with the lists; validate accepts exactly the rooted acyclic overlays |
| ingest queue and dispatcher (`ingest/`) | jobs; bytes and trips per worker | push, pop, assign next | jobs in order, each once; loads stay close |
| shard loading (`dataset/PartitionLoader`, `PartitionStore`) | file metadata of a node | load file, load directory | metadata describes what the engine reads |
| CSV parsing (`dataset/PartitionCsvParser.hpp`, `taxi_implementation/`, `apps/implementationA/taxiTripParser`) | column indexes | header, row, dates, money | values within their width, errors told from zero |
| probe service (`server/BasecampServiceImpl`, `py_node_server.py`) | none | Ping, GatherNeighbors, ForwardProbe with TTL | the flood ends and answers for everyone within the TTL |
| streaming engine (`dataset/TaxiTripDataset`, `taxi/BufferedFileReader`) | one file position, per-thread accumulators | one query over one, several or all files; OpenMP variants | every line is judged by exactly one thread |
| in-memory engines (`apps/implementationA` phases 1 to 3) | vectors of rows or of columns | load, count, execute, sequential and OpenMP | the parallel result is the sequential one |
| configuration, start, benchmark drivers | none that changes | parse, validate, print, time | |

### What is hard here

* One request's state is spread over five records that different functions
  change: window, cursor, round, per-worker completion, lifecycle state.
* Nested synchronous calls, each with a deadline of its own, and none that
  cancels the callee: handlers outlive their callers.
* Visited lists are copies: what one branch has asked, another cannot know.
* CancelQuery runs on another thread than the fetch it meets.
* Failures are silent: a lost subtree looks like a short result.

* Requests are never erased: finished and cancelled ones weigh on the chunk size of
  all later ones, and after a restart the ids begin again.
* Three parsers read the same files, each with its own way to cut a line and to read a
  time, and the programs' results are compared with each other.
* The loader and the engine read a shard at different times and by different rules.

`PROJECT.json` lists these hazards one by one, each at its line, with the
property that watches it or the reason none does.

## Modules and code

    ChunkStream          what a source of rows promises its caller
      ^ ImplementsStream        ^ ImplementsStream
    LocalScan            RequestCoordinator      (uses: any ChunkStream below it)
                                ^ one request of
                         OverlayQuery  --ImplementsVisit-->  OverlayVisit

**`ChunkStream`** is the abstract specification of anything that answers "give me
at most so many rows" with rows and a flag: it owes a set of rows, hands each out
once, never says "finished" while it owes one, and may give up only rows it has
lost to a failure. A producer that is interrupted may stop: it says "finished" once, and
gives up all it still owes (`Stop`). The local engine and a node's coordinator both implement it
(`ImplementsStream`), which is what lets one node be the child of another:
`RequestCoordinator` assumes of its local worker and its children no more than
`ChunkStream` says, and `Supplies` is that assumption.

**`LocalScan`**: `LocalQueryEngine::execute` row by row, with the cursor kept by
`fetchLocalExecuteChunk`. One action per way a row can end: skipped because it was
served (`SkipServedRow`), left for the next call because the budget is spent
(`BudgetStop`), passed over (`PassOverRow`), emitted (`EmitRow`), emitted as the
last of the chunk (`EmitLastRow`); and the end of the store (`EndOfStore`). The text
of a row is abstracted to what it is to the filter: match, rejected, malformed. The
non-empty lines of all readable files are one sequence, as the row ids number them.

**`RequestCoordinator`**: one EXECUTE request at one node. `state`, `window`,
`nextUnread`, `oddRound`, `completed`, `submitted` are `RequestState` and its
`WorkerProgress` records; `phase`, `plan` and `adaptive` are where the call of
`fetchChunkForRpc` in progress is; `served`, `stalls` and `failed` belong to the
sources; `out`, `saidDone` and `interrupted` are what the caller has seen. Every
RPC and every local scan is a step of its own, so `Cancel` and `HandleTimeout` may
come between any two. `chooseAdaptiveChunkSize` depends on all requests of the node
through the pressure ratio; here a call's chunk size is any member of `ChunkSizes`.
A source may answer "no rows yet" `MaxStalls` times, as the engine does when the
scan budget is spent without a match.

**`OverlayVisit`** is the abstract specification of the overlay: which requests a
query leaves on which nodes, with which visited lists, when each node asks its
children in any order and gives up on any it may. `Forwarded` is the list that
`fetchRemoteExecuteChunks` and `submitSubQuery` build together.

**`OverlayQuery`** is the detailed one: every node's request records, the calls
between the nodes as a stack of handlers (`serving`), who still listens to which
(`awaited`), deadlines (`GiveUp` at any moment of an RPC), handlers that run on
(`AnswerNobody`) and crashes. It implements `OverlayVisit` (`ImplementsVisit`): a
request is named by the chain of nodes it came through. A round goes over all children,
those on the visited list included, which it passes over (`SkipVisited`).
A shard is the rows that match, and the scan budget is left out: the one chunk without a
row is the one after a full chunk that took the last row. Budgets spent without a match are
in `LocalScan`, `RequestCoordinator` and `ServerTables`.

**`RequestTable`** is `queryStates_` as operators: create and find a request, count the
open ones and the cached rows, and from these the pressure ratio (as comparisons in
tenths, since TLA+ has no fractions here) and the chunk size; and a local chunk merged
into a request: which rows it brings depends on which rows of the shard match the query,
on the chunk size and on the scan budget (`ScanEnd`, which `LocalScan` has row by row), so
that a worker may bring no row and say that there is more. Two modules are built from it:

* **`ServerTables`**: several clients at a parent and its child. Where
  `RequestCoordinator` cuts one call into its steps, here a call is one action and the
  state is all requests of both nodes, with their ids, the ids a parent keeps for its
  children (`remoteId`), cancels that stay at the node they reach, and a restart that
  empties a table and begins again at `q-1` while others keep the ids they hold.
* **`InProcess`**: the coordinator without an overlay of `apps/distributedquery_main.cpp`:
  `RunCount` and `RunExecute` on three registered workers.

**`OverlayGraph`** is the state of `OverlayConfig`: `AddNode`, `SetChildren` and `SetSelfNodeId` in any order,
with the parent index changed edge by edge (`Filtered` of **`Filtering`** is its
`std::remove`) and the file index rebuilt. **`OverlayTraversal`** adds what only reads that
state: the three depth-first traversals and `Validate` as the code runs them (`Descend`,
`CollectReachable`, `Search` thread the visited sets through the recursion), compared with
reachability and acyclicity stated by closed sets of nodes. The files of a node are a
list, as in the code: `validate` refuses a file listed twice, by two nodes or by one. `NodeStart` needs the first
only; `MCNodeStart` takes both.

    NodeConfig   OverlayGraph   LeastLoaded
         \            |            /
                  NodeStart

**`NodeConfig`** is `common/config.cc`: `ReadLine` is one line of `loadConfig`, `Accepts` is
what does not throw. **`NodeStart`** is `server/main.cpp` from there on: `ReadConfig`,
`AddSelf`, `AddPeer` and `AddChildren` (`buildOverlayFromNodeConfig`, through the actions of
`OverlayGraph`), `LoadFile` per assigned file, which must be a .csv file (`CsvFile`), exist
and have text, `Serve`; then `Count`
(`LocalQueryEngine::count` through `PartitionStore::validate`) while files may be removed
(`RemoveFile`). A line of a shard is what loader and engine tell apart: matching, rejected,
malformed, blanks only, empty. A server calls the overlay in one order only; `Edit` starts
from an empty overlay instead and calls it in any order.

**`LeastLoaded`** is `IngestQueue` and `IngestDispatcher`: `PushAll`, `SetWorkers`,
`AssignNext`. No program of the repository puts them to work; `NodeStart.Dispatch` does, on
the sizes and trip counts that the loader found.

**`CsvText`**, **`CsvLine`**, **`CsvNumbers`**, **`CsvTime`**, **`CsvRow`** are the parsers. A token
stands for one character where a parser looks at characters and for a whole name or
timestamp where it does not. A cell that begins with a timestamp is read as the timestamp,
whatever follows it, since the parsers ask for a least length only (`TimeOf`). `CsvLine` is the loop that cuts a line, one action per kind of
character, which `PartitionCsvParser` and `TaxiTripCSVParser` share; `CsvNumbers` is
`parseMoneyCents` as a fold of `MoneyStep` over the text and the small integers, with their
widths as constants; `CsvTime` the three parsers of timestamps on records of what stands in
the text, with `timegm` carrying what is out of range; `CsvRow` reads a file with either
parser, header first (`HeaderRead` keeps the columns, falls back to the standard order, or
gives the file up), row after row; `SplitCSV` is the splitter of the in-memory engines.

    FileTeam   TwoPassFill   BatchScan
         \          |           /
               ParallelRun

**`FileTeam`** is the loop `schedule(dynamic, 1)` over files of three engines: the ingests of
phases 2 and 3, which fill one vector per file and join them, and `queryFilesParallel`,
which joins counters. A row is whether it parses and the flag in it, since one record is
used again for all rows of a file and an empty column leaves its flag as it was. The
record of a file is not initialised (`taxiTripRecord.hpp:30`): `fresh` is what its memory
holds, any flag of `Memory`.

**`TwoPassFill`** is `executeOpenMP` of phase 2 and `executeOpenMP_SoA` of phase 3, which
differ in how a row is stored: the threads' counting loop, the join, the prefix sums
and the filling loop. `schedule(static)` is any contiguous division of the rows, the
same in both loops. OpenMP promises "the same" for two loops of one parallel region;
these are two regions, and GCC's runtime computes the division from the number of rows
and of threads alone, which is what the model takes from it.

**`BatchScan`** is `queryFileBatchParallelOMP`: `single`, the barriers and the shared
loop as the places of a thread, the reader, the batch and `done` as shared state. The
function has no caller in the repository; it is part of the library's interface.

**`ParallelRun`** puts the three together as a benchmark run does: ingest, then a query on
the store that came out of it; or a batch query.

**`Probe`** is the flood of `ForwardProbe`: a handler is named by the walk that leads to
it, since there is no visited list, and waits for one peer at a time. Peers may be
down (`PeerIsDown`), crash in the middle of a call (`Crash`, `CallBreaks`) and come
back (`Restart`); handlers whose caller has crashed run on.

`PROJECT.json` maps every definition to its lines. `*Proofs` modules hold the
theorems; `MC*` modules give constants their values; definitions preceded by
`MUTANT` are deliberately wrong versions of the definition that follows, used to
show that a property can fail.

## Runs

| run | instance | shows |
|---|---|---|
| `local_scan` | 5 rows of every kind, budget 2, chunk sizes 0 (no limit), 1 and 2 chosen anew at each call | chunks add up to the matching rows in order; a scan ends; `ChunkStream` is implemented |
| `request` | local worker with 3 rows and two children with 2 and 1, chunk sizes 1 and 2, one empty answer per source, either child may fail at any RPC, cancel and timeout at any step | exactly-once delivery, bounded window, an interrupted request stops fetching, the caller is released, `ChunkStream` is implemented |
| `request_empty_answer` | no failures | counterexample, see below |
| `request_table` | parent and child with 3 rows each, of which each client's query matches others; three clients at either, chunk sizes 1, 2, 3 by pressure, scan budget 2, one restart | no client whose servers have not restarted gets rows of another's query; pressure, stale and cancelled requests and budgets spent without a match never stop a query |
| `in_process_count` | the three workers of the in-process driver | counterexample, see below |
| `overlay_any` | every overlay of 4 nodes without self-loops (cycles included), one node may fail | coverage, no duplicates on nested overlays, no return to a node passed |
| `overlay_diamond` | A → B,C; B → D; C → D | counterexample, see below |
| `overlay_query_failures` | A → B → D,E; D → E; two rows on each node below B; B, D, E may fail, B and D may crash | every healthy node covered and no row twice, under late handlers and crashes; one handler per request at a time; the client is told "done"; `OverlayVisit` is implemented |
| `node_start` | 48 .conf files, right ones and ones wrong in one way each, on five disks; and every overlay that edits make of 3 nodes, 7 child lists (self-loops, cycles, a shared node, a child named twice) and one file, which a node lists once or not; three source files, one without the extension; up to 4 shards pushed | both indexes of the overlay stay current; `validate` accepts exactly the rooted acyclic overlays that list no file twice and know the node they name as their own, and traversals list each node once; a server is built as its file says; COUNT is that of the .csv files that can be read; shards are assigned once and in order, loads stay close |
| `csv` | every line of up to 5 tokens (quote, comma, blank, timestamp, digit); 19 headers in three spellings with eight kinds of rows; amounts of up to two digits and three decimals, well and badly written; a calendar of timestamps around the edges of months, leap years, noon, midnight and 1970 | lines are cut at the commas outside quotes; a row is taken exactly if its quotes are closed and its pickup cell begins with a time; trips hold under each name what the row says; amounts are exact to the cent; the three readings of a time and the two of a line agree, and no times but two are lost |
| `in_memory` | 3 threads; three directories of three files, read into records that find any of two flags; every filter on 5 rows and every contiguous division; every file of 6 lines, blank or not, in batches of 2 | ingest, query and batch query give the serial result; unlocked writes stay inside the vector, each place once; no batch is read while it is filled; the run ends |
| `probe` | A → B,C; B → A,C,D; C → D; D is a Python node with a neighbor; TTL 3; A and B may crash, twice in all, and restart | the reply accounts for every walk of at most 3 hops; one handler at work; the flood ends |

The bounds are enough for what can go wrong. A scan needs a budget below the
number of rows, a chunk size below, at and above it, and rows of each kind before,
at and after a stop: five rows and a budget of two give every combination. A round
needs a source that ends before, with and after the others, which a local worker and
two children with three, two and one rows and chunk sizes one and two give; more rows
repeat the same rounds. Four nodes are the fewest on which two branches can share
a node below them (the diamond), on which a shared node can be failed by one parent
and visited by the other, and on which a cycle can hang below another branch.
`overlay_query_failures` has the smallest overlay on which an orphaned handler (of
B or D) and a live one can both be on their way to the same node. In `request_table` two
clients meet at each node in turn, and limits of five requests and five rows let
pressure pass both its marks and stay there; the third client's only match lies behind the
first scan budget, so its first call brings nothing wherever it asks. Three nodes make
every difference `validate` draws (unreached, shared, on a cycle, unknown, repeated).
Four shards on two and three workers give ties, a worker that is passed by, and a heavy shard
before and after light ones. The 32 bits of an amount are 1500 cents in the model and
the other integers two digits, so that a short text reaches both ends of each width.
A probe with TTL 3 goes once around its cycle and one hop further. Five rows on three
threads give shares of no, one and several rows in every order; six lines in batches of
two give a blank batch before, between and after others, and a file that ends with a
full batch or in the middle of one. That the batch query stops at a batch of blank lines
only is in the model because it is in the code (`TaxiTripDataset.cpp:593`); `EachLineJudgedOnce`
speaks of the lines before such a batch, and says that those behind it are not judged.

Deadlock is not checked: every one of these systems may stop (a query that is done, a
reply that was given, a program at its end). That none stops too early is what the
liveness properties and `EveryCallGetsOn` say.

The type invariants of the modules with proofs, `CallIsBounded`, `HasMoreMovesCursor`
and `QuietInterruptIsFinal` are proved for all values of the constants and have no run.

## Fairness

* `LocalScan`: weak fairness of the call and of its rows: the coordinator's round
  asks a worker that is not completed, and a scan is a loop without waiting.
* `RequestCoordinator`: the caller submits and calls until it is told "done"
  (`test_overlay_coverage.sh` and the benchmarks are loops of that form); a call
  runs on its server thread until it answers. No fairness of `Cancel`,
  `HandleTimeout` or failures.
* `OverlayQuery`: the client keeps calling; handlers run; and an RPC to a node that
  has crashed ends with an error, as gRPC's deadline guarantees. A deadline of a
  call to a live node may pass or not.

* `Probe`: the client asks once; a handler is a loop on a server thread; a call to a
  process that has gone ends with an error. No fairness of crashes and restarts. A host
  that vanishes without closing its connections, on which a call without a deadline
  would wait, is not modelled.
* `ParallelRun`: some thread of the team that can run does; barriers and joins release
  their threads when all have arrived, and the program goes on to its next part.
* `ServerTables`, `InProcess`, `NodeStart`, `CsvRow` have no fairness; nothing is claimed
  there about what must happen.

## Proofs

The `*Proofs` modules prove for all values of the constants, from the named assumptions of
the modules alone: `NodeProofs` for `NodeStart`, `LocalScan`, `CsvLine` and `CsvRow` (`GraphAssumption`,
`ConfAssumption`, `LineAssumption`, `DiskAssumption`, `ExtensionAssumption`, `DispatchAssumption`, `ScanAssumption`,
`TextAssumption`, `WidthAssumption`, `BlankAssumption`, `FilesAssumption`), `RequestCoordinatorProofs` (`CoordinatorAssumption`), `OverlayVisitProofs`
(`OverlayAssumption`), `OverlayQueryProofs` (`OverlayQueryAssumption`), `IngestProofs` for
`ParallelRun` (`TeamAssumption`, `BatchAssumption`, `InputAssumption`), `ProbeProofs` (`ProbeAssumption`), `ServerTablesProofs`
(`TreeAssumption`, `SizeAssumption`) and `FoldProofs`, which has the facts about folds that
three of the others use. Of the node's input they ask that a .conf file is a sequence of lines
(`ConfAssumption`), that the value of a key is what `loadConfig` parses it into: a list of
addresses, of files, a number or a text (`LineAssumption`), and that there is one file to a
name, with finitely many lines (`DiskAssumption`); neither asks that a file be one `Accepts`
takes or the loader can use. Of the parsers' input they ask that headers and rows are
sequences of tokens and that what stands in a timestamp is a `Stamp` (`FilesAssumption`), and
that no digit, point or sign is a blank (`BlankAssumption`); any text, well formed or
not, and any widths of the integers will do. Two of these assumptions say what `validateConfig`
refuses (`common/config.cc:146-152`): a node is not its own child, and no child is named
twice. `TreeAssumption` says that a child has no children of its own: the module is
about what two tables do to each other. The others say that teams are finite, supplies are
numbers, chunk sizes, limits and the scan budget are not 0 and rows have a kind.

* **The scan.** `ScanInv` says, beyond the types, that the rows collected are the
  matching rows below the cursor (`CollectedIsPrefix`) and, during a call, that the
  hits so far are the matching rows between `startRow` and the row in hand, no more
  than the chunk size, with `scannedThisChunk` rows looked at. The second part is
  what makes the first inductive: the reply appends the hits and moves the cursor to
  the row in hand, and the two lists fit together there. `CallIsBounded`, the action
  property `HasMoreMovesCursor` and `CompletedMeansAll` (a completed worker has handed
  over every match) follow. `ScanImplementsStream`: a reply is the one step of
  `ChunkStream` that hands rows out, every other step stutters; that the rows are owed
  and new is `ScanInv`.
* **The overlay of a node.** `GraphInv` is `IndexesAreCurrent` with the types: an edge taken out
  of the parent index by `Filtered` is gone, once and whatever the list repeats, and one put
  in is new there. `GraphIndexesAreCurrent` and `NodeIndexesAreCurrent` follow.
* **The start of a node.** `StartInv` is about a node between any two steps of `main`. `cfg` is
  what loading `conf` gave, and was accepted (`ConfigInv`). The overlay holds what the part of
  `cfg` passed by then says: the node, its first peers, at last its children (`BuildInv`). A
  file may go but keeps its lines (`DiskInv`), and the store has the files passed so far that
  were shards, in their order, with the weights the loader saw in them (`LoadInv`); the last
  answer is the one `Answer` gives on the disk as it is (`CountInv`), since `RemoveFile` takes
  it back.
    - `NodeBuiltAsConfigured` is the last stage of `BuildInv` read through `SaidBy`: of each key,
      `cfg` has what the last of the first k lines with that key says, for every k up to the
      whole file. That no peer is the node itself or named twice is what `Accepts` refused.
    - `NodeCountsItsFiles` is about totals: a fold over the store is the size of a disjoint union
      of the lines of its files (`TotalOfParts`), and it is below the loader's total term by term
      (`TotalAtMost`).
    - `NodeDispatches`: what is proved of the dispatcher holds here as well, since its jobs are
      shards of the store.
* **The request.** `RequestInv` ties the five records together: rows out followed by
  unread rows are the merged rows of all sources in order (`ExactlyOnce`); the cursor
  lies within the window; the plan holds sources; a completed source that did not
  fail has served all its rows; "done" was said with nothing unread. One lemma per
  action: merging a batch extends the order of its source
  (`BatchExtendsMerge`), taking rows moves them across the concatenation
  (`RowsAssociative`), clearing a used up window leaves what is out. The interrupt
  properties are action properties from the same invariant. `WindowIsBounded` needs to
  know besides that a source still in the plan has nothing in the window and that no
  source is in the plan twice, which is where the assumption on the children comes in.
  `RequestImplementsStream`: seen from its caller a request is a `ChunkStream` again,
  whose rows lost are those of failed sources, and whose `Stop` is the answer to the caller
  of a request that was interrupted: done = TRUE, once, with all rows that were not handed
  over given up. A parent cannot tell it from the end of the rows.
* **The overlay.** Full coverage on *every* overlay rests on an invariant (`OverlayInv`)
  about who vouches for the names on a list: every node on a request's visited list that
  is not on its path is a child of a node of the path, so it is asked by that node itself,
  unless that node's own list names it, and so on up to the root. No node twice on a
  path holds since the path is on the list. On nested overlays two requests at one
  node would have parents of which one lies behind the other, and the list that the
  nearer one received names the node.
* **A query over the overlay.** `BaseInv` of `OverlayQuery` has three parts: the types; that
  the requests form a tree in which a child holds one from the moment its caller has
  submitted to it (`TreeInv`); and what the calls between the nodes look like (`CallInv`): a
  caller that waits has its child at the head of its plan, and a handler nobody waits for
  runs only where the caller counts its node as completed. From it:
    - `OneHandlerAlways`, an action property: a caller whose call timed out marks the child
      completed and never calls it again, so the orphaned handler meets no other.
    - `QueryImplementsVisit`, a step simulation: each action maps to `Submit`, to the loss
      or skip of a child, or to a stutter. So all that is proved of `OverlayVisit` holds of
      the query, and the next two proofs use it (`VisitInv`).
    - `DoneMeansCoveredAlways`: `DoneInv`, that a worker counts as completed only when nothing
      is left in or below its request or its node failed, gives what "done" means, and
      `CustodyInv`, that every row a local worker handed over is with the client or in a
      window on the way to it while that way is intact, gives the rows.
    - `NoRowTwiceEver`: rows come from local workers only (`SourceInv`) and no row is at two
      places (`OnePlaceInv`), which needs that a node holds one request, that is
      `NestedMeansOnce`.
* **The parallel query.** `FillInv` reads the counters as cardinalities: a count is the
  matches of the thread's share that it has passed, an offset the matches of the shares
  before. Shares are contiguous and passed in order, so offset plus count is the rank of
  the row in hand among the matches (`PlaceIsRank`), and ranks are distinct
  (`RankIsInjective`): the place is inside the vector and free (`PlaceIsFree`), which gives
  all three safety properties.
* **The batch query.** `ScanInv` of `IngestProofs` is the barrier discipline: all threads
  are before the barrier that ends `single` or all are behind it, and one at most fills
  (`PhaseInv`); a round begins where a batch does and no batch before it was blank
  (`StartInv`); the batch holds the lines with text of this round, each once (`BatchInv`);
  lines of earlier rounds are judged, those of this round as far as they are taken
  (`JudgedInv`). `RunKeepsItsParts` carries this and
  the parallel query over to a whole run of `ParallelRun`, whose other parts leave their
  variables alone.
* **The ingest.** `TeamInv` says that a thread's file stands where the serial run stands
  after as many rows, the reused record's flag included (`InHandAsSerial`), where the serial
  run is given records that find the same in their memory, that a file
  without a thread is empty or what the serial run makes of it, and that the counts in the
  threads add up to those of the files that have ended (`PartsAreOfEnded`), whichever thread
  had which. The last needs that two sums, one over threads and one over files, grow by the
  same when a file ends (`SumRaised`, `PartsRaised`).
* **The tables of requests.** `TablesInv` of `ServerTablesProofs` is what ids are good for. A
  table has an id once only and none that is still to be given (`Good`), so an id at a
  node finds the record it was given for, as long as that node has not started again. A
  leaf's windows hold rows of their own query, always. At a parent they do if the ids it
  keeps for its children name records of the same query there (`PureRecord`); a restart of
  a child undoes this for the requests that hold ids from before, which is why the
  invariant owes it only to clients that met no restart (`Owned`). Each part of a call puts
  one record in another's place at one node (`PutKeeps`), and what it leaves as it is
  (`Keeps`) includes every record that was pure; the parts compose (`Works`), over all
  children of a round as well (`RemotesWork`). `OwnRowsOnlyAlways` is then the answer of a
  record that is found by its id. `EveryCallGetsOnAlways` is about a round whatever the
  pressure: each worker is completed by it, leaves a row in the window (`Served`), or has
  its cursor moved over rows it had not looked at (`MovesOn`), since neither a chunk size nor
  the budget is 0; and a child that no longer knows the id, or holds a cancelled request
  under it, is given up or says it is done. An answer may be without rows and not the
  last, as `request_empty_answer` shows; as a shard ends, such answers do.
* **The dispatcher.** `LoadsStayClose` is inductive beside the types: the chosen worker
  was no heavier than any other before its new shard, a worker that is not chosen keeps
  the shard that bounded it, and no load shrinks (`AssignStaysClose`). Nothing is assumed
  of the sizes of the shards or the names in the list of workers. `EachShardOnce` is
  inductive as it stands, with one shard more adding its weight to one worker's and to no
  other's (`WeightGrows`) and the front of the queue going over to the end of what was
  given (`FrontGoesOver`).
* **The flood.** `ProbeInv`: a handler's peers are still to be called, being waited for, or
  settled (`HandlerInv`); what a walk with a peer still to call leads to was never touched
  (`FreshInv`); and the reply so far is exact for the walks that go on with a settled peer
  (`ReplyInv`), so a nested reply makes one more peer exact. A call whose
  handler is gone was made to a node that may crash (`BrokenInv`), which is who may be
  missing from the reply. `ChainInv` is the nesting of the handlers while no node has crashed.
* **The line of a CSV file.** `LineInv` says what the loop knows between two characters
  (`Midway`): `inQuotes` is the parity of the quotes since the line began, and also of
  those since the field in hand began; the fields cut so far lie end to end up to that
  field, each with its quotes in pairs, and end at exactly the commas outside quotes
  passed so far. The second parity is needed for the fields to be balanced one by one:
  at a comma that cuts it is even, so the next field starts from even again.
* **The rows of a file.** `FileInv` adds to `LineInv` that a line is cut exactly if its quotes
  come in pairs (`CutMeansEven`); that, once rows are read, the columns kept are those of
  the file's header or the standard order, as the parser has it (`IdxInv`); and that the last trip is the one
  the row gives (`TripRead`). `CellsOfLine` says that the fields the loop has cut are, one by
  one, the pieces between the commas outside quotes, by which the reference reads the
  line. `RowIsByNameAlways` follows, for every header and every row; which rows are taken
  it says without the parser's `TimeOf`, by the timestamp the cell begins with (`PickupStamps`).
* **The splitter of the in-memory engines.** `SplitInv` runs the splitter beside the loop
  (`Alongside`): after the same number of characters both have the same fields behind
  them, quotes left aside, and agree whether they are inside quotes, except after the
  first of two quotes that stand for one, where the splitter has taken both already.
* **Amounts.** `AmountRead` says what the pass over an amount knows after each of its
  characters: the text so far is digits and the pass holds their number, or there is a point
  and it holds the number up to the second digit behind it and whether the third rounds up
  (`CentsKept`), or it has met a blank or broken off and the text is no amount, however
  it goes on (`NoAmountRead`). No text passed ends in "blank", since
  none trimmed ends in a blank (`StripProperties`). That the third digit alone decides the rounding is `RoundsAtThird`.
* **The times.** `TimesAlwaysAgree` needs no invariant: the two forms of a date convert into each
  other, what the strict parsers accept is in range for `Timegm`, and the count of days is
  monotone in year, month and day for every year of the calendar. Only the last second of
  1969 has the value of `timegm`'s error, and only the second after it the value 0 (`LostDates`).

Induction over data. The library's induction theorems take an operator as a parameter,
which the installed provers cannot instantiate. `FoldProofs` gets what is needed from the
existence of least numbers instead (`LeastNumber`, from the well-foundedness of `<`): what
holds of the empty set, and of a set if it does of the set without one element, holds of
every subset of a finite set (`SubsetsOneByOne`). A fold of the community modules is the
iteration along these subsets; it exists (`FoldExists`), so it is what its definition
chooses, and each fold of the models has a lemma that says so (`WeightIsFold`,
`SerialFoldExists`, `SumIsTotal`, `PartsAreTotal`, and `RemotesWork` for the loop over the
children). A fold over a sequence that calls a named step is the end of a path, a function from
the lengths of its fronts to what the fold is there (`IsPath`, `PathOfFold`); `FilteredProperties`,
`TotalOfParts` and `SaidBy` are proved along such paths (`StepByStep`), and so is what the parsers
make of a text of any length: `Number`, `TenTo`, the fold of `MoneyStep` and `SplitSoFar`.

Left to TLC: liveness (`EventuallyCompleted`, `CallerIsReleased`, `ClientIsTold`,
`FloodEnds`, `RunEnds`), which is out of the provers' reach, and `TraversalsAreExact`, since the
traversals are recursive operators, which is why they have a module of their own.

## Where code and documentation differ

* `request_empty_answer`: `fetchChunkForRpc` answers without rows and without "done"
  when a round brought nothing (`QueryCoordinator.cpp:199`), which a selective filter
  and a large shard make common. `src/benchmark_chunk_sizes.py:95` stops at the first
  empty answer (`if done or rows == 0:`) and reports the rows so far as the result.
  `src/test_overlay_coverage.sh` waits for "done".
* `overlay_diamond`: `model/QueryRequest.hpp:96` says the visited list "prevents
  duplicate traversal when the overlay graph has multiple paths". It does where of two
  parents of a node one lies behind the other, as in the shipped overlay (proved:
  `OverlayNestedMeansOnce`), and does not where two branches meet: the node they share
  gets a request from each, and its rows come twice.

* `in_process_count`: `querycoordination/QueryCoordinator.hpp:63` says of `runCount`
  "Execute COUNT query across eligible workers"; `processLocalCount` asks the first of
  them (`QueryCoordinator.cpp:341`), and without an overlay every COUNT goes there.
  `apps/distributedquery_main.cpp:70-73` registers three workers and prints the count of
  the first. (`runExecute` asks the first worker only, too.)

Smaller ones, met while reading, without a run:

* `taxi_implementation/TaxiTripCSVParser.cpp:231-232` says ".50" would be considered
  invalid; the code reads it as 50 cents, as `AmountsAreExact` requires.
* `taxi_implementation/TaxiTripCSVParser.cpp:402` counts "Not enough columns" among what breaks a row;
  a short row is taken, its missing columns as 0, unless the pickup time is missing.
* `apps/implementationA/phase1/csvReader.cpp:72` "Reads rows across ALL files": a file that
  cannot be opened ends the reading, and the first file's header serves for all.
* The Python node rejects the key `assigned_files` (`src/basic/python/src/py_node_server.py:55`),
  which every shipped .conf file has.

## What is not modelled

* Data races. No lock protects `queryStates_`, `nextQuerySeq_`, a request's window or
  `stubs_`; two handlers at once on any of them are undefined behaviour. The models
  show that the nodes themselves never make two calls on one request at a time
  (`OneHandlerPerRequest`); nothing stops a client from it, or two clients from
  submitting at once. In `ServerTables` a call runs to its end before the next, children
  are leaves and no call is lost; `RequestCoordinator` and `OverlayQuery` are the places
  for what happens within a call.
* Ids after a restart. A parent that keeps a child's id from before the child's restart may
  be given rows of another query under it. The model does that too; `OwnRowsOnly` is about
  clients whose servers did not restart, and no property is about the others.
* COUNT over RPC: `transport/QueryProtoConverters.cpp:54-91` always sets `QueryType::Execute`, so
  `processDistributedCount`, `processDistributedExecute`, `aggregateExecuteResults` and
  `materializeTripsForChunk` are not reached from any program.
* A shard file that grows or is replaced between loading and a scan, or opens on one call
  of a scan and not on the next (`NodeStart` lets files vanish between two counts).
* `loadDirectory`, `loadFiles` and the sorting of paths; the Python `load_config`.
* In the parsers: distances are whole numbers, a tab or carriage return is a blank like
  any other, amounts have at most six digits (the code's `int64_t` is not reached), and the
  in-memory engines' conversions through `stof` and `stod`.
* The stop flag of the streaming queries, which no caller passes, and the forms of these
  queries that hand rows to a callback.
* The sequential phase 1 engine.
* Formatting, logging, timing, the conversion between rows and protobuf messages.
* Generated protobuf code, the template under `src/basic/legacy`, the greeting test.

## Plan

All modules of the plan are written, and every safety property a run checks is proved but
`TraversalsAreExact`.

A model of two handlers on one request, as steps on shared fields (`ConcurrentHandlers`),
would have to say what a data race does; what can be said without that is in the list
above.
