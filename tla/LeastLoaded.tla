---------------------------- MODULE LeastLoaded ----------------------------
(***************************************************************************)
(* ingest/IngestQueue.hpp and ingest/IngestDispatcher.hpp: shards wait in  *)
(* a queue, and the one in front goes to the worker with the fewest bytes  *)
(* assigned so far, among those to the one with the fewest trips, among    *)
(* those to the first in the list of workers.                              *)
(***************************************************************************)
EXTENDS Integers, SequencesExt

CONSTANTS
    Worker,
    WorkerLists,    \* the lists setWorkers may be given
    Shard           \* the shards that may be pushed

ASSUME DispatchAssumption ==
    /\ WorkerLists \subseteq Seq(Worker)
    /\ Shard \subseteq [file : STRING, bytes : Nat, trips : Nat]

VARIABLES
    jobs,           \* jobs_
    workers,        \* workerNodeIds_
    bytes, trips,   \* workerAssignedBytes_ and workerAssignedTrips_
    pushed,         \* every shard pushed so far, in order
    given           \* the shards assigned so far, in order

dispatchVars == <<jobs, workers, bytes, trips, pushed, given>>

NoLoad == [w \in Worker |-> 0]

DispatchInit ==
    /\ jobs = <<>> /\ workers = <<>>
    /\ bytes = NoLoad /\ trips = NoLoad
    /\ pushed = <<>> /\ given = <<>>

SetWorkers(list) ==
    /\ workers' = list
    /\ bytes' = NoLoad
    /\ trips' = NoLoad
    /\ given' = <<>>
    /\ pushed' = jobs
    /\ UNCHANGED jobs

PushAll(shards) ==
    /\ jobs' = jobs \o shards
    /\ pushed' = pushed \o shards
    /\ UNCHANGED <<workers, bytes, trips, given>>

\* a is before b in the choice of selectLeastLoadedWorker.
Lighter(a, b) == bytes[a] < bytes[b] \/ (bytes[a] = bytes[b] /\ trips[a] < trips[b])

\* MUTANT: the workers take turns.
InTurn(k) == k = (Len(given) % Len(workers)) + 1

\* The k-th worker of the list is chosen.
IsLeastLoaded(k) ==
    /\ \A i \in DOMAIN workers : ~Lighter(workers[i], workers[k])
    /\ \A i \in 1 .. k - 1 : Lighter(workers[k], workers[i])

\* MUTANT: the newest shard is assigned first.
AssignNewest ==
    /\ workers # <<>>
    /\ jobs # <<>>
    /\ \E k \in DOMAIN workers :
           /\ IsLeastLoaded(k)
           /\ bytes' = [bytes EXCEPT ![workers[k]] = @ + jobs[Len(jobs)].bytes]
           /\ trips' = [trips EXCEPT ![workers[k]] = @ + jobs[Len(jobs)].trips]
           /\ given' = Append(given, [shard |-> jobs[Len(jobs)], node |-> workers[k]])
    /\ jobs' = SubSeq(jobs, 1, Len(jobs) - 1)
    /\ UNCHANGED <<workers, pushed>>

\* assignNext; without workers or shards it does nothing.
AssignNext ==
    /\ workers # <<>>
    /\ jobs # <<>>
    /\ \E k \in DOMAIN workers :
           /\ IsLeastLoaded(k)
           /\ bytes' = [bytes EXCEPT ![workers[k]] = @ + Head(jobs).bytes]
           /\ trips' = [trips EXCEPT ![workers[k]] = @ + Head(jobs).trips]
           /\ given' = Append(given, [shard |-> Head(jobs), node |-> workers[k]])
    /\ jobs' = Tail(jobs)
    /\ UNCHANGED <<workers, pushed>>

DispatchNext ==
    \/ \E list \in WorkerLists : SetWorkers(list)
    \/ \E s \in Shard : PushAll(<<s>>)
    \/ AssignNext

DispatchSpec == DispatchInit /\ [][DispatchNext]_dispatchVars

-----------------------------------------------------------------------------
DispatchTypeOK ==
    /\ jobs \in Seq(Shard) /\ pushed \in Seq(Shard)
    /\ workers \in Seq(Worker)
    /\ bytes \in [Worker -> Nat] /\ trips \in [Worker -> Nat]
    /\ given \in Seq([shard : Shard, node : Worker])

\* What the shards given to worker w weigh.
Weight(w) ==
    FoldLeft(LAMBDA sum, g : IF g.node = w THEN sum + g.shard.bytes ELSE sum, 0, given)

\* Every shard pushed is assigned once and in the order of the queue, or
\* still waits in it, and the load kept for a worker is the weight of the
\* shards it was given.
EachShardOnce ==
    /\ pushed = [k \in DOMAIN given |-> given[k].shard] \o jobs
    /\ \A w \in Worker : bytes[w] = Weight(w)

\* However the sizes of the shards are mixed, a worker is ahead of another by
\* no more than one of the shards it was given.
LoadsStayClose ==
    \A i, j \in DOMAIN workers :
        \/ bytes[workers[i]] <= bytes[workers[j]]
        \/ \E k \in DOMAIN given :
               /\ given[k].node = workers[i]
               /\ bytes[workers[i]] - given[k].shard.bytes <= bytes[workers[j]]
=============================================================================
