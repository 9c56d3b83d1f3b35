----------------------------- MODULE NodeStart -----------------------------
(***************************************************************************)
(* A node from its .conf file to its first answers (server/main.cpp):      *)
(* config, overlay, the shards it owns (dataset/PartitionLoader.cpp and    *)
(* PartitionStore.hpp), and COUNT over them (LocalQueryEngine::count).     *)
(* The loader and the engine read the same files at different times and    *)
(* by different rules: the loader counts the lines that are not blank, the *)
(* engine the rows that parse and match.                                   *)
(*                                                                         *)
(* The weights the loader finds are what a dispatcher would share out      *)
(* (LeastLoaded), and the overlay may also be edited by any program        *)
(* (OverlayGraph): both are composed here.                                 *)
(***************************************************************************)
EXTENDS OverlayGraph, NodeConfig, LeastLoaded

CONSTANTS
    CsvFile,        \* the source files whose name ends in .csv
    Disks,          \* what each source file may be
    MaxShards       \* bound: shards pushed since the workers were set

VARIABLES
    stage,          \* "edit", or where main is
    conf,           \* the .conf file it was started with
    cfg,
    disk,           \* what each file is now
    store,          \* files_: the metadata of the shards loaded
    next,           \* the entry of cfg that comes next
    counted         \* the last answer of runCount

startVars == <<stage, conf, cfg, disk, store, next, counted>>
allVars == <<startVars, graphVars, dispatchVars>>

LineKind == {"match", "rejected", "malformed", "space", "empty"}

\* A file is there or not, has a header the parser can use or not, and lines.
IsFile(d) ==
    d \in [present : BOOLEAN, header : {"usable", "unusable"}, lines : Seq(LineKind)]

\* The lines of a file that are more than blanks, and what the loader finds
\* of a file that has some.
TextLines(d) == {k \in DOMAIN d.lines : d.lines[k] \notin {"space", "empty"}}

ShardIn(d, f) ==
    [file |-> f, bytes |-> 1 + Len(d.lines), trips |-> Cardinality(TextLines(d))]

\* What the value of a key is written as.
Address == [id : Node \cup {""}, host : STRING, port : Nat, written : BOOLEAN]

IsLine(l) ==
    /\ l.key = "node_id" => l.value \in Node \cup {""}
    /\ l.key \in {"language", "listen_host"} => l.value \in STRING
    /\ l.key = "listen_port" => l.value \in Nat
    /\ l.key = "neighbors" => l.value \in Seq(Address)
    /\ l.key = "assigned_files" => l.value \in Seq(File)

ASSUME ExtensionAssumption == CsvFile \subseteq File

ASSUME LineAssumption == \A file \in ConfFiles : \A l \in ToSet(file) : IsLine(l)

ASSUME DiskAssumption ==
    \A d \in Disks :
        /\ d = [f \in File |-> d[f]]
        /\ \A f \in File :
               IsFile(d[f]) /\ (TextLines(d[f]) # {} => ShardIn(d[f], f) \in Shard)

LinesOf(f, kinds) == {k \in DOMAIN disk[f].lines : disk[f].lines[k] \in kinds}

NoFiles == [f \in File |-> [present |-> FALSE, header |-> "unusable", lines |-> <<>>]]

NothingCounted == [known |-> FALSE, rowsScanned |-> 0, rowsMatched |-> 0]

-----------------------------------------------------------------------------
StartInit ==
    /\ stage \in {"edit", "config"}
    /\ GraphInit
    /\ DispatchInit
    /\ conf = <<>>
    /\ cfg = EmptyConfig
    /\ disk \in IF stage = "edit" THEN {NoFiles} ELSE Disks
    /\ store = <<>>
    /\ next = 1
    /\ counted = NothingCounted

\* Any program that uses OverlayConfig.
Edit ==
    /\ stage = "edit"
    /\ GraphNext
    /\ UNCHANGED <<startVars, dispatchVars>>

\* loadConfig; the program ends if it throws.
ReadConfig ==
    /\ stage = "config"
    /\ conf' \in ConfFiles
    /\ cfg' = LoadConfig(conf')
    /\ stage' = IF Accepts(cfg') THEN "self" ELSE "ended"
    /\ UNCHANGED <<disk, store, next, counted, graphVars, dispatchVars>>

\* buildOverlayFromNodeConfig: the node itself, its neighbors one by one,
\* and they are its children; last, which node this is.
AddSelf ==
    /\ stage = "self"
    /\ AddNode(cfg.node_id, [isEntryNode |-> cfg.node_id = "A",
                             ownedFiles |-> cfg.assigned_files])
    /\ stage' = "peers"
    /\ UNCHANGED <<conf, cfg, disk, store, next, counted, dispatchVars>>

AddPeer ==
    /\ stage = "peers"
    /\ next <= Len(cfg.neighbors)
    /\ AddNode(cfg.neighbors[next].id, [isEntryNode |-> FALSE, ownedFiles |-> <<>>])
    /\ next' = next + 1
    /\ UNCHANGED <<stage, conf, cfg, disk, store, counted, dispatchVars>>

AddChildren ==
    /\ stage = "peers"
    /\ next = Len(cfg.neighbors) + 1
    /\ SetChildren(cfg.node_id, NeighborIds(cfg))
    /\ SetSelfNodeId(cfg.node_id)
    /\ stage' = "load"
    /\ next' = 1
    /\ UNCHANGED <<conf, cfg, disk, store, counted, dispatchVars>>

\* MUTANT of IsShard: a shard without trips is taken.
IsOpenFile(f) == f \in CsvFile /\ disk[f].present

\* A file without the extension, or without a line that is more than
\* blanks, is refused.
IsShard(f) == f \in CsvFile /\ disk[f].present /\ TextLines(disk[f]) # {}

\* loadFile and addFile: the size in bytes is that of the file.
LoadFile ==
    /\ stage = "load"
    /\ next <= Len(cfg.assigned_files)
    /\ LET f == cfg.assigned_files[next]
       IN  IF IsShard(f)
           THEN store' = Append(store, [shard |-> ShardIn(disk[f], f), order |-> next - 1])
           ELSE UNCHANGED store
    /\ next' = next + 1
    /\ UNCHANGED <<stage, conf, cfg, disk, counted, graphVars, dispatchVars>>

Serve ==
    /\ stage = "load"
    /\ next = Len(cfg.assigned_files) + 1
    /\ stage' = "serving"
    /\ UNCHANGED <<conf, cfg, disk, store, next, counted, graphVars, dispatchVars>>

\* A file is removed while the node serves.
RemoveFile(f) ==
    /\ stage = "serving"
    /\ disk[f].present
    /\ disk' = [disk EXCEPT ![f].present = FALSE]
    /\ counted' = NothingCounted
    /\ UNCHANGED <<stage, conf, cfg, store, next, graphVars, dispatchVars>>

\* PartitionStore::validate.
StoreIsValid ==
    \A k \in DOMAIN store :
        /\ store[k].shard.bytes # 0 /\ store[k].shard.trips # 0
        /\ \A j \in 1 .. k - 1 : store[j].shard.file # store[k].shard.file

Total(values) == FoldLeft(LAMBDA sum, v : sum + v, 0, values)

TotalTripCount == Total([k \in DOMAIN store |-> store[k].shard.trips])

\* What count adds up for one file: a file that does not open, or whose
\* header is of no use, is passed over.
Readable(f) == disk[f].present /\ disk[f].header = "usable"

Sum(kinds) ==
    Total([k \in DOMAIN store |->
              LET f == store[k].shard.file
              IN  IF Readable(f) THEN Cardinality(LinesOf(f, kinds)) ELSE 0])

Answer ==
    IF StoreIsValid
    THEN [known |-> TRUE, rowsScanned |-> Sum(LineKind \ {"empty"}),
          rowsMatched |-> Sum({"match"})]
    ELSE [known |-> TRUE, rowsScanned |-> 0, rowsMatched |-> 0]

Count ==
    /\ stage = "serving"
    /\ counted' = Answer
    /\ UNCHANGED <<stage, conf, cfg, disk, store, next, graphVars, dispatchVars>>

\* The shards of the store, pushed as jobs in any order and shared out.
Dispatch ==
    /\ stage = "serving"
    /\ \/ \E list \in WorkerLists : SetWorkers(list)
       \/ \E k \in DOMAIN store :
              Len(pushed) < MaxShards /\ PushAll(<<store[k].shard>>)
       \/ AssignNext
    /\ UNCHANGED <<startVars, graphVars>>

StartNext ==
    \/ Edit \/ ReadConfig \/ AddSelf \/ AddPeer \/ AddChildren
    \/ LoadFile \/ Serve \/ Count \/ Dispatch
    \/ \E f \in File : RemoveFile(f)

StartSpec == StartInit /\ [][StartNext]_allVars

-----------------------------------------------------------------------------
\* What the last line of a key says, if there is one.
Says(key, default) ==
    LET of == {k \in DOMAIN conf : conf[k].key = key}
    IN  IF of = {} THEN default
        ELSE conf[CHOOSE k \in of : \A j \in of : j <= k].value

\* The overlay of a node that loads or serves is what its .conf file says:
\* its children are the neighbors of the last list, in that order, each once,
\* itself not among them, known, and with it as their only parent; it owns
\* the files of the last list of files.
BuiltAsConfigured ==
    stage \in {"load", "serving"} =>
        LET self == Says("node_id", "")
            list == ChildrenOf(self)
        IN  /\ list = [k \in DOMAIN Says("neighbors", <<>>) |->
                          Says("neighbors", <<>>)[k].id]
            /\ IsInjective(list)
            /\ \A c \in ToSet(list) :
                   c # self /\ c \in DOMAIN nodes /\ parents[c] = <<self>>
            /\ \A f \in ToSet(Says("assigned_files", <<>>)) : owner[f] = self

\* COUNT answers the number of matching rows in the assigned .csv files that
\* open now: a shard that was refused, or is gone, does not spoil the others.  No
\* answer exceeds the trips that the loader counted.  (A shard that is
\* assigned twice makes the node answer 0.)
CountIsOfAssignedFiles ==
    counted.known =>
        /\ counted.rowsMatched <= counted.rowsScanned
        /\ counted.rowsMatched <= TotalTripCount
        /\ IsInjective(cfg.assigned_files) =>
               counted.rowsMatched =
                   Cardinality(UNION {{f} \X LinesOf(f, {"match"}) :
                       f \in {g \in ToSet(cfg.assigned_files) \cap CsvFile : Readable(g)}})
=============================================================================
