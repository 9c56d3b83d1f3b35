SPECIFICATION StartSpec
CONSTANTS
    Node <- MCNode
    File <- MCFile
    CsvFile <- MCCsvFile
    Infos <- MCInfos
    ChildLists <- MCChildLists
    ConfFiles <- MCConfFiles
    Worker <- MCNode
    WorkerLists <- MCWorkerLists
    Shard <- MCShard
    Disks <- MCDisks
    MaxShards = 4
INVARIANTS
    IndexesAreCurrent
    TraversalsAreExact
    BuiltAsConfigured
    CountIsOfAssignedFiles
    EachShardOnce
    LoadsStayClose
CHECK_DEADLOCK FALSE
