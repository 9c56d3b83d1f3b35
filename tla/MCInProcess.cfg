SPECIFICATION Spec
CONSTANTS
    A = A
    B = B
    C = C
    X = X
    NoTarget = NoTarget
    Workers <- MCWorkers
    Shard <- MCShard
    Requests <- MCRequests
    ChunkSize = 0
    MaxCalls = 4
    Small = 1
    Default = 2
    Large = 3
    RequestLimit = 5
    RowLimit = 5
    ScanRowBudget = 2
INVARIANT CountIsOfAllWorkers
CHECK_DEADLOCK FALSE
