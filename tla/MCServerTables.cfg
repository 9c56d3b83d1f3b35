SPECIFICATION Spec
CONSTANTS
    A = A
    B = B
    c1 = c1
    c2 = c2
    c3 = c3
    Node = {A, B}
    Children <- MCChildren
    Shard <- MCShard
    Client = {c1, c2, c3}
    Entries <- MCEntries
    Asked <- MCAsked
    MaxRestarts = 1
    Small = 1
    Default = 2
    Large = 3
    RequestLimit = 5
    RowLimit = 5
    ScanRowBudget = 2
INVARIANTS
    OwnRowsOnly
    EveryCallGetsOn
CHECK_DEADLOCK FALSE
