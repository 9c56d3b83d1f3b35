SPECIFICATION RunSpec
CONSTANTS
    Team = {1, 2, 3}
    Memory = {"Y", "other"}
    Inputs <- MCInputs
    NumRows = 5
    Threads = 3
    NumLines = 6
    BatchSize = 2
    BatchThreads = 3
INVARIANTS
    IngestIsSerial
    ResultIsSerial
    WritesStayInside
    NoReadWhileFilling
    EachLineJudgedOnce
PROPERTIES
    NoPlaceWrittenTwice
    RunEnds
CHECK_DEADLOCK FALSE
