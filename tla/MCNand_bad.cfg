CONSTANTS
    NUser = 2
    NReserve = 2
    NTables = 3
    NPages = 2
    v1 = v1
    Blank = Blank
    Garbage = Garbage
    TablePage = TablePage
    Unknown = Unknown
    Values <- OneValue
    FactoryBad <- SecondBad
    Requests <- SomeRequests
    MaxRetry = 2
    MaxFaults = 2
    MaxCrashes = 1
SPECIFICATION FairSpec
INVARIANTS
    TypeOK
    DistinctTargets
    DataStays
    AcceptedTableIsCurrent
PROPERTIES
    CallsReturn
