CONSTANTS
    NPages = 4
    PageElement = 4
    SeqMod = 5
    Saves <- BlankSaves
    RestartBroken = FALSE
    v1 = v1
    v2 = v2
    Blank = Blank
    NoItem = NoItem
    Values <- AllValues
    GcCalls <- NoGcCalls
    Ioctls <- AllIoctls
    RmwWrites = FALSE
SPECIFICATION FairSpec
INVARIANTS
    OldestIsNotCurrent
PROPERTIES
    ImplementsStore
    ComesToRest
CHECK_DEADLOCK FALSE
