CONSTANTS
    NPages = 3
    PageElement = 6
    SeqMod = 4
    Saves <- EachAddress
    RestartBroken = TRUE
    v1 = v1
    v2 = v2
    Blank = Blank
    NoItem = NoItem
    Values <- AllValues
    GcCalls <- NoGcCalls
    Ioctls <- NoIoctls
    RmwWrites = TRUE
SPECIFICATION Spec
INVARIANTS
    AppendsToBlank
    FreeCountIsExact
    NeverOutOfSpace
