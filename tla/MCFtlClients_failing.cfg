CONSTANTS
    NPages = 3
    PageElement = 6
    SeqMod = 4
    Saves <- BlockSaves
    Ioctls <- None
    RmwWrites = FALSE
    RestartBroken = FALSE
    v1 = v1
    v2 = v2
    s1 = s1
    s2 = s2
    r1 = r1
    Blank = Blank
    NoItem = NoItem
    NoTask = NoTask
    Words = 3
    Tasks <- AllTasks
    Values <- OneValue
    Savers <- JustS1
    Loaders <- JustR1
    Collectors <- JustS2
    GcCalls <- DefaultGcCalls
    MarksFail = TRUE
SPECIFICATION ClientFairSpec
INVARIANTS
    ExclusiveCalls
    FreeCountIsExact
    NeverOutOfSpace
PROPERTIES
    LoadsReturn
