CONSTANTS
    NPages = 3
    PageElement = 6
    SeqMod = 4
    Saves <- BlockSaves
    Ioctls <- None
    RmwWrites = FALSE
    RestartBroken = FALSE
    v1 = v1
    v2 = v2
    s1 = s1
    s2 = s2
    r1 = r1
    Blank = Blank
    NoItem = NoItem
    NoTask = NoTask
    Words = 3
    Tasks <- AllTasks
    Values <- TwoValues
    Savers <- BothS
    Loaders <- JustR1
    Collectors <- NoTasks
    GcCalls <- None
    MarksFail = FALSE
SPECIFICATION ClientFairSpec
INVARIANTS
    ClientTypeOK
    LoadReturnsBlock
    LoadIsOneSave
    SaveIsOnFlash
PROPERTIES
    TryAgain
