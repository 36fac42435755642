CONSTANTS
    NPages = 3
    PageElement = 6
    SeqMod = 4
    Saves <- FourSaves
    RestartBroken = FALSE
    v1 = v1
    v2 = v2
    Blank = Blank
    NoItem = NoItem
    Values <- AllValues
    GcCalls <- NoGcCalls
    Ioctls <- AllIoctls
    RmwWrites = TRUE
SPECIFICATION Spec
INVARIANTS
    TypeOK
    ReadsAgreeWithFlash
    NeverOutOfSpace
    ErasedPageIsDead
    RecoveryNeverClears
    FreeCountIsExact
PROPERTIES
    FlashStepsPreserveContents
CHECK_DEADLOCK FALSE
