CONSTANTS
    NBlocks = 4
    RetryNum = 3
SPECIFICATION FairSpec
INVARIANTS
    TypeOK
    BlocksInOrder
    GetIsWhole
PROPERTIES
    TransfersEnd
CHECK_DEADLOCK FALSE
