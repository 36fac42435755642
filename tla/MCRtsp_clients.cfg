CONSTANTS
    NStreams = 2
    MaxClients = 2
    MaxPlays = 2
    MaxStarts = 2
    MaxInput = 1
SPECIFICATION FairSpec
INVARIANTS
    TypeOK
    SendsToItsClient
PROPERTIES
    HandleReturns
    CloseReturns
CHECK_DEADLOCK FALSE
