CONSTANTS
    Requests <- SomeRequests
    MaxRequests = 2
    MaxConnections = 2
    MaxPieces = 1
    BufferSize = 3
    SocketRoom = 1
    MayThrow = TRUE
SPECIFICATION FairSpec
INVARIANTS InStep WellFormed
PROPERTIES CancelEnds HangupFrees
