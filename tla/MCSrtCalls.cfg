\* The link recovers from its losses; the calls on a Conn end.
SPECIFICATION MCSpec
CONSTANTS
    SeqHalf = 4
    MaxLossRange = 2
    ISN = 7
    MaxWrites = 2
    SndCap = 2
    MaxRecvWindow = 2
    MaxLossPerNak = 2
    MaxReadyQueue = 2
    TailBurst = 2
    DupNet = FALSE
    MaxLost = 2
    AdequateLatency = TRUE
    MayClose = FALSE
    Readers = {r1, r2}
    Writers = {w1, w2}
    Closers = {c1, c2}
    Single = {r1, w1, c1}
    MaxReady = 2
    MsgLen = 1
    SendBufferSize = 1
    MaxChunks = 2
    Deadlines = TRUE
INVARIANTS
    TypeOK NoLostWriteWakeup CloseReachesReads ClosedOnce
PROPERTIES
    EveryPacketArrives SendBufferDrains
    NothingAfterClose SoleReadReturns NoWriteLeftWaiting CallsEnd
