\* Two Reads and a deadline.
SPECIFICATION FairSpec
CONSTANTS
    Readers = {r1, r2}
    Writers = {}
    Closers = {}
    MaxReady = 1
    MsgLen = 1
    SendBufferSize = 1
    MaxChunks = 1
    Deadlines = TRUE
PROPERTIES
    DeadlineEndsReads
CHECK_DEADLOCK FALSE
