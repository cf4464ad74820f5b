\* Two Reads and the messages that arrive.
SPECIFICATION FairSpec
CONSTANTS
    Readers = {r1, r2}
    Writers = {}
    Closers = {}
    MaxReady = 2
    MsgLen = 1
    SendBufferSize = 1
    MaxChunks = 1
    Deadlines = FALSE
PROPERTIES
    NoReadLeftWaiting
CHECK_DEADLOCK FALSE
