\* A link with one loss, and two callers that compete for a backlog of one
\* while no minute ends.
SPECIFICATION MCSpec
CONSTANTS
    SeqHalf = 5
    MaxLossRange = 4
    ISN = 9
    MaxWrites = 2
    SndCap = 2
    MaxRecvWindow = 4
    MaxLossPerNak = 1
    MaxReadyQueue = 1
    TailBurst = 1
    DupNet = TRUE
    MaxLost = 1
    AdequateLatency = FALSE
    MayClose = TRUE
    a = a  b = b  secret = secret  NoPass = NoPass
    s = s  t = t
    Callers = {a, b}
    Socks = {s, t}
    Backlog = 1
    Latency <- Latencies
    ListenLatency = 2
    Passphrases <- SomeRefused
    ListenPass = secret
    Verdict <- AllOk
    MinuteLen = 4
    ConnectTimeout = 0
    MaxTime = 1
    MaxConns = 2
INVARIANTS
    TypeOK InOrder NoSilentGap AckCoversNoLoss GiveUpJustified CleanCloseKeepsAll
    HandshakeTypeOK Agreement OpenIsRegistered CloseClosesAll
SYMMETRY SockSymmetry
CHECK_DEADLOCK FALSE
