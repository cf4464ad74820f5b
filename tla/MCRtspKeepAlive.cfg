\* KeepAlive as soon as the timeout of the session is known.
SPECIFICATION RtspSpec
CONSTANTS
    \* Two chunk streams, one with a long id; chunks of one byte, then of two; a
    \* timestamp below, at and above the one that needs the extended field.
    Csids = {6, 70}  Wide = {70}  MsgTypes = {8}  Streams = {1}  Lens = {0, 3}  Stamps = {2, 4}
    StampMod = 8  ExtStamp = 3  FixSize = 1  Sizes = {2}  Ctrl = 2  SetSize = 1  None = None
    Peers = {"own", "foreign"}  Empties = {"foreign"}  MaxStreams = 2  MaxBuffered = 3
    MaxMsgs = 3  MaxWire = 2
    \* A handshake of two bytes for 1536, a window of three messages.
    Roles = {"publish", "play"}  Schemes = {"simple", "schema1"}  Verdicts = {"start", "error", "other"}
    HsLen = 2  WriteSize = 2  WndAck = 3  MayBreak = TRUE  Foreign = TRUE  MaxMedia = 2
    Modes = {"play", "record"}  Securities = {"open", "right", "wrong"}  Prefers = {"unset", "tcp", "udp"}
    Offers <- Descriptions  MaxAlive = 1
    Handled = {TRUE}  Refusable = {}  AliveFrom = "setup"
    \* One caller and the minutes of the cookie: answers come late, or twice.
    Callers = {"a"}  Socks = {"s"}  Backlog = 1  Latency <- Latencies  ListenLatency = 2
    Passphrases <- Secrets  ListenPass = "secret"  NoPass = "none"  Verdict <- AllOk
    MinuteLen = 1  ConnectTimeout = 1  MaxTime = 3  MaxConns = 1
INVARIANT
    PlayAutomatic
CHECK_DEADLOCK FALSE
