\* The clock of an answer sent again.
SPECIFICATION Spec
CONSTANTS
    a = a  b = b  secret = secret  NoPass = NoPass
    s = s  t = t
    Callers = {a}
    Socks = {s, t}
    Backlog = 1
    Latency <- Latencies
    ListenLatency = 2
    Passphrases <- Allowed
    ListenPass = secret
    Verdict <- AllOk
    MinuteLen = 4
    ConnectTimeout = 2
    MaxTime = 4
    MaxConns = 1
INVARIANTS HandshakeClock
CHECK_DEADLOCK FALSE
