------------------------- MODULE SrtHandshakeConstants -------------------------
(* The parameters of SrtHandshake. *)
EXTENDS Integers

CONSTANTS
    Callers,        \* the Dial calls
    Socks,          \* the socket ids a listener draws from
    Backlog,        \* ListenConfig.Backlog
    Latency,        \* Config.Latency of each caller
    ListenLatency,  \* Config.Latency of the listener
    Passphrases,    \* what Config.Passphrase of each caller may be
    ListenPass,     \* the passphrase the listener asks for
    NoPass,         \* no passphrase
    Verdict,        \* what the listener thinks of a caller's request: "ok",
                    \* or why it refuses it (version, stream mode, Authorize)
    MinuteLen,      \* ticks in a minute
    ConnectTimeout, \* Config.ConnectTimeout in ticks
    MaxTime,        \* bound: the last tick
    MaxConns        \* bound: the Conns the listener makes

Reasons == {"version", "stream", "denied"}

ASSUME HandshakeAssumption ==
    /\ Backlog \in Nat \ {0}
    /\ MinuteLen \in Nat \ {0} /\ ConnectTimeout \in Nat
    /\ MaxTime \in Nat /\ MaxConns \in Nat
    /\ Latency \in [Callers -> Nat] /\ ListenLatency \in Nat
    /\ Verdict \in [Callers -> {"ok"} \cup Reasons]
===============================================================================
