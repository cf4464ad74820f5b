------------------------------ MODULE MCSrtLossy ------------------------------
(* Instances for TLC of what SRT makes of a network that loses, repeats and
   reorders: a behaviour is one of SrtLink ("link") or one of SrtHandshake
   ("handshake"), in which the link stays as newConn makes it. *)
EXTENDS SrtLink, SrtHandshakeConstants, TLC

CONSTANTS a, b, s, t, secret

\* One caller wishes for more latency than the listener, the other for less.
Latencies == [c \in Callers |-> IF c = a THEN 3 ELSE 1]
SomeRefused == [c \in Callers |-> IF c = a THEN {secret} ELSE {secret, NoPass}]
AllOk == [c \in Callers |-> "ok"]

\* Every socket id is as good as another.
SockSymmetry == Permutations(Socks)

VARIABLES
    part,
    now, net, caller, conn, lpc, made, conns, byCaller, accept, lclosed, closing, udpClosed

handshake == <<now, net, caller, conn, lpc, made, conns, byCaller, accept, lclosed, closing, udpClosed>>

Handshake == INSTANCE SrtHandshake

InHandshake == part = "handshake"

NoHandshake ==
    /\ now = 0 /\ net = 0 /\ caller = 0 /\ conn = 0 /\ lpc = 0 /\ made = 0 /\ conns = 0 /\ byCaller = 0
    /\ accept = 0 /\ lclosed = 0 /\ closing = 0 /\ udpClosed = 0

MCInit ==
    /\ Init
    /\ \/ part = "link" /\ NoHandshake
       \/ part = "handshake" /\ Handshake!Init

MCNext ==
    /\ UNCHANGED part
    /\ \/ ~InHandshake /\ Next /\ UNCHANGED handshake
       \/ InHandshake /\ Handshake!Next /\ UNCHANGED vars

MCSpec == MCInit /\ [][MCNext]_<<part, vars, handshake>>

\* The type invariant of SrtHandshake; accept is never fuller than its capacity.
HandshakeTypeOK == InHandshake => Handshake!TypeOK

\* Agreement of SrtHandshake: a Dial that returned a Conn and the Conn the listener
\* made for it agree, and a Dial that was refused left none (conclusion, newConn).
Agreement == InHandshake => Handshake!Agreement

\* OpenIsRegistered of SrtHandshake: a Conn that is not closed is found by its socket
\* id and by its caller (conclusion, onClose).
OpenIsRegistered == InHandshake => Handshake!OpenIsRegistered

\* CloseClosesAll of SrtHandshake: once Listener.Close has returned no Conn is open.
CloseClosesAll == InHandshake => Handshake!CloseClosesAll
===============================================================================
