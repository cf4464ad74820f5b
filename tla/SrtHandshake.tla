---------------------------- MODULE SrtHandshake ----------------------------
(***************************************************************************)
(* The caller/listener handshake of go-srt: handshakeCaller of dial.go,    *)
(* handshake, conclusion, Accept and Close of listener.go, and the life of *)
(* the connections a listener registers.                                   *)
(*                                                                         *)
(* Datagrams are records in the set net, from which nothing is removed: a  *)
(* datagram that is never read was lost, one that is read again was        *)
(* duplicated, and any order of reading is possible.                       *)
(*                                                                         *)
(* Every Dial has a UDP socket and a socket id of its own, so a caller c   *)
(* stands for the key "address/socketID" of byCaller, and for its random   *)
(* initial sequence number.  The Conn objects a listener makes are         *)
(* numbered in the order of their creation; the maps conns and byCaller    *)
(* hold these numbers, 0 being nil.                                        *)
(*                                                                         *)
(* One tick of the clock is longer than handshakeRetry; MinuteLen ticks    *)
(* are a minute of the cookie.                                             *)
(***************************************************************************)
EXTENDS SrtHandshakeConstants, Sequences, FiniteSets

VARIABLES
    now,      \* the clock
    net,      \* every datagram sent
    caller,   \* caller -> where its Dial is
    conn,     \* caller -> what newConn was given when its Dial returned a Conn
    lpc,      \* where the listener's read loop is
    made,     \* the Conns made by the listener
    conns,    \* Listener.conns: socket id -> Conn
    byCaller, \* Listener.byCaller: caller -> Conn
    accept,   \* Listener.accept
    lclosed,  \* Listener.closed
    closing,  \* Conns Listener.Close still has to close
    udpClosed \* Listener.Close has closed the UDP socket

vars == <<now, net, caller, conn, lpc, made, conns, byCaller, accept,
          lclosed, closing, udpClosed>>
callerVars == <<caller, conn>>
listenerVars == <<lpc, made, conns, byCaller, accept, lclosed, closing, udpClosed>>

maxOf(a, b) == IF a >= b THEN a ELSE b
minute == now \div MinuteLen

NoConn == [peer |-> 0]

Init ==
    /\ now = 0
    /\ net = {}
    /\ \E p \in [Callers -> UNION {Passphrases[c] : c \in Callers}] :
          /\ \A c \in Callers : p[c] \in Passphrases[c]
          /\ caller = [c \in Callers |-> [pc |-> "idle", start |-> 0, phase |-> "induction",
                                          cookie |-> 0, error |-> "none", pass |-> p[c]]]
    /\ conn = [c \in Callers |-> NoConn]
    /\ lpc = [pc |-> "read"]
    /\ made = <<>>
    /\ conns = [s \in Socks |-> 0]
    /\ byCaller = [c \in Callers |-> 0]
    /\ accept = <<>>
    /\ lclosed = FALSE
    /\ closing = {}
    /\ udpClosed = FALSE

-----------------------------------------------------------------------------
(* The caller: the loop of handshakeCaller sends the handshake it is at,   *)
(* waits handshakeRetry for a datagram, and looks at it.                   *)

Go(c, pc) == caller' = [caller EXCEPT ![c].pc = pc]
Fail(c, why) == caller' = [caller EXCEPT ![c].pc = "failed", ![c].error = why]

\* The handshake packet of the current phase, with the caller's own time.
Request(c) ==
    IF caller[c].phase = "induction"
    THEN [type |-> "induction", caller |-> c]
    ELSE [type |-> "conclusion", caller |-> c, cookie |-> caller[c].cookie,
          ts |-> now - caller[c].start, km |-> caller[c].pass,
          recvDelay |-> Latency[c], sendDelay |-> Latency[c]]

\* DialContext: a socket id and an initial sequence number are drawn.  Dials
\* begin early enough for their timeout to fall within the bound on time.
Dial(c) ==
    /\ caller[c].pc = "idle"
    /\ now + ConnectTimeout < MaxTime
    /\ caller' = [caller EXCEPT ![c].pc = "send", ![c].start = now]
    /\ UNCHANGED <<now, net, conn, listenerVars>>

\* Mutant: the deadline is not looked at between two attempts.
CallerSendForever(c) ==
    /\ caller[c].pc = "send"
    /\ net' = net \cup {Request(c)}
    /\ Go(c, "wait")
    /\ UNCHANGED <<now, conn, listenerVars>>

\* The top of the loop: the context and the deadline are looked at, then the
\* request goes out (again).
CallerSend(c) ==
    /\ caller[c].pc = "send"
    /\ now <= caller[c].start + ConnectTimeout
    /\ net' = net \cup {Request(c)}
    /\ Go(c, "wait")
    /\ UNCHANGED <<now, conn, listenerVars>>

DialTimeout(c) ==
    /\ caller[c].pc = "send"
    /\ now > caller[c].start + ConnectTimeout
    /\ Fail(c, "timeout")
    /\ UNCHANGED <<now, net, conn, listenerVars>>

ContextDone(c) ==
    /\ caller[c].pc = "send"
    /\ Fail(c, "context")
    /\ UNCHANGED <<now, net, conn, listenerVars>>

\* The socket refuses to send, or to receive with an error that is neither a
\* timeout nor a refused connection.
SocketFails(c) ==
    /\ caller[c].pc \in {"send", "wait"}
    /\ Fail(c, "socket")
    /\ UNCHANGED <<now, net, conn, listenerVars>>

\* No answer within handshakeRetry, nothing listening there yet, or a datagram
\* of no use in this phase: the request is sent again.
CallerRetry(c) ==
    /\ caller[c].pc = "wait"
    /\ Go(c, "send")
    /\ UNCHANGED <<now, net, conn, listenerVars>>

\* A rejection ends the Dial whatever phase it is in.
CallerRejected(c) ==
    /\ caller[c].pc = "wait"
    /\ \E m \in net : /\ m.type = "reject" /\ m.caller = c
                      /\ Fail(c, m.reason)
    /\ UNCHANGED <<now, net, conn, listenerVars>>

\* The induction answer: the conclusion that takes its place carries the
\* cookie back.
CallerInduced(c) ==
    /\ caller[c].pc = "wait" /\ caller[c].phase = "induction"
    /\ \E m \in net :
          /\ m.type = "inductionResp" /\ m.caller = c
          /\ caller' = [caller EXCEPT ![c].pc = "send", ![c].phase = "conclusion",
                                      ![c].cookie = m.cookie]
    /\ UNCHANGED <<now, net, conn, listenerVars>>

\* What the caller's newConn is given.
callerParams(c, m) ==
    [peer |-> m.conn, peerSock |-> m.sock, isn |-> m.isn,
     peerTimestamp |-> m.ts, left |-> m.left,
     rcvLatency |-> maxOf(Latency[c], m.sendDelay),
     sndLatency |-> maxOf(Latency[c], m.recvDelay),
     key |-> caller[c].pass]

\* The conclusion answer makes the connection, unless it lacks the key
\* material an encrypting caller needs.
CallerConcluded(c) ==
    /\ caller[c].pc = "wait" /\ caller[c].phase = "conclusion"
    /\ \E m \in net :
          /\ m.type = "response" /\ m.caller = c
          /\ IF caller[c].pass # NoPass /\ m.km = NoPass
             THEN Fail(c, "badsecret") /\ UNCHANGED conn
             ELSE /\ Go(c, "connected")
                  /\ conn' = [conn EXCEPT ![c] = callerParams(c, m)]
    /\ UNCHANGED <<now, net, listenerVars>>

-----------------------------------------------------------------------------
(* The listener's read loop, a single goroutine.                           *)

Reading == lpc.pc = "read" /\ ~udpClosed

\* handshake, hsInduction: no state is kept, the cookie depends on the
\* caller's address and the minute.
HandleInduction ==
    /\ Reading
    /\ \E m \in net :
          /\ m.type = "induction"
          /\ net' = net \cup {[type |-> "inductionResp", caller |-> m.caller,
                               cookie |-> minute]}
    /\ UNCHANGED <<now, callerVars, listenerVars>>

\* handshake, hsConclusion: the cookie is this minute's or the last one's.
CookieValid(m) == m.cookie \in {minute, minute - 1}

\* The answer made[k] was registered with; k tells whose answer it is, left
\* when this copy of it is sent.  Its timestamp is 0, that of the start of
\* the Conn.
Response(k, cn) ==
    [type |-> "response", caller |-> cn.caller, conn |-> k, sock |-> cn.sock,
     isn |-> cn.isn, ts |-> 0, left |-> now, km |-> cn.key,
     recvDelay |-> cn.rcvLatency, sendDelay |-> cn.sndLatency]

\* conclusion, first critical section: a caller already known is sent the
\* stored response again.
ConclusionAgain ==
    /\ Reading /\ ~lclosed
    /\ \E m \in net :
          /\ m.type = "conclusion" /\ CookieValid(m)
          /\ byCaller[m.caller] # 0
          /\ net' = net \cup {Response(byCaller[m.caller], made[byCaller[m.caller]])}
    /\ UNCHANGED <<now, callerVars, listenerVars>>

\* conclusion, first critical section, for a new caller: the request is
\* examined, and Authorize called, with the lock released.
ConclusionNew ==
    /\ Reading /\ ~lclosed
    /\ \E m \in net :
          /\ m.type = "conclusion" /\ CookieValid(m)
          /\ byCaller[m.caller] = 0
          /\ lpc' = [pc |-> "decide", req |-> m]
    /\ UNCHANGED <<now, net, callerVars, made, conns, byCaller, accept, lclosed, closing, udpClosed>>

\* What the request itself, Authorize and the passphrases decide.
Refusal(m) ==
    IF Verdict[m.caller] # "ok" THEN Verdict[m.caller]
    ELSE IF (ListenPass = NoPass) # (m.km = NoPass) THEN "unsecure"
    ELSE IF ListenPass # NoPass /\ m.km # ListenPass THEN "badsecret"
    ELSE "none"

\* reject; Close may have closed the socket while Authorize ran.
Reject(m, why) ==
    net' = IF udpClosed THEN net
           ELSE net \cup {[type |-> "reject", caller |-> m.caller, reason |-> why]}

\* Mutant: the caller's wish for the direction it sends in is ignored.
listenerConnOwn(m, s) ==
    [caller |-> m.caller, sock |-> s, isn |-> m.caller, st |-> "open",
     rcvLatency |-> ListenLatency,
     sndLatency |-> maxOf(ListenLatency, m.recvDelay),
     key |-> m.km, start |-> now]

\* The Conn a request asks for: both latencies are the larger of the two
\* sides' wishes, and the caller's clock is the one of its handshake.
listenerConn(m, s) ==
    [caller |-> m.caller, sock |-> s, isn |-> m.caller, st |-> "open",
     rcvLatency |-> maxOf(ListenLatency, m.sendDelay),
     sndLatency |-> maxOf(ListenLatency, m.recvDelay),
     key |-> m.km, start |-> now]

\* Mutant: a socket id that is taken is used all the same.
FreeSocksAny == Socks

\* The socket ids conclusion may end up with: it draws again while the id
\* is taken.
FreeSocks == {s \in Socks : conns[s] = 0}

\* Mutant: the Conn is registered before the request is examined.
ConclusionRefusedLate ==
    /\ lpc.pc = "decide"
    /\ Refusal(lpc.req) # "none"
    /\ Len(made) < MaxConns
    /\ Reject(lpc.req, Refusal(lpc.req))
    /\ \E s \in FreeSocks :
          /\ made' = Append(made, listenerConn(lpc.req, s))
          /\ conns' = [conns EXCEPT ![s] = Len(made) + 1]
          /\ byCaller' = [byCaller EXCEPT ![lpc.req.caller] = Len(made) + 1]
    /\ lpc' = [pc |-> "read"]
    /\ UNCHANGED <<now, callerVars, accept, lclosed, closing, udpClosed>>

\* The request is refused.
ConclusionRefused ==
    /\ lpc.pc = "decide"
    /\ Refusal(lpc.req) # "none"
    /\ Reject(lpc.req, Refusal(lpc.req))
    /\ lpc' = [pc |-> "read"]
    /\ UNCHANGED <<now, callerVars, made, conns, byCaller, accept, lclosed, closing, udpClosed>>

\* Second critical section, when the listener was closed meanwhile.
ConclusionLate ==
    /\ lpc.pc = "decide" /\ Refusal(lpc.req) = "none"
    /\ lclosed
    /\ lpc' = [pc |-> "read"]
    /\ UNCHANGED <<now, net, callerVars, made, conns, byCaller, accept, lclosed, closing, udpClosed>>

\* Mutant: the backlog is found full one Conn too late.
BacklogFullLate == Len(accept) > Backlog

\* Second critical section, when accept is full.
BacklogFull == Len(accept) = Backlog

ConclusionFull ==
    /\ lpc.pc = "decide" /\ Refusal(lpc.req) = "none"
    /\ ~lclosed /\ BacklogFull
    /\ Reject(lpc.req, "resource")
    /\ lpc' = [pc |-> "read"]
    /\ UNCHANGED <<now, callerVars, made, conns, byCaller, accept, lclosed, closing, udpClosed>>

\* Mutant: whether the listener was closed is not looked at again.
MayRegisterBlind == ~BacklogFull

\* Second critical section: the Conn is registered, the answer sent, and
\* the Conn offered to Accept, all before the lock is released.
MayRegister == ~lclosed /\ ~BacklogFull

ConclusionDone ==
    /\ lpc.pc = "decide" /\ Refusal(lpc.req) = "none"
    /\ MayRegister
    /\ Len(made) < MaxConns
    /\ \E s \in FreeSocks :
          LET k  == Len(made) + 1
              cn == listenerConn(lpc.req, s)
          IN  /\ made' = Append(made, cn)
              /\ conns' = [conns EXCEPT ![s] = k]
              /\ byCaller' = [byCaller EXCEPT ![cn.caller] = k]
              /\ net' = net \cup {Response(k, cn)}
              /\ accept' = Append(accept, k)
    /\ lpc' = [pc |-> "read"]
    /\ UNCHANGED <<now, callerVars, lclosed, closing, udpClosed>>

-----------------------------------------------------------------------------
(* The application of the listener, and the Conns it made.                 *)

\* Accept, when it takes a connection; after Close it may do so still.
Accept ==
    /\ accept # <<>>
    /\ accept' = Tail(accept)
    /\ UNCHANGED <<now, net, callerVars, lpc, made, conns, byCaller, lclosed, closing, udpClosed>>

\* closeLocked: the Conn is closed at once, its removal from the listener's
\* maps is left to a goroutine of its own.
CloseConn(k) == made' = [made EXCEPT ![k].st = IF @ = "open" THEN "closed" ELSE @]

\* A Conn ends: the application closes it, the peer's shutdown arrives, or
\* ErrPeerIdle.
ConnEnds(k) ==
    /\ made[k].st = "open"
    /\ CloseConn(k)
    /\ UNCHANGED <<now, net, callerVars, lpc, conns, byCaller, accept, lclosed, closing, udpClosed>>

ConnEnd == \E k \in 1..Len(made) : ConnEnds(k)

\* Whether the caller of made[k] holds its other end.
HasPeer(k) == \E c \in Callers : caller[c].pc = "connected" /\ conn[c].peer = k

\* Silence for PeerIdleTimeout ends a Conn that no caller will talk to.
PeerIdle == \E k \in 1..Len(made) :
                /\ ~HasPeer(k) /\ caller[made[k].caller].pc \in {"connected", "failed"}
                /\ ConnEnds(k)

\* Mutant: a closed listener does not tidy its maps any more.
OnCloseWhileOpen ==
    /\ ~lclosed
    /\ \E k \in 1..Len(made) :
          /\ made[k].st = "closed"
          /\ made' = [made EXCEPT ![k].st = "removed"]
          /\ conns' = [conns EXCEPT ![made[k].sock] = 0]
          /\ byCaller' = [byCaller EXCEPT ![made[k].caller] = 0]
    /\ UNCHANGED <<now, net, callerVars, lpc, accept, lclosed, closing, udpClosed>>

\* The onClose callback of a Conn the listener made.
OnClose ==
    /\ \E k \in 1..Len(made) :
          /\ made[k].st = "closed"
          /\ made' = [made EXCEPT ![k].st = "removed"]
          /\ conns' = [conns EXCEPT ![made[k].sock] = 0]
          /\ byCaller' = [byCaller EXCEPT ![made[k].caller] = 0]
    /\ UNCHANGED <<now, net, callerVars, lpc, accept, lclosed, closing, udpClosed>>

\* Mutant: Close collects the empty entries too.
ListenerCloseNil ==
    /\ ~lclosed
    /\ lclosed' = TRUE
    /\ closing' = {conns[s] : s \in Socks}
    /\ UNCHANGED <<now, net, callerVars, lpc, made, conns, byCaller, accept, udpClosed>>

\* Listener.Close: the flag and the list of Conns under the lock ...
ListenerClose ==
    /\ ~lclosed
    /\ lclosed' = TRUE
    /\ closing' = {conns[s] : s \in Socks} \ {0}
    /\ UNCHANGED <<now, net, callerVars, lpc, made, conns, byCaller, accept, udpClosed>>

\* ... then Conn after Conn without it ...
ListenerCloseConn ==
    /\ \E k \in closing : CloseConn(k) /\ closing' = closing \ {k}
    /\ UNCHANGED <<now, net, callerVars, lpc, conns, byCaller, accept, lclosed, udpClosed>>

\* ... and at last the UDP socket.
ListenerCloseEnd ==
    /\ lclosed /\ closing = {} /\ ~udpClosed
    /\ udpClosed' = TRUE
    /\ UNCHANGED <<now, net, callerVars, lpc, made, conns, byCaller, accept, lclosed, closing>>

Tick ==
    /\ now < MaxTime
    /\ now' = now + 1
    /\ UNCHANGED <<net, callerVars, listenerVars>>

-----------------------------------------------------------------------------
CallerStep(c) ==
    \/ Dial(c) \/ CallerSend(c) \/ DialTimeout(c) \/ ContextDone(c) \/ SocketFails(c)
    \/ CallerRetry(c) \/ CallerRejected(c) \/ CallerInduced(c) \/ CallerConcluded(c)

Next ==
    \/ \E c \in Callers : CallerStep(c)
    \/ HandleInduction \/ ConclusionAgain \/ ConclusionNew \/ ConclusionRefused
    \/ ConclusionLate \/ ConclusionFull \/ ConclusionDone
    \/ Accept \/ ConnEnd \/ OnClose
    \/ ListenerClose \/ ListenerCloseConn \/ ListenerCloseEnd
    \/ Tick

Spec == Init /\ [][Next]_vars

\* The clock runs, the read timeout of a waiting caller fires, a caller
\* whose time is up notices, Conns without a peer idle out and the goroutine
\* of closeLocked is scheduled; Listener.Close, once called, goes on.
\* Nothing is assumed of the network or of the applications.
FairSpec ==
    /\ Spec
    /\ WF_vars(Tick)
    /\ \A c \in Callers : /\ WF_vars(CallerRetry(c))
                          /\ WF_vars(CallerSend(c) \/ DialTimeout(c))
    /\ WF_vars(PeerIdle) /\ WF_vars(OnClose)
    /\ WF_vars(ListenerCloseConn) /\ WF_vars(ListenerCloseEnd)

-----------------------------------------------------------------------------
(* Properties.                                                             *)

Message ==
    [type : {"induction"}, caller : Callers]
      \cup [type : {"inductionResp"}, caller : Callers, cookie : Nat]
      \cup [type : {"conclusion"}, caller : Callers, cookie : Nat, ts : Nat,
            km : UNION {Passphrases[c] : c \in Callers}, recvDelay : Nat, sendDelay : Nat]
      \cup [type : {"response"}, caller : Callers, conn : Nat, sock : Socks, isn : Callers,
            ts : Nat, left : Nat, km : UNION {Passphrases[c] : c \in Callers},
            recvDelay : Nat, sendDelay : Nat]
      \cup [type : {"reject"}, caller : Callers,
            reason : Reasons \cup {"unsecure", "badsecret", "resource"}]

\* The variables have the types of the fields they stand for: the maps hold
\* Conns that exist, and timestamps, differences of clock readings, are
\* never negative.  accept never holds more than its capacity, so that
\* conclusion, which sends on it with the lock held, cannot block there.
TypeOK ==
    /\ now \in 0..MaxTime
    /\ net \subseteq Message
    /\ \A c \in Callers :
          /\ caller[c].pc \in {"idle", "send", "wait", "connected", "failed"}
          /\ caller[c].phase \in {"induction", "conclusion"}
          /\ caller[c].start \in 0..now
          /\ conn[c].peer \in 0..Len(made)
          /\ byCaller[c] \in 0..Len(made)
    /\ lpc.pc \in {"read", "decide"}
    /\ \A s \in Socks : conns[s] \in 0..Len(made)
    /\ \A k \in 1..Len(made) : made[k].st \in {"open", "closed", "removed"}
    /\ Len(accept) <= Backlog
    /\ \A i \in 1..Len(accept) : accept[i] \in 1..Len(made)
    /\ closing \subseteq 1..Len(made)
    /\ lclosed \in BOOLEAN /\ udpClosed \in BOOLEAN

\* When Dial returns a Conn, the Conn the listener made for it has been
\* given the same parameters, whatever was lost, repeated or delayed: the
\* initial sequence number, the key and, crosswise, the latencies (what one
\* side sends with is what the other plays with); and the listener had no
\* reason to refuse this caller.  A Dial that ends because the request was
\* refused has left no Conn at the listener.
Agreement ==
    \A c \in Callers :
        LET k == conn[c].peer IN
        /\ caller[c].pc = "connected" =>
              /\ made[k].caller = c
              /\ conn[c].peerSock = made[k].sock
              /\ conn[c].isn = made[k].isn
              /\ conn[c].key = made[k].key
              /\ conn[c].rcvLatency = made[k].sndLatency
              /\ conn[c].sndLatency = made[k].rcvLatency
              /\ Verdict[c] = "ok" /\ caller[c].pass = ListenPass
        /\ caller[c].error \in Reasons \cup {"unsecure", "badsecret"} =>
              \A n \in 1..Len(made) : made[n].caller # c

\* A Conn that is not closed is found by its socket id, so that the caller's
\* packets reach it, and by its caller, so that a repeated conclusion does
\* not make a second one; hence a caller never has two open Conns.
OpenIsRegistered ==
    \A k \in 1..Len(made) : made[k].st # "removed" =>
        conns[made[k].sock] = k /\ byCaller[made[k].caller] = k

\* "Close stops listening and closes every connection it accepted": once
\* Listener.Close has returned no Conn is open, those nobody accepted and
\* those registered while Close was starting included.
CloseClosesAll == udpClosed => \A k \in 1..Len(made) : made[k].st # "open"

\* Dial returns, whatever the network and the listener do.
Dialing(c) == caller[c].pc \in {"send", "wait"}

DialEnds == \A c \in Callers : ~<>[]Dialing(c)

\* A Conn whose caller never got the answer, or gave up, does not stay with
\* the listener: its entries in conns and byCaller are removed.
HalfOpen(k) == k <= Len(made) /\ ~HasPeer(k) /\ made[k].st # "removed"

HalfOpenReclaimed == \A k \in 1..MaxConns : ~<>[]HalfOpen(k)

\* newConn's comment: "the peer's clock read p.peerTimestamp when its
\* handshake left".  The listener's Conn counts its time from its start.
HandshakeClock ==
    \A c \in Callers : caller[c].pc = "connected" =>
        conn[c].peerTimestamp = conn[c].left - made[conn[c].peer].start

=============================================================================
