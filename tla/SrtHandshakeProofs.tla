--------------------------- MODULE SrtHandshakeProofs ---------------------------
(***************************************************************************)
(* Proofs about SrtHandshake: the safety of the handshake, for any number  *)
(* of callers and socket ids, any backlog and any network.                 *)
(*                                                                         *)
(* What the two ends know of each other passes through datagrams that may  *)
(* be old, so the invariant says of every datagram ever sent what it still *)
(* proves: Sent.  It stays true because a caller's passphrase never        *)
(* changes and a Conn, once made, changes nothing but its state (Grows).   *)
(***************************************************************************)
EXTENDS SrtHandshake, TLAPS

Keys == UNION {Passphrases[c] : c \in Callers}
Refusals == Reasons \cup {"unsecure", "badsecret"}
Errors == Refusals \cup {"none", "timeout", "context", "socket", "resource"}

Conclusion == [type : {"conclusion"}, caller : Callers, cookie : Nat, ts : Nat,
               km : Keys, recvDelay : Nat, sendDelay : Nat]
Answer == [type : {"response"}, caller : Callers, conn : Nat, sock : Socks, isn : Callers,
           ts : Nat, left : Nat, km : Keys, recvDelay : Nat, sendDelay : Nat]
DialConn == [peer : Nat, peerSock : Socks, isn : Callers, peerTimestamp : Nat, left : Nat,
             rcvLatency : Nat, sndLatency : Nat, key : Keys]
ListenerConn == [caller : Callers, sock : Socks, isn : Callers, st : {"open", "closed", "removed"},
                 rcvLatency : Nat, sndLatency : Nat, key : Keys, start : Nat]
DialState == [pc : {"idle", "send", "wait", "connected", "failed"}, start : Nat,
              phase : {"induction", "conclusion"}, cookie : Nat, error : Errors, pass : Keys]

Made == 1..Len(made)

\* The variables as functions and sequences of what they hold.
Shape ==
    /\ now \in Nat /\ now <= MaxTime
    /\ net \subseteq Message
    /\ caller \in [Callers -> DialState]
    /\ \A c \in Callers : caller[c].start <= now
    /\ conn \in [Callers -> DialConn \cup {NoConn}]
    /\ made \in Seq(ListenerConn)
    /\ conns \in [Socks -> Nat] /\ byCaller \in [Callers -> Nat]
    /\ accept \in Seq(Nat)
    /\ lpc.pc \in {"read", "decide"}
    /\ lclosed \in BOOLEAN /\ udpClosed \in BOOLEAN

\* What the maps and queues of the listener hold are Conns it has made.
InRange ==
    /\ \A s \in Socks : conns[s] <= Len(made)
    /\ \A c \in Callers : byCaller[c] <= Len(made)
    /\ \A i \in 1..Len(accept) : accept[i] \in Made
    /\ Len(accept) <= Backlog
    /\ closing \subseteq Made

\* The listener has no reason to refuse this caller.
Welcome(c) == Verdict[c] = "ok" /\ caller[c].pass = ListenPass

\* An answer says of the Conn it names what that Conn is.
Describes(m, cn) ==
    /\ m.caller = cn.caller /\ m.sock = cn.sock /\ m.isn = cn.isn /\ m.km = cn.key
    /\ m.recvDelay = cn.rcvLatency /\ m.sendDelay = cn.sndLatency

\* What a datagram still proves, however old it is.
Holds(m) ==
    /\ m.type = "conclusion" => /\ m.km = caller[m.caller].pass
                                /\ m.recvDelay = Latency[m.caller] /\ m.sendDelay = Latency[m.caller]
    /\ m.type = "response" => m.conn \in Made /\ Describes(m, made[m.conn])
    /\ m.type = "reject" /\ m.reason \in Refusals => ~Welcome(m.caller)
Sent == \A m \in net : Holds(m)

\* The request the read loop is deciding on has no Conn yet.
Deciding ==
    lpc.pc = "decide" => lpc.req \in net /\ lpc.req.type = "conclusion" /\ byCaller[lpc.req.caller] = 0

\* A Conn the listener made serves a caller it welcomes, with what that caller asked for.
MadeFor(cn) ==
    /\ Welcome(cn.caller) /\ cn.key = caller[cn.caller].pass
    /\ cn.rcvLatency = maxOf(ListenLatency, Latency[cn.caller])
    /\ cn.sndLatency = maxOf(ListenLatency, Latency[cn.caller])
MadeWell == \A k \in Made : MadeFor(made[k])

\* Where a Dial ended is what the listener's Conn, or its refusal, says.
Dialed ==
    \A c \in Callers :
        /\ caller[c].pc # "connected" => conn[c] = NoConn
        /\ caller[c].pc = "connected" =>
              LET k == conn[c].peer IN
              /\ k \in Made
              /\ made[k].caller = c /\ conn[c].peerSock = made[k].sock /\ conn[c].isn = made[k].isn
              /\ conn[c].key = made[k].key
              /\ conn[c].rcvLatency = made[k].sndLatency /\ conn[c].sndLatency = made[k].rcvLatency
        /\ caller[c].error \in Refusals => ~Welcome(c)

\* Once Close has taken its list, the Conns that are open are those on it.
ClosingAll ==
    /\ lclosed => \A k \in Made : made[k].st = "open" => k \in closing
    /\ udpClosed => lclosed /\ closing = {}

HInv == /\ Shape /\ InRange /\ Sent /\ Deciding /\ MadeWell /\ Dialed
        /\ OpenIsRegistered /\ ClosingAll

-----------------------------------------------------------------------------
(* What never changes.                                                     *)

SameConn(a, b) ==
    /\ a.caller = b.caller /\ a.sock = b.sock /\ a.isn = b.isn /\ a.key = b.key
    /\ a.rcvLatency = b.rcvLatency /\ a.sndLatency = b.sndLatency

\* Conns are only added, and only their state changes; a Dial keeps its passphrase.
Grows ==
    /\ made' \in Seq(ListenerConn) /\ Len(made) <= Len(made')
    /\ \A k \in Made : SameConn(made'[k], made[k])
    /\ \A c \in Callers : caller'[c].pass = caller[c].pass

\* Every Conn made has the fields of one.
LEMMA MadeTypes ==
    ASSUME Shape, NEW k \in Made
    PROVE  made[k] \in ListenerConn /\ k \in Nat /\ k # 0 /\ Len(made) \in Nat
<1>1. made \in Seq(ListenerConn) BY DEF Shape
<1>2. Len(made) \in Nat BY <1>1
<1>3. made[k] \in ListenerConn BY <1>1 DEF Made
<1> QED BY <1>2, <1>3 DEF Made

\* Each kind of datagram has its own fields.
LEMMA MessageKinds ==
    ASSUME NEW m \in Message
    PROVE  /\ m.caller \in Callers
           /\ m.type = "inductionResp" => m.cookie \in Nat
           /\ m.type = "conclusion" => m \in Conclusion
           /\ m.type = "response" => m \in Answer
           /\ m.type = "reject" => m.reason \in Refusals \cup {"resource"}
BY DEF Message, Conclusion, Answer, Keys, Refusals

\* A datagram of one of these kinds is one that can be sent.
LEMMA MessageMade ==
    /\ Conclusion \subseteq Message /\ Answer \subseteq Message
    /\ \A c \in Callers : [type |-> "induction", caller |-> c] \in Message
    /\ \A c \in Callers, n \in Nat : [type |-> "inductionResp", caller |-> c, cookie |-> n] \in Message
    /\ \A c \in Callers, r \in Refusals \cup {"resource"} :
          [type |-> "reject", caller |-> c, reason |-> r] \in Message
<1>1. Conclusion \subseteq Message BY DEF Message, Conclusion, Keys
<1>2. Answer \subseteq Message BY DEF Message, Answer, Keys
<1>3. \A c \in Callers : [type |-> "induction", caller |-> c] \in Message BY DEF Message
<1>4. \A c \in Callers, n \in Nat : [type |-> "inductionResp", caller |-> c, cookie |-> n] \in Message
  BY DEF Message
<1>5. \A c \in Callers, r \in Refusals \cup {"resource"} :
          [type |-> "reject", caller |-> c, reason |-> r] \in Message
  BY DEF Message, Refusals
<1> QED BY <1>1, <1>2, <1>3, <1>4, <1>5

\* A datagram keeps what it proves while the Conns only grow.
LEMMA HoldsLasts ==
    ASSUME Shape, Grows, NEW m \in Message, Holds(m)
    PROVE  Holds(m)'
<1>1. m.caller \in Callers BY MessageKinds
<1>2. m.type = "conclusion" => /\ m.km = caller'[m.caller].pass
                               /\ m.recvDelay = Latency[m.caller] /\ m.sendDelay = Latency[m.caller]
  BY <1>1 DEF Holds, Grows
<1>3. m.type = "response" => m.conn \in 1..Len(made') /\ Describes(m, made'[m.conn])
  <2> SUFFICES ASSUME m.type = "response" PROVE m.conn \in 1..Len(made') /\ Describes(m, made'[m.conn])
    OBVIOUS
  <2>1. m.conn \in Made /\ Describes(m, made[m.conn]) BY DEF Holds
  <2>2. Len(made) \in Nat /\ Len(made') \in Nat /\ Len(made) <= Len(made')
    BY DEF Shape, Grows
  <2>3. m.conn \in 1..Len(made') BY <2>1, <2>2 DEF Made
  <2>4. SameConn(made'[m.conn], made[m.conn]) BY <2>1 DEF Grows
  <2> QED BY <2>1, <2>3, <2>4 DEF Describes, SameConn
<1>4. m.type = "reject" /\ m.reason \in Refusals => ~Welcome(m.caller)'
  BY <1>1 DEF Holds, Grows, Welcome
<1> QED BY <1>2, <1>3, <1>4 DEF Holds, Made

\* What a Dial was given keeps its match, and a Conn its caller, while the
\* Conns only grow.
LEMMA MatchLasts ==
    ASSUME HInv, Grows, UNCHANGED conn, \A c \in Callers : caller'[c].pc = caller[c].pc,
           \A c \in Callers : caller'[c].error = caller[c].error
    PROVE  Dialed'
<1>1. Len(made) \in Nat /\ Len(made') \in Nat /\ Len(made) <= Len(made')
  BY DEF HInv, Shape, Grows
<1> SUFFICES ASSUME NEW c \in Callers
             PROVE  /\ caller'[c].pc # "connected" => conn'[c] = NoConn
                    /\ caller'[c].pc = "connected" => conn'[c].peer \in 1..Len(made')
                    /\ caller'[c].pc = "connected" =>
                          LET cn == made'[conn'[c].peer] IN
                          /\ cn.caller = c /\ conn'[c].peerSock = cn.sock /\ conn'[c].isn = cn.isn
                          /\ conn'[c].key = cn.key
                          /\ conn'[c].rcvLatency = cn.sndLatency /\ conn'[c].sndLatency = cn.rcvLatency
                    /\ caller'[c].error \in Refusals => ~Welcome(c)'
  BY DEF Dialed, Made
<1>2. caller'[c].pc # "connected" => conn'[c] = NoConn BY DEF HInv, Dialed
<1>3. caller'[c].error \in Refusals => ~Welcome(c)'
  BY DEF HInv, Dialed, Welcome, Grows
<1>4. ASSUME caller'[c].pc = "connected"
      PROVE  /\ conn'[c].peer \in 1..Len(made')
             /\ LET cn == made'[conn'[c].peer] IN
                /\ cn.caller = c /\ conn'[c].peerSock = cn.sock /\ conn'[c].isn = cn.isn
                /\ conn'[c].key = cn.key
                /\ conn'[c].rcvLatency = cn.sndLatency /\ conn'[c].sndLatency = cn.rcvLatency
  <2>1. conn[c].peer \in Made BY <1>4 DEF HInv, Dialed
  <2>2. SameConn(made'[conn[c].peer], made[conn[c].peer]) BY <2>1 DEF Grows
  <2>3. conn[c].peer \in 1..Len(made') BY <2>1, <1>1 DEF Made
  <2> QED BY <1>4, <2>2, <2>3 DEF HInv, Dialed, SameConn
<1> QED BY <1>2, <1>3, <1>4

\* The Conns made so far keep serving callers the listener welcomes.
LEMMA MadeForLasts ==
    ASSUME HInv, Grows, NEW k \in Made
    PROVE  MadeFor(made[k])'
<1>1. MadeFor(made[k]) BY DEF HInv, MadeWell
<1>2. SameConn(made'[k], made[k]) BY DEF Grows
<1>3. made[k].caller \in Callers BY MadeTypes DEF HInv, ListenerConn
<1> QED BY <1>1, <1>2, <1>3 DEF MadeFor, SameConn, Grows, Welcome

-----------------------------------------------------------------------------
(* The steps.                                                              *)

LEMMA InitInv == Init => HInv
<1> SUFFICES ASSUME Init PROVE HInv
  OBVIOUS
<1>1. PICK p \in [Callers -> Keys] :
        caller = [c \in Callers |-> [pc |-> "idle", start |-> 0, phase |-> "induction",
                                     cookie |-> 0, error |-> "none", pass |-> p[c]]]
  BY DEF Init, Keys
<1>2. made = <<>> /\ accept = <<>> /\ Len(made) = 0 /\ Len(accept) = 0
  BY DEF Init
<1>3. Made = {} BY <1>2 DEF Made
<1>4. Shape
  <2>1. caller \in [Callers -> DialState]
    BY <1>1 DEF DialState, Errors
  <2>2. \A c \in Callers : caller[c].start <= now
    <3>1. now = 0 BY DEF Init
    <3>2. \A c \in Callers : caller[c].start = 0 BY <1>1
    <3>3. 0 <= 0 OBVIOUS
    <3> QED BY <3>1, <3>2, <3>3
  <2>3. now \in Nat /\ now <= MaxTime /\ net \subseteq Message
    BY HandshakeAssumption DEF Init
  <2>4. conn \in [Callers -> DialConn \cup {NoConn}] /\ conns \in [Socks -> Nat] /\ byCaller \in [Callers -> Nat]
    BY DEF Init
  <2>5. made \in Seq(ListenerConn) /\ accept \in Seq(Nat)
    BY <1>2
  <2>6. lpc.pc \in {"read", "decide"} /\ lclosed \in BOOLEAN /\ udpClosed \in BOOLEAN
    BY DEF Init
  <2> QED BY <2>1, <2>2, <2>3, <2>4, <2>5, <2>6 DEF Shape
<1>5. InRange BY <1>2, HandshakeAssumption DEF Init, InRange, Made
<1>6. Sent /\ Deciding BY DEF Init, Sent, Deciding
<1>7. MadeWell /\ OpenIsRegistered /\ ClosingAll
  BY <1>2, <1>3 DEF Init, MadeWell, OpenIsRegistered, ClosingAll, Made
<1>8. Dialed BY <1>1 DEF Init, Dialed, Refusals, Reasons
<1> QED BY <1>4, <1>5, <1>6, <1>7, <1>8 DEF HInv

\* A step of a Dial that does not make its Conn: the Dial goes from one
\* state to another, and what it sends is what it asks for.
LEMMA DialMoves ==
    ASSUME HInv, NEW c \in Callers, NEW d \in DialState, d.pass = caller[c].pass, d.start <= now,
           caller[c].pc # "connected", d.pc # "connected", d.error \in Refusals => ~Welcome(c),
           caller' = [caller EXCEPT ![c] = d], UNCHANGED <<now, conn, listenerVars>>,
           net \subseteq net', \A m \in net' : m \in net \/ (m \in Message /\ Holds(m))
    PROVE  HInv'
<1> USE DEF listenerVars
<1>1. Shape'
  <2>1. caller' \in [Callers -> DialState] BY DEF HInv, Shape
  <2>2. \A e \in Callers : caller'[e].start <= now BY DEF HInv, Shape
  <2>3. net' \subseteq Message BY DEF HInv, Shape
  <2> QED BY <2>1, <2>2, <2>3 DEF HInv, Shape
<1>2. Grows
  <2>1. \A e \in Callers : caller'[e].pass = caller[e].pass BY DEF HInv, Shape
  <2> QED BY <2>1 DEF HInv, Shape, Grows, SameConn
<1>3. InRange' BY DEF HInv, InRange, Made
<1>4. Sent'
  <2> SUFFICES ASSUME NEW m \in net' PROVE Holds(m)'
    BY DEF Sent
  <2>1. m \in Message /\ Holds(m) BY DEF HInv, Shape, Sent
  <2> QED BY <2>1, <1>2, HoldsLasts DEF HInv
<1>5. Deciding' BY DEF HInv, Deciding
<1>6. MadeWell'
  BY <1>2, MadeForLasts DEF MadeWell, Made
<1>7. Dialed'
  <2>1. \A e \in Callers : Welcome(e)' = Welcome(e) BY <1>2 DEF Welcome, Grows
  <2>2. caller'[c] = d /\ \A e \in Callers : e # c => caller'[e] = caller[e]
    BY DEF HInv, Shape
  <2> SUFFICES ASSUME NEW e \in Callers
               PROVE (/\ caller[e].pc # "connected" => conn[e] = NoConn
                      /\ caller[e].pc = "connected" =>
                            LET k == conn[e].peer IN
                            /\ k \in Made
                            /\ made[k].caller = e /\ conn[e].peerSock = made[k].sock
                            /\ conn[e].isn = made[k].isn /\ conn[e].key = made[k].key
                            /\ conn[e].rcvLatency = made[k].sndLatency
                            /\ conn[e].sndLatency = made[k].rcvLatency
                      /\ caller[e].error \in Refusals => ~Welcome(e))'
    BY DEF Dialed
  <2>3. CASE e = c BY <2>1, <2>2, <2>3 DEF HInv, Dialed
  <2>4. CASE e # c BY <2>1, <2>2, <2>4 DEF HInv, Dialed, Made
  <2> QED BY <2>3, <2>4
<1>8. OpenIsRegistered' /\ ClosingAll'
  BY DEF HInv, OpenIsRegistered, ClosingAll, Made
<1> QED BY <1>1, <1>3, <1>4, <1>5, <1>6, <1>7, <1>8 DEF HInv

\* A step of the read loop that makes no Conn.
LEMMA LoopAnswers ==
    ASSUME HInv,
           UNCHANGED <<now, callerVars, made, conns, byCaller, accept, lclosed, closing, udpClosed>>,
           net \subseteq net', \A m \in net' : m \in net \/ (m \in Message /\ Holds(m)),
           lpc'.pc \in {"read", "decide"}, Deciding'
    PROVE  HInv'
<1> USE DEF callerVars
<1>1. Shape' BY DEF HInv, Shape
<1>2. Grows BY DEF HInv, Shape, Grows, SameConn
<1>3. InRange' BY DEF HInv, InRange, Made
<1>4. Sent'
  <2> SUFFICES ASSUME NEW m \in net' PROVE Holds(m)'
    BY DEF Sent
  <2>1. m \in Message /\ Holds(m) BY DEF HInv, Shape, Sent
  <2> QED BY <2>1, <1>2, HoldsLasts DEF HInv
<1>6. MadeWell' BY <1>2, MadeForLasts DEF MadeWell, Made
<1>7. Dialed' BY <1>2, MatchLasts
<1>8. OpenIsRegistered' /\ ClosingAll'
  BY DEF HInv, OpenIsRegistered, ClosingAll, Made
<1> QED BY <1>1, <1>3, <1>4, <1>6, <1>7, <1>8 DEF HInv

\* What a Dial sends is a datagram that holds.
LEMMA RequestHolds ==
    ASSUME HInv, NEW c \in Callers
    PROVE  Request(c) \in Message /\ Holds(Request(c))
<1>1. caller[c] \in DialState /\ caller[c].start <= now /\ now \in Nat
  BY DEF HInv, Shape
<1>2. CASE caller[c].phase = "induction"
  BY <1>2, MessageMade DEF Request, Holds
<1>3. CASE caller[c].phase # "induction"
  <2>1. now - caller[c].start \in Nat BY <1>1 DEF DialState
  <2>2. Request(c) \in Conclusion
    BY <1>1, <1>3, <2>1, HandshakeAssumption DEF Request, Conclusion, DialState
  <2>3. Request(c) \in Message BY <2>2, MessageMade
  <2>4. Holds(Request(c)) BY <1>3 DEF Request, Holds
  <2> QED BY <2>3, <2>4
<1> QED BY <1>2, <1>3

LEMMA DialStep ==
    ASSUME HInv, NEW c \in Callers,
           Dial(c) \/ CallerSend(c) \/ DialTimeout(c) \/ ContextDone(c) \/ SocketFails(c)
           \/ CallerRetry(c) \/ CallerRejected(c) \/ CallerInduced(c)
    PROVE  HInv'
<1>0. /\ caller[c] \in DialState /\ caller[c].start <= now /\ now \in Nat
      /\ caller \in [Callers -> DialState]
      /\ caller[c].error \in Refusals => ~Welcome(c)
  BY DEF HInv, Shape, Dialed
<1>1. CASE Dial(c)
  <2> DEFINE d == [caller[c] EXCEPT !.pc = "send", !.start = now]
  <2>1. caller' = [caller EXCEPT ![c] = d] BY <1>0, <1>1 DEF Dial
  <2>2. d \in DialState BY <1>0 DEF DialState
  <2>3. d.pass = caller[c].pass /\ d.start = now /\ d.pc = "send" /\ d.error = caller[c].error
    BY <1>0 DEF DialState
  <2>4. d.start <= now BY <1>0, <2>3
  <2> HIDE DEF d
  <2> QED BY <1>0, <1>1, <2>1, <2>2, <2>3, <2>4, DialMoves DEF Dial
<1>2. CASE CallerSend(c)
  <2> DEFINE d == [caller[c] EXCEPT !.pc = "wait"]
  <2>1. caller' = [caller EXCEPT ![c] = d] BY <1>0, <1>2 DEF CallerSend, Go
  <2>2. d \in DialState /\ d.pass = caller[c].pass /\ d.start <= now /\ d.pc # "connected"
        /\ d.error = caller[c].error
    BY <1>0 DEF DialState
  <2> HIDE DEF d
  <2>3. net' = net \cup {Request(c)} BY <1>2 DEF CallerSend
  <2>4. \A m \in net' : m \in net \/ (m \in Message /\ Holds(m))
    BY <2>3, RequestHolds
  <2> QED BY <1>0, <1>2, <2>1, <2>2, <2>3, <2>4, DialMoves DEF CallerSend
<1>3. ASSUME NEW why \in Errors, why \in Refusals => ~Welcome(c), Fail(c, why),
             caller[c].pc # "connected", UNCHANGED <<now, net, conn, listenerVars>>
      PROVE  HInv'
  <2> DEFINE d == [caller[c] EXCEPT !.pc = "failed", !.error = why]
  <2>1. caller' = [caller EXCEPT ![c] = d] BY <1>0, <1>3 DEF Fail
  <2>2. d \in DialState /\ d.pass = caller[c].pass /\ d.start <= now /\ d.pc # "connected"
        /\ d.error = why
    BY <1>0 DEF DialState
  <2> HIDE DEF d
  <2> QED BY <1>0, <1>3, <2>1, <2>2, DialMoves
<1>4. CASE DialTimeout(c) BY <1>3, <1>4 DEF DialTimeout, Errors, Refusals, Reasons
<1>5. CASE ContextDone(c) BY <1>3, <1>5 DEF ContextDone, Errors, Refusals, Reasons
<1>6. CASE SocketFails(c) BY <1>3, <1>6 DEF SocketFails, Errors, Refusals, Reasons
<1>7. CASE CallerRetry(c)
  <2> DEFINE d == [caller[c] EXCEPT !.pc = "send"]
  <2>1. caller' = [caller EXCEPT ![c] = d] BY <1>0, <1>7 DEF CallerRetry, Go
  <2>2. d \in DialState /\ d.pass = caller[c].pass /\ d.start <= now /\ d.pc # "connected"
        /\ d.error = caller[c].error
    BY <1>0 DEF DialState
  <2> HIDE DEF d
  <2> QED BY <1>0, <1>7, <2>1, <2>2, DialMoves DEF CallerRetry
<1>8. CASE CallerRejected(c)
  <2>1. PICK m \in net : m.type = "reject" /\ m.caller = c /\ Fail(c, m.reason)
    BY <1>8 DEF CallerRejected
  <2>2. m \in Message /\ Holds(m) BY DEF HInv, Shape, Sent
  <2>3. m.reason \in Errors BY <2>1, <2>2, MessageKinds DEF Errors
  <2>4. m.reason \in Refusals => ~Welcome(c) BY <2>1, <2>2 DEF Holds
  <2> QED BY <1>3, <1>8, <2>1, <2>3, <2>4 DEF CallerRejected
<1>9. CASE CallerInduced(c)
  <2>1. PICK m \in net :
          /\ m.type = "inductionResp" /\ m.caller = c
          /\ caller' = [caller EXCEPT ![c].pc = "send", ![c].phase = "conclusion",
                                      ![c].cookie = m.cookie]
    BY <1>9 DEF CallerInduced
  <2>2. m.cookie \in Nat BY <2>1, MessageKinds DEF HInv, Shape
  <2> DEFINE d == [caller[c] EXCEPT !.pc = "send", !.phase = "conclusion", !.cookie = m.cookie]
  <2>3. caller' = [caller EXCEPT ![c] = d] BY <1>0, <2>1
  <2>4. d \in DialState /\ d.pass = caller[c].pass /\ d.start <= now /\ d.pc # "connected"
        /\ d.error = caller[c].error
    BY <1>0, <2>2 DEF DialState
  <2> HIDE DEF d
  <2> QED BY <1>0, <1>9, <2>3, <2>4, DialMoves DEF CallerInduced
<1> QED BY <1>1, <1>2, <1>4, <1>5, <1>6, <1>7, <1>8, <1>9

\* The conclusion answer: the caller's Conn is given what the answer says of
\* the listener's, and a caller the listener welcomed finds its key in it.
LEMMA ConcludedStep ==
    ASSUME HInv, NEW c \in Callers, CallerConcluded(c)
    PROVE  HInv'
<1> USE DEF listenerVars
<1>1. PICK m \in net :
          /\ m.type = "response" /\ m.caller = c
          /\ IF caller[c].pass # NoPass /\ m.km = NoPass
             THEN Fail(c, "badsecret") /\ UNCHANGED conn
             ELSE /\ Go(c, "connected")
                  /\ conn' = [conn EXCEPT ![c] = callerParams(c, m)]
  BY DEF CallerConcluded
<1>2. m \in Answer /\ Holds(m) BY <1>1, MessageKinds DEF HInv, Shape, Sent
<1> DEFINE cn == made[m.conn]
<1>3. m.conn \in Made /\ Describes(m, cn) BY <1>1, <1>2 DEF Holds
<1>4. cn \in ListenerConn BY <1>3, MadeTypes DEF HInv
<1>5. MadeFor(cn) BY <1>3 DEF HInv, MadeWell
<1>6. cn.caller = c /\ m.km = caller[c].pass
  BY <1>1, <1>3, <1>5 DEF Describes, MadeFor
<1>7. Go(c, "connected") /\ conn' = [conn EXCEPT ![c] = callerParams(c, m)]
  BY <1>1, <1>6
<1>8. caller \in [Callers -> DialState] /\ UNCHANGED <<now, net, listenerVars>>
      /\ conn \in [Callers -> DialConn \cup {NoConn}]
  BY DEF HInv, Shape, CallerConcluded
<1> DEFINE d == [caller[c] EXCEPT !.pc = "connected"]
<1>9. d \in DialState /\ d.pass = caller[c].pass /\ d.start = caller[c].start
      /\ d.error = caller[c].error /\ d.pc = "connected"
  BY <1>8 DEF DialState
<1>10. caller' = [caller EXCEPT ![c] = d] BY <1>7, <1>8 DEF Go
<1> HIDE DEF d
<1>11. caller'[c] = d /\ \A e \in Callers : e # c => caller'[e] = caller[e]
  BY <1>8, <1>10
<1>12. m.sendDelay = maxOf(ListenLatency, Latency[c]) /\ m.recvDelay = maxOf(ListenLatency, Latency[c])
  BY <1>3, <1>5, <1>6 DEF Describes, MadeFor
<1>13. maxOf(Latency[c], m.sendDelay) = m.sendDelay /\ maxOf(Latency[c], m.recvDelay) = m.recvDelay
  <2>1. Latency[c] \in Nat /\ ListenLatency \in Nat BY HandshakeAssumption
  <2> QED BY <1>12, <2>1 DEF maxOf
<1>14. callerParams(c, m) \in DialConn
  <2>1. caller[c].pass \in Keys BY <1>8 DEF DialState
  <2> QED BY <1>2, <1>13, <2>1 DEF callerParams, Answer, DialConn
<1>15. Shape'
  <2>1. caller' \in [Callers -> DialState] BY <1>8, <1>9, <1>10
  <2>2. \A e \in Callers : caller'[e].start <= now BY <1>9, <1>11 DEF HInv, Shape
  <2>3. conn' \in [Callers -> DialConn \cup {NoConn}] BY <1>7, <1>8, <1>14
  <2> QED BY <1>8, <2>1, <2>2, <2>3 DEF HInv, Shape
<1>16. Grows
  <2>1. \A e \in Callers : caller'[e].pass = caller[e].pass BY <1>9, <1>11
  <2> QED BY <1>8, <2>1 DEF HInv, Shape, Grows, SameConn
<1>17. InRange' BY <1>8 DEF HInv, InRange, Made
<1>18. Sent'
  <2> SUFFICES ASSUME NEW n \in net PROVE Holds(n)'
    BY <1>8 DEF Sent
  <2> QED BY <1>16, HoldsLasts DEF HInv, Shape, Sent
<1>19. Deciding' BY <1>8 DEF HInv, Deciding
<1>20. MadeWell' BY <1>8, <1>16, MadeForLasts DEF MadeWell, Made
<1>21. Dialed'
  <2>1. \A e \in Callers : Welcome(e)' = Welcome(e) BY <1>16 DEF Welcome, Grows
  <2>2. conn'[c] = callerParams(c, m) /\ \A e \in Callers : e # c => conn'[e] = conn[e]
    BY <1>7, <1>8
  <2>3. /\ conn'[c].peer = m.conn /\ conn'[c].peerSock = m.sock /\ conn'[c].isn = m.isn
        /\ conn'[c].key = m.km /\ conn'[c].rcvLatency = m.sendDelay
        /\ conn'[c].sndLatency = m.recvDelay
    BY <2>2, <1>6, <1>13 DEF callerParams
  <2> SUFFICES ASSUME NEW e \in Callers
               PROVE (/\ caller[e].pc # "connected" => conn[e] = NoConn
                      /\ caller[e].pc = "connected" =>
                            LET k == conn[e].peer IN
                            /\ k \in Made
                            /\ made[k].caller = e /\ conn[e].peerSock = made[k].sock
                            /\ conn[e].isn = made[k].isn /\ conn[e].key = made[k].key
                            /\ conn[e].rcvLatency = made[k].sndLatency
                            /\ conn[e].sndLatency = made[k].rcvLatency
                      /\ caller[e].error \in Refusals => ~Welcome(e))'
    BY DEF Dialed
  <2>4. CASE e = c
    BY <1>3, <1>6, <1>8, <1>9, <1>11, <2>1, <2>3, <2>4 DEF HInv, Dialed, Describes, Made
  <2>5. CASE e # c BY <1>8, <1>11, <2>1, <2>2, <2>5 DEF HInv, Dialed, Made
  <2> QED BY <2>4, <2>5
<1>22. OpenIsRegistered' /\ ClosingAll'
  BY <1>8 DEF HInv, OpenIsRegistered, ClosingAll, Made
<1> QED BY <1>15, <1>17, <1>18, <1>19, <1>20, <1>21, <1>22 DEF HInv

\* A request is refused exactly when its caller is not welcome.
LEMMA RefusalSound ==
    ASSUME HInv, lpc.pc = "decide"
    PROVE  /\ lpc.req \in Conclusion /\ Holds(lpc.req) /\ byCaller[lpc.req.caller] = 0
           /\ Refusal(lpc.req) = "none" => Welcome(lpc.req.caller)
           /\ Refusal(lpc.req) # "none" => /\ Refusal(lpc.req) \in Refusals
                                           /\ ~Welcome(lpc.req.caller)
<1> DEFINE m == lpc.req
<1>1. m \in net /\ m.type = "conclusion" /\ byCaller[m.caller] = 0 BY DEF HInv, Deciding
<1>2. m \in Conclusion /\ Holds(m) BY <1>1, MessageKinds DEF HInv, Shape, Sent
<1>3. m.caller \in Callers /\ m.km = caller[m.caller].pass BY <1>1, <1>2 DEF Conclusion, Holds
<1>4. Verdict[m.caller] \in {"ok"} \cup Reasons BY <1>3, HandshakeAssumption
<1> HIDE DEF m
<1>5. Refusal(m) = "none" => Welcome(m.caller)
  BY <1>3, <1>4 DEF Refusal, Welcome, Reasons
<1>6. Refusal(m) # "none" => Refusal(m) \in Refusals /\ ~Welcome(m.caller)
  BY <1>3, <1>4 DEF Refusal, Welcome, Reasons, Refusals
<1> QED BY <1>1, <1>2, <1>5, <1>6 DEF m

\* reject tells a caller it is not welcome only when it is not.
LEMMA RejectHolds ==
    ASSUME HInv, lpc.pc = "decide", NEW why \in Refusals \cup {"resource"},
           why \in Refusals => ~Welcome(lpc.req.caller), Reject(lpc.req, why)
    PROVE  net \subseteq net' /\ \A m \in net' : m \in net \/ (m \in Message /\ Holds(m))
<1> DEFINE r == [type |-> "reject", caller |-> lpc.req.caller, reason |-> why]
<1>1. lpc.req.caller \in Callers BY RefusalSound DEF Conclusion
<1>2. r \in Message BY <1>1, MessageMade
<1>3. Holds(r) BY DEF Holds
<1> HIDE DEF r
<1>4. net' = net \/ net' = net \cup {r} BY DEF Reject, r
<1> QED BY <1>2, <1>3, <1>4

\* The answer a Conn was registered with describes it.
LEMMA ResponseHolds ==
    ASSUME HInv, NEW k \in Made
    PROVE  Response(k, made[k]) \in Message /\ Holds(Response(k, made[k]))
<1>1. made[k] \in ListenerConn /\ k \in Nat BY MadeTypes DEF HInv
<1>2. now \in Nat BY DEF HInv, Shape
<1>3. Response(k, made[k]) \in Answer BY <1>1, <1>2 DEF Response, ListenerConn, Answer
<1>4. Response(k, made[k]) \in Message BY <1>3, MessageMade
<1>5. Holds(Response(k, made[k])) BY DEF Response, Holds, Describes
<1> QED BY <1>4, <1>5

LEMMA LoopStep ==
    ASSUME HInv, HandleInduction \/ ConclusionAgain \/ ConclusionNew \/ ConclusionRefused
                 \/ ConclusionLate \/ ConclusionFull
    PROVE  HInv'
<1>1. CASE HandleInduction
  <2>1. PICK q \in net : /\ q.type = "induction"
                         /\ net' = net \cup {[type |-> "inductionResp", caller |-> q.caller,
                                              cookie |-> minute]}
    BY <1>1 DEF HandleInduction
  <2> DEFINE r == [type |-> "inductionResp", caller |-> q.caller, cookie |-> minute]
  <2>2. q.caller \in Callers BY MessageKinds DEF HInv, Shape
  <2>3. minute \in Nat
    <3>1. now \in Nat /\ MinuteLen \in Nat /\ MinuteLen > 0 BY HandshakeAssumption DEF HInv, Shape
    <3> QED BY <3>1 DEF minute
  <2>4. r \in Message /\ Holds(r) BY <2>2, <2>3, MessageMade DEF Holds
  <2> HIDE DEF r
  <2>5. net \subseteq net' /\ \A m \in net' : m \in net \/ (m \in Message /\ Holds(m))
    BY <2>1, <2>4 DEF r
  <2>6. Deciding' /\ lpc'.pc \in {"read", "decide"}
    BY <1>1, <2>5 DEF HandleInduction, listenerVars, HInv, Deciding, Shape
  <2> QED BY <1>1, <2>5, <2>6, LoopAnswers DEF HandleInduction, listenerVars
<1>2. CASE ConclusionAgain
  <2>1. PICK q \in net : /\ q.type = "conclusion" /\ byCaller[q.caller] # 0
                         /\ net' = net \cup {Response(byCaller[q.caller], made[byCaller[q.caller]])}
    BY <1>2 DEF ConclusionAgain
  <2>2. q.caller \in Callers BY MessageKinds DEF HInv, Shape
  <2>3. byCaller[q.caller] \in Made
    <3>1. byCaller[q.caller] \in Nat /\ byCaller[q.caller] <= Len(made) /\ Len(made) \in Nat
      BY <2>2 DEF HInv, Shape, InRange
    <3> QED BY <2>1, <3>1 DEF Made
  <2>4. net \subseteq net' /\ \A m \in net' : m \in net \/ (m \in Message /\ Holds(m))
    BY <2>1, <2>3, ResponseHolds
  <2>5. Deciding' /\ lpc'.pc \in {"read", "decide"}
    BY <1>2, <2>4 DEF ConclusionAgain, listenerVars, HInv, Deciding, Shape
  <2> QED BY <1>2, <2>4, <2>5, LoopAnswers DEF ConclusionAgain, listenerVars
<1>3. CASE ConclusionNew
  <2>1. PICK q \in net : /\ q.type = "conclusion" /\ byCaller[q.caller] = 0
                         /\ lpc' = [pc |-> "decide", req |-> q]
    BY <1>3 DEF ConclusionNew
  <2>2. Deciding' /\ lpc'.pc \in {"read", "decide"}
    BY <1>3, <2>1 DEF ConclusionNew, Deciding
  <2> QED BY <1>3, <2>2, LoopAnswers DEF ConclusionNew
<1>4. ASSUME lpc.pc = "decide", lpc' = [pc |-> "read"],
             UNCHANGED <<now, callerVars, made, conns, byCaller, accept, lclosed, closing, udpClosed>>,
             net \subseteq net', \A m \in net' : m \in net \/ (m \in Message /\ Holds(m))
      PROVE  HInv'
  <2>1. Deciding' /\ lpc'.pc \in {"read", "decide"} BY <1>4 DEF Deciding
  <2> QED BY <1>4, <2>1, LoopAnswers
<1>5. CASE ConclusionRefused
  <2>1. Refusal(lpc.req) \in Refusals /\ ~Welcome(lpc.req.caller)
    BY <1>5, RefusalSound DEF ConclusionRefused
  <2>2. net \subseteq net' /\ \A m \in net' : m \in net \/ (m \in Message /\ Holds(m))
    BY <1>5, <2>1, RejectHolds DEF ConclusionRefused
  <2> QED BY <1>4, <1>5, <2>2 DEF ConclusionRefused
<1>6. CASE ConclusionLate BY <1>4, <1>6 DEF ConclusionLate
<1>7. CASE ConclusionFull
  <2>1. net \subseteq net' /\ \A m \in net' : m \in net \/ (m \in Message /\ Holds(m))
    BY <1>7, RejectHolds DEF ConclusionFull, Refusals, Reasons
  <2> QED BY <1>4, <1>7, <2>1 DEF ConclusionFull
<1> QED BY <1>1, <1>2, <1>3, <1>5, <1>6, <1>7

\* conclusion registers a Conn: neither the socket id it drew nor the caller
\* had one, so nobody's entry in the maps is overwritten.
LEMMA DoneStep ==
    ASSUME HInv, ConclusionDone
    PROVE  HInv'
<1> DEFINE q == lpc.req
           k == Len(made) + 1
<1>1. PICK s \in Socks :
          /\ conns[s] = 0
          /\ made' = Append(made, listenerConn(q, s))
          /\ conns' = [conns EXCEPT ![s] = k]
          /\ byCaller' = [byCaller EXCEPT ![q.caller] = k]
          /\ net' = net \cup {Response(k, listenerConn(q, s))}
          /\ accept' = Append(accept, k)
  BY DEF ConclusionDone, FreeSocks, listenerConn
<1> DEFINE cn == listenerConn(q, s)
<1>2. /\ lpc.pc = "decide" /\ Refusal(q) = "none" /\ ~lclosed /\ ~BacklogFull
      /\ lpc' = [pc |-> "read"] /\ UNCHANGED <<now, callerVars, lclosed, closing, udpClosed>>
  BY DEF ConclusionDone, MayRegister
<1>3. q \in Conclusion /\ Holds(q) /\ byCaller[q.caller] = 0 /\ Welcome(q.caller)
  BY <1>2, RefusalSound
<1>4. /\ q.caller \in Callers /\ q.km \in Keys /\ q.km = caller[q.caller].pass
      /\ q.recvDelay = Latency[q.caller] /\ q.sendDelay = Latency[q.caller]
  BY <1>3 DEF Conclusion, Holds
<1>5. Latency[q.caller] \in Nat /\ ListenLatency \in Nat BY <1>4, HandshakeAssumption
<1>6. /\ now \in Nat /\ made \in Seq(ListenerConn) /\ Len(made) \in Nat /\ k \in Nat
      /\ conns \in [Socks -> Nat] /\ byCaller \in [Callers -> Nat] /\ accept \in Seq(Nat)
  BY DEF HInv, Shape
<1>7. /\ cn.caller = q.caller /\ cn.sock = s /\ cn.st = "open" /\ cn.key = q.km
      /\ cn.rcvLatency = maxOf(ListenLatency, Latency[q.caller])
      /\ cn.sndLatency = maxOf(ListenLatency, Latency[q.caller])
  BY <1>4 DEF listenerConn
<1>8. cn \in ListenerConn
  <2>1. maxOf(ListenLatency, Latency[q.caller]) \in Nat BY <1>5 DEF maxOf
  <2> QED BY <1>1, <1>4, <1>6, <2>1 DEF listenerConn, ListenerConn
<1> HIDE DEF cn, q
<1>9. /\ made' \in Seq(ListenerConn) /\ Len(made') = k /\ made'[k] = cn
      /\ \A n \in Made : made'[n] = made[n]
  BY <1>1, <1>6, <1>8 DEF cn, Made
<1>10. Made' = Made \cup {k} /\ Made = 1..Len(made) BY <1>6, <1>9 DEF Made
<1>11. Grows
  <2>1. Len(made) <= Len(made') BY <1>6, <1>9
  <2> QED BY <1>2, <1>9, <2>1 DEF Grows, SameConn, callerVars
<1>12. Shape'
  <2>1. conns' \in [Socks -> Nat] /\ byCaller' \in [Callers -> Nat] /\ accept' \in Seq(Nat)
    <3>1. conns' \in [Socks -> Nat] BY <1>1, <1>6
    <3>2. byCaller' \in [Callers -> Nat] BY <1>1, <1>6
    <3>3. accept' \in Seq(Nat) BY <1>1, <1>6
    <3> QED BY <3>1, <3>2, <3>3
  <2>2. Response(k, cn) \in Message
    <3>1. Response(k, cn) \in Answer BY <1>6, <1>8 DEF Response, ListenerConn, Answer
    <3> QED BY <3>1, MessageMade
  <2>3. net' \subseteq Message BY <1>1, <2>2 DEF HInv, Shape, cn
  <2> QED BY <1>2, <1>9, <2>1, <2>3 DEF HInv, Shape, callerVars
<1>13. InRange'
  <2>1. (\A t \in Socks : conns[t] <= Len(made))' BY <1>1, <1>6, <1>9 DEF HInv, InRange
  <2>2. (\A c \in Callers : byCaller[c] <= Len(made))' BY <1>1, <1>6, <1>9 DEF HInv, InRange
  <2>3. Len(accept') = Len(accept) + 1 /\ Len(accept) \in Nat BY <1>1, <1>6
  <2>4. Len(accept') <= Backlog
    BY <1>2, <2>3, HandshakeAssumption DEF HInv, InRange, BacklogFull
  <2>5. \A i \in 1..Len(accept') : accept'[i] \in Made'
    BY <1>1, <1>6, <1>10, <2>3 DEF HInv, InRange
  <2> QED BY <1>2, <1>10, <2>1, <2>2, <2>4, <2>5 DEF HInv, InRange
<1>14. Sent'
  <2>1. ASSUME NEW m \in net PROVE Holds(m)'
    BY <1>11, HoldsLasts DEF HInv, Shape, Sent
  <2>2. PICK r : r = Response(k, cn) OBVIOUS
  <2>3. r.type = "response" /\ r.conn = k /\ Describes(r, cn) BY <2>2 DEF Response, Describes
  <2>4. r.conn \in Made' /\ Describes(r, made'[r.conn]) BY <1>9, <1>10, <2>3
  <2>5. Holds(r)'
    <3>1. r.type # "conclusion" /\ r.type # "reject" BY <2>3
    <3>2. (r.conn \in Made /\ Describes(r, made[r.conn]))' BY <2>4
    <3> QED BY <3>1, <3>2 DEF Holds
  <2>6. net' = net \cup {r} BY <1>1, <2>2 DEF cn
  <2> QED BY <2>1, <2>5, <2>6 DEF Sent
<1>15. Deciding' BY <1>2 DEF Deciding
<1>16. MadeWell'
  <2> SUFFICES ASSUME NEW n \in Made' PROVE MadeFor(made[n])'
    BY DEF MadeWell
  <2>1. CASE n \in Made BY <1>11, <2>1, MadeForLasts
  <2>2. CASE n = k
    <3>1. made'[n] = cn BY <1>9, <2>2
    <3>2. UNCHANGED caller BY <1>2 DEF callerVars
    <3> QED BY <1>3, <1>4, <1>7, <3>1, <3>2 DEF MadeFor, Welcome
  <2> QED BY <1>10, <2>1, <2>2
<1>17. Dialed' BY <1>2, <1>11, MatchLasts DEF callerVars
<1>18. OpenIsRegistered'
  <2> SUFFICES ASSUME NEW n \in Made', made'[n].st # "removed"
               PROVE  conns'[made'[n].sock] = n /\ byCaller'[made'[n].caller] = n
    BY DEF OpenIsRegistered, Made
  <2>1. CASE n = k BY <1>1, <1>4, <1>6, <1>7, <1>9, <2>1
  <2>2. CASE n \in Made
    <3>1. made'[n] = made[n] /\ n # 0 /\ made[n] \in ListenerConn
      BY <1>9, <2>2, MadeTypes DEF HInv
    <3>2. conns[made[n].sock] = n /\ byCaller[made[n].caller] = n
      BY <2>2, <3>1 DEF HInv, OpenIsRegistered, Made
    <3>3. made[n].sock # s /\ made[n].caller # q.caller BY <1>1, <1>3, <3>1, <3>2
    <3> QED BY <1>1, <1>6, <3>1, <3>2, <3>3 DEF ListenerConn
  <2> QED BY <1>10, <2>1, <2>2
<1>19. ClosingAll' BY <1>2 DEF HInv, ClosingAll
<1> QED BY <1>12, <1>13, <1>14, <1>15, <1>16, <1>17, <1>18, <1>19 DEF HInv

\* A step that only moves one Conn on in its life.
LEMMA ConnMoves ==
    ASSUME HInv, NEW k \in Made, NEW st \in {"open", "closed", "removed"},
           made' = [made EXCEPT ![k].st = st], UNCHANGED <<now, net, callerVars, lpc>>
    PROVE  /\ made' \in Seq(ListenerConn) /\ Made' = Made /\ Len(made') = Len(made) /\ Grows
           /\ \A n \in Made : made'[n].st = IF n = k THEN st ELSE made[n].st
           /\ Sent' /\ MadeWell' /\ Dialed'
<1> USE DEF callerVars
<1>1. made \in Seq(ListenerConn) /\ Len(made) \in Nat /\ made[k] \in ListenerConn
  BY MadeTypes DEF HInv, Shape
<1> DEFINE cn == [made[k] EXCEPT !.st = st]
<1>2. cn \in ListenerConn /\ cn.st = st /\ SameConn(cn, made[k])
  BY <1>1 DEF ListenerConn, SameConn
<1>3. made' = [made EXCEPT ![k] = cn] BY <1>1
<1> HIDE DEF cn
<1>4. /\ made' \in Seq(ListenerConn) /\ Len(made') = Len(made)
      /\ \A n \in Made : made'[n] = IF n = k THEN cn ELSE made[n]
  BY <1>1, <1>2, <1>3 DEF Made
<1>5. Made' = Made BY <1>4 DEF Made
<1>6. \A n \in Made : made'[n].st = IF n = k THEN st ELSE made[n].st BY <1>2, <1>4
<1>7. Grows BY <1>1, <1>2, <1>4 DEF Grows, SameConn
<1>8. Sent'
  <2> SUFFICES ASSUME NEW m \in net PROVE Holds(m)'
    BY DEF Sent
  <2> QED BY <1>7, HoldsLasts DEF HInv, Shape, Sent
<1>9. MadeWell'
  <2> SUFFICES ASSUME NEW n \in Made PROVE MadeFor(made[n])'
    BY <1>5 DEF MadeWell
  <2>1. SameConn(made'[n], made[n]) BY <1>7 DEF Grows
  <2>2. MadeFor(made[n]) BY DEF HInv, MadeWell
  <2> QED BY <2>1, <2>2 DEF MadeFor, SameConn, Welcome
<1>10. Dialed' BY <1>7, MatchLasts
<1> QED BY <1>4, <1>5, <1>6, <1>7, <1>8, <1>9, <1>10

\* A Conn ends, by itself or because the listener closes it.
LEMMA EndStep ==
    ASSUME HInv, ConnEnd \/ ListenerCloseConn
    PROVE  HInv'
<1>1. PICK k \in Made : CloseConn(k) /\ (UNCHANGED closing \/ closing' = closing \ {k})
  BY DEF ConnEnd, ConnEnds, ListenerCloseConn, HInv, InRange, Made
<1>2. UNCHANGED <<now, net, callerVars, lpc, conns, byCaller, accept, lclosed, udpClosed>>
  BY DEF ConnEnd, ConnEnds, ListenerCloseConn
<1> DEFINE st == IF made[k].st = "open" THEN "closed" ELSE made[k].st
<1>3. made[k] \in ListenerConn BY MadeTypes DEF HInv
<1>4. st \in {"open", "closed", "removed"} /\ st # "open" /\ (st = "removed" <=> made[k].st = "removed")
  BY <1>3 DEF ListenerConn
<1>5. made' = [made EXCEPT ![k].st = st] BY <1>1 DEF CloseConn
<1> HIDE DEF st
<1>6. /\ made' \in Seq(ListenerConn) /\ Made' = Made /\ Len(made') = Len(made) /\ Grows
      /\ \A n \in Made : made'[n].st = IF n = k THEN st ELSE made[n].st
      /\ Sent' /\ MadeWell' /\ Dialed'
  BY <1>2, <1>4, <1>5, ConnMoves
<1>7. Shape' BY <1>2, <1>6 DEF HInv, Shape, callerVars
<1>8. InRange' BY <1>1, <1>2, <1>6 DEF HInv, InRange
<1>9. Deciding' BY <1>2 DEF HInv, Deciding
<1>10. OpenIsRegistered'
  <2> SUFFICES ASSUME NEW n \in Made, made'[n].st # "removed"
               PROVE  conns'[made'[n].sock] = n /\ byCaller'[made'[n].caller] = n
    BY <1>6 DEF OpenIsRegistered, Made
  <2>1. made[n].st # "removed" BY <1>4, <1>6
  <2>2. SameConn(made'[n], made[n]) BY <1>6 DEF Grows
  <2> QED BY <1>2, <2>1, <2>2 DEF HInv, OpenIsRegistered, SameConn, Made
<1>11. ClosingAll'
  <2>1. ASSUME lclosed, NEW n \in Made, made'[n].st = "open" PROVE n \in closing'
    <3>1. n # k /\ made[n].st = "open" BY <1>4, <1>6, <2>1
    <3> QED BY <1>1, <2>1, <3>1 DEF HInv, ClosingAll
  <2>2. udpClosed => lclosed /\ closing' = {} BY <1>1 DEF HInv, ClosingAll
  <2> QED BY <1>2, <1>6, <2>1, <2>2 DEF ClosingAll
<1> QED BY <1>6, <1>7, <1>8, <1>9, <1>10, <1>11 DEF HInv

\* The onClose callback clears the entries of its own Conn and of no other:
\* as long as it has not run they are still its own.
LEMMA OnCloseStep ==
    ASSUME HInv, OnClose
    PROVE  HInv'
<1>1. PICK k \in Made : /\ made[k].st = "closed"
                        /\ made' = [made EXCEPT ![k].st = "removed"]
                        /\ conns' = [conns EXCEPT ![made[k].sock] = 0]
                        /\ byCaller' = [byCaller EXCEPT ![made[k].caller] = 0]
  BY DEF OnClose, Made
<1>2. UNCHANGED <<now, net, callerVars, lpc, accept, lclosed, closing, udpClosed>>
  BY DEF OnClose
<1>3. /\ made' \in Seq(ListenerConn) /\ Made' = Made /\ Len(made') = Len(made) /\ Grows
      /\ \A n \in Made : made'[n].st = IF n = k THEN "removed" ELSE made[n].st
      /\ Sent' /\ MadeWell' /\ Dialed'
  BY <1>1, <1>2, ConnMoves
<1>4. conns \in [Socks -> Nat] /\ byCaller \in [Callers -> Nat] BY DEF HInv, Shape
<1>5. /\ conns' \in [Socks -> Nat] /\ \A s \in Socks : conns'[s] = conns[s] \/ conns'[s] = 0
      /\ byCaller' \in [Callers -> Nat]
      /\ \A c \in Callers : byCaller'[c] = byCaller[c] \/ byCaller'[c] = 0
  BY <1>1, <1>4
<1>6. Shape' BY <1>2, <1>3, <1>5 DEF HInv, Shape, callerVars
<1>7. InRange'
  <2>1. Len(made) \in Nat BY DEF HInv, Shape
  <2> QED BY <1>2, <1>3, <1>5, <2>1 DEF HInv, InRange
<1>8. Deciding'
  <2> SUFFICES ASSUME lpc.pc = "decide" PROVE byCaller'[lpc.req.caller] = 0
    BY <1>2 DEF HInv, Deciding
  <2>1. lpc.req.caller \in Callers BY RefusalSound DEF Conclusion
  <2> QED BY <1>5, <2>1 DEF HInv, Deciding
<1>9. OpenIsRegistered'
  <2> SUFFICES ASSUME NEW n \in Made, made'[n].st # "removed"
               PROVE  conns'[made'[n].sock] = n /\ byCaller'[made'[n].caller] = n
    BY <1>3 DEF OpenIsRegistered, Made
  <2>1. n # k /\ made[n].st # "removed" BY <1>3
  <2>2. SameConn(made'[n], made[n]) BY <1>3 DEF Grows
  <2>3. conns[made[n].sock] = n /\ byCaller[made[n].caller] = n
    BY <2>1 DEF HInv, OpenIsRegistered, Made
  <2>4. conns[made[k].sock] = k /\ byCaller[made[k].caller] = k
    BY <1>1 DEF HInv, OpenIsRegistered, Made
  <2>5. made[n] \in ListenerConn BY MadeTypes DEF HInv
  <2>6. made[n].sock # made[k].sock /\ made[n].caller # made[k].caller
        /\ made[n].sock \in Socks /\ made[n].caller \in Callers
    BY <2>1, <2>3, <2>4, <2>5 DEF ListenerConn
  <2> QED BY <1>1, <1>4, <2>2, <2>3, <2>6 DEF SameConn
<1>10. ClosingAll' BY <1>2, <1>3 DEF HInv, ClosingAll
<1> QED BY <1>3, <1>6, <1>7, <1>8, <1>9, <1>10 DEF HInv

\* Listener.Close takes every Conn that is open: each is under its socket id.
LEMMA CloseStep ==
    ASSUME HInv, ListenerClose
    PROVE  HInv'
<1>1. /\ ~lclosed /\ lclosed' = TRUE /\ closing' = {conns[s] : s \in Socks} \ {0}
      /\ UNCHANGED <<now, net, callerVars, lpc, made, conns, byCaller, accept, udpClosed>>
  BY DEF ListenerClose
<1>2. Shape' BY <1>1 DEF HInv, Shape, callerVars
<1>3. InRange'
  <2>1. \A s \in Socks : conns[s] \in Nat /\ conns[s] <= Len(made) BY DEF HInv, Shape, InRange
  <2>2. Len(made) \in Nat BY DEF HInv, Shape
  <2>3. closing' \subseteq Made BY <1>1, <2>1, <2>2 DEF Made
  <2> QED BY <1>1, <2>3 DEF HInv, InRange, Made
<1>4. Sent' BY <1>1 DEF HInv, Sent, Holds, Made, Welcome, callerVars
<1>5. Deciding' BY <1>1 DEF HInv, Deciding
<1>6. MadeWell' BY <1>1 DEF HInv, MadeWell, Made, MadeFor, Welcome, callerVars
<1>7. Dialed' BY <1>1 DEF HInv, Dialed, Made, Welcome, callerVars
<1>8. OpenIsRegistered' BY <1>1 DEF HInv, OpenIsRegistered
<1>9. ClosingAll'
  <2>1. ASSUME NEW n \in Made, made[n].st = "open" PROVE n \in closing'
    <3>1. made[n].sock \in Socks /\ n # 0 BY MadeTypes DEF HInv, ListenerConn
    <3>2. conns[made[n].sock] = n BY <2>1 DEF HInv, OpenIsRegistered, Made
    <3> QED BY <1>1, <3>1, <3>2
  <2>2. ~udpClosed BY <1>1 DEF HInv, ClosingAll
  <2> QED BY <1>1, <2>1, <2>2 DEF ClosingAll, Made
<1> QED BY <1>2, <1>3, <1>4, <1>5, <1>6, <1>7, <1>8, <1>9 DEF HInv

\* Steps that touch no Conn, no map and no datagram.
LEMMA OtherStep ==
    ASSUME HInv, Accept \/ ListenerCloseEnd \/ Tick
    PROVE  HInv'
<1>1. UNCHANGED <<net, callerVars, lpc, made, conns, byCaller, lclosed, closing>>
  BY DEF Accept, ListenerCloseEnd, Tick, listenerVars
<1>2. Sent' /\ Deciding' /\ MadeWell' /\ Dialed' /\ OpenIsRegistered'
  <2>1. Sent' BY <1>1 DEF HInv, Sent, Holds, Made, Welcome, callerVars
  <2>2. Deciding' BY <1>1 DEF HInv, Deciding
  <2>3. MadeWell' BY <1>1 DEF HInv, MadeWell, Made, MadeFor, Welcome, callerVars
  <2>4. Dialed' BY <1>1 DEF HInv, Dialed, Made, Welcome, callerVars
  <2>5. OpenIsRegistered' BY <1>1 DEF HInv, OpenIsRegistered
  <2> QED BY <2>1, <2>2, <2>3, <2>4, <2>5
<1>3. CASE Accept
  <2>1. /\ accept \in Seq(Nat) /\ accept # <<>> /\ accept' = Tail(accept)
        /\ UNCHANGED <<now, udpClosed>>
    BY <1>3 DEF HInv, Shape, Accept
  <2>2. /\ accept' \in Seq(Nat) /\ Len(accept') = Len(accept) - 1 /\ Len(accept) \in Nat
        /\ \A i \in 1..Len(accept') : accept'[i] = accept[i+1]
    BY <2>1
  <2>3. Shape' BY <1>1, <2>1, <2>2 DEF HInv, Shape, callerVars
  <2>4. InRange'
    <3>1. Len(accept') <= Backlog BY <2>2, HandshakeAssumption DEF HInv, InRange
    <3>2. \A i \in 1..Len(accept') : accept'[i] \in Made
      BY <2>2 DEF HInv, InRange
    <3> QED BY <1>1, <3>1, <3>2 DEF HInv, InRange, Made
  <2>5. ClosingAll' BY <1>1, <2>1 DEF HInv, ClosingAll, Made
  <2> QED BY <1>2, <2>3, <2>4, <2>5 DEF HInv
<1>4. CASE ListenerCloseEnd
  <2>1. Shape' /\ InRange' BY <1>1, <1>4 DEF ListenerCloseEnd, HInv, Shape, InRange, Made, callerVars
  <2>2. ClosingAll' BY <1>1, <1>4 DEF ListenerCloseEnd, HInv, ClosingAll, Made
  <2> QED BY <1>2, <2>1, <2>2 DEF HInv
<1>5. CASE Tick
  <2>1. now < MaxTime /\ now' = now + 1 /\ UNCHANGED listenerVars BY <1>5 DEF Tick
  <2>2. now' \in Nat /\ now' <= MaxTime /\ now <= now' /\ now \in Nat
    BY <2>1, HandshakeAssumption DEF HInv, Shape
  <2>3. \A c \in Callers : caller'[c].start <= now'
    <3> TAKE c \in Callers
    <3>1. caller[c].start \in Nat /\ caller[c].start <= now BY DEF HInv, Shape, DialState
    <3> QED BY <1>1, <2>2, <3>1 DEF callerVars
  <2>4. Shape' BY <1>1, <2>1, <2>2, <2>3 DEF HInv, Shape, callerVars, listenerVars
  <2>5. InRange' /\ ClosingAll'
    BY <1>1, <2>1 DEF listenerVars, HInv, InRange, ClosingAll, Made
  <2> QED BY <1>2, <2>4, <2>5 DEF HInv
<1> QED BY <1>3, <1>4, <1>5

LEMMA NextInv == HInv /\ [Next]_vars => HInv'
<1> SUFFICES ASSUME HInv, [Next]_vars PROVE HInv'
  OBVIOUS
<1>1. ASSUME NEW c \in Callers, CallerStep(c) PROVE HInv'
  BY <1>1, DialStep, ConcludedStep DEF CallerStep
<1>2. CASE HandleInduction \/ ConclusionAgain \/ ConclusionNew \/ ConclusionRefused
           \/ ConclusionLate \/ ConclusionFull
  BY <1>2, LoopStep
<1>3. CASE ConclusionDone BY <1>3, DoneStep
<1>4. CASE ConnEnd \/ ListenerCloseConn BY <1>4, EndStep
<1>5. CASE OnClose BY <1>5, OnCloseStep
<1>6. CASE ListenerClose BY <1>6, CloseStep
<1>7. CASE Accept \/ ListenerCloseEnd \/ Tick BY <1>7, OtherStep
<1>8. CASE UNCHANGED vars
  <2>1. UNCHANGED <<now, callerVars, made, conns, byCaller, accept, lclosed, closing, udpClosed>>
        /\ UNCHANGED <<net, lpc>>
    BY <1>8 DEF vars, callerVars
  <2>2. lpc'.pc \in {"read", "decide"} /\ Deciding' BY <2>1 DEF HInv, Shape, Deciding
  <2> QED BY <2>1, <2>2, LoopAnswers
<1> QED BY <1>1, <1>2, <1>3, <1>4, <1>5, <1>6, <1>7, <1>8 DEF Next

-----------------------------------------------------------------------------
(* The theorems.                                                           *)

\* The inductive invariant of the handshake (handshakeCaller, handshake,
\* conclusion, Listener.Close): what datagrams prove, what the maps hold and
\* what each end has been given.
THEOREM HandshakeInvariant == Spec => []HInv
<1> QED BY InitInv, NextInv, PTL DEF Spec

\* The fields have their types: the maps and accept hold Conns that exist,
\* timestamps are never negative, and conclusion's send on accept never blocks.
THEOREM TypesCorrect == Spec => []TypeOK
<1>1. HInv => TypeOK
  <2> SUFFICES ASSUME HInv PROVE TypeOK
    OBVIOUS
  <2>1. now \in 0..MaxTime BY HandshakeAssumption DEF HInv, Shape
  <2>2. net \subseteq Message BY DEF HInv, Shape
  <2>3. Len(made) \in Nat BY DEF HInv, Shape
  <2>4. ASSUME NEW c \in Callers
        PROVE  /\ caller[c].pc \in {"idle", "send", "wait", "connected", "failed"}
               /\ caller[c].phase \in {"induction", "conclusion"}
               /\ caller[c].start \in 0..now
               /\ conn[c].peer \in 0..Len(made)
               /\ byCaller[c] \in 0..Len(made)
    <3>1. caller[c] \in DialState /\ caller[c].start <= now /\ now \in Nat /\ byCaller[c] \in Nat
          /\ byCaller[c] <= Len(made)
      BY DEF HInv, Shape, InRange
    <3>2. conn[c].peer \in 0..Len(made)
      BY <2>3 DEF HInv, Dialed, Made, NoConn
    <3> QED BY <2>3, <3>1, <3>2 DEF DialState
  <2>5. lpc.pc \in {"read", "decide"} /\ lclosed \in BOOLEAN /\ udpClosed \in BOOLEAN
    BY DEF HInv, Shape
  <2>6. \A s \in Socks : conns[s] \in 0..Len(made)
    BY <2>3 DEF HInv, Shape, InRange
  <2>7. \A k \in 1..Len(made) : made[k].st \in {"open", "closed", "removed"}
    BY MadeTypes DEF HInv, ListenerConn, Made
  <2>8. Len(accept) <= Backlog /\ closing \subseteq 1..Len(made)
        /\ \A i \in 1..Len(accept) : accept[i] \in 1..Len(made)
    BY DEF HInv, InRange, Made
  <2> QED BY <2>1, <2>2, <2>4, <2>5, <2>6, <2>7, <2>8 DEF TypeOK
<1> QED BY <1>1, HandshakeInvariant, PTL

\* A Dial that returned a Conn and the Conn the listener made for it agree on
\* sequence number, key and latencies, whatever was lost, repeated or delayed;
\* a Dial that was refused left no Conn (handshakeCaller, conclusion).
THEOREM EndsAgree == Spec => []Agreement
<1>1. HInv => Agreement
  <2> SUFFICES ASSUME HInv, NEW c \in Callers
               PROVE  LET k == conn[c].peer IN
                      /\ caller[c].pc = "connected" =>
                            /\ made[k].caller = c
                            /\ conn[c].peerSock = made[k].sock
                            /\ conn[c].isn = made[k].isn
                            /\ conn[c].key = made[k].key
                            /\ conn[c].rcvLatency = made[k].sndLatency
                            /\ conn[c].sndLatency = made[k].rcvLatency
                            /\ Verdict[c] = "ok" /\ caller[c].pass = ListenPass
                      /\ caller[c].error \in Reasons \cup {"unsecure", "badsecret"} =>
                            \A n \in 1..Len(made) : made[n].caller # c
    BY DEF Agreement
  <2>1. ASSUME NEW n \in Made PROVE Welcome(made[n].caller)
    BY DEF HInv, MadeWell, MadeFor
  <2>2. caller[c].error \in Reasons \cup {"unsecure", "badsecret"} => ~Welcome(c)
    BY DEF HInv, Dialed, Refusals
  <2>3. caller[c].error \in Reasons \cup {"unsecure", "badsecret"} =>
            \A n \in 1..Len(made) : made[n].caller # c
    BY <2>1, <2>2 DEF Made
  <2>4. ASSUME caller[c].pc = "connected"
        PROVE  /\ conn[c].peer \in Made /\ made[conn[c].peer].caller = c
               /\ Verdict[c] = "ok" /\ caller[c].pass = ListenPass
    BY <2>1, <2>4 DEF HInv, Dialed, Welcome
  <2> QED BY <2>3, <2>4 DEF HInv, Dialed
<1> QED BY <1>1, HandshakeInvariant, PTL

\* Listener.conns and Listener.byCaller find every Conn whose onClose has not
\* run, so no caller has two open Conns.
THEOREM OpenRegistered == Spec => []OpenIsRegistered
<1>1. HInv => OpenIsRegistered BY DEF HInv
<1> QED BY <1>1, HandshakeInvariant, PTL

\* Once Listener.Close has returned, none of the Conns it ever made is open.
THEOREM CloseComplete == Spec => []CloseClosesAll
<1>1. HInv => CloseClosesAll BY DEF HInv, ClosingAll, CloseClosesAll, Made
<1> QED BY <1>1, HandshakeInvariant, PTL

=============================================================================
