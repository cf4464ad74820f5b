-------------------------------- MODULE SrtLink --------------------------------
(***************************************************************************)
(* One direction of an established SRT connection (go-srt/conn.go): the    *)
(* sending half of one Conn, the receiving half of the peer's Conn and the *)
(* UDP network between them.  The other direction is the same machine with *)
(* the roles exchanged; the two share no state but the close flags.  Every *)
(* action runs under Conn.mu, hence is atomic.                             *)
(*                                                                         *)
(* Time.  A packet is stamped when it gets its number, so ages order the   *)
(* packets as their numbers do.  Clock readings are abstracted to two      *)
(* horizons that only advance: packets below `due` have reached their play *)
(* time at the receiver, packets below `old` have been held longer than    *)
(* the hold limit at the sender.  A timer that may or may not have expired *)
(* is a choice of the tick that looks at it.                               *)
(*                                                                         *)
(* A payload is the number of the packet it was written in, counted from   *)
(* 0, which makes order and loss visible.                                  *)
(***************************************************************************)
EXTENDS SrtSeq, Sequences

CONSTANTS
    ISN,             \* initial sequence number both sides start from
    MaxWrites,       \* bound: packets written in a behaviour
    SndCap,          \* SendBufferSize, in packets
    MaxRecvWindow,   \* maxRecvWindow
    MaxLossPerNak,   \* maxLossPerNak
    MaxReadyQueue,   \* maxReadyQueue
    TailBurst,       \* packets resendTail sends at most
    DupNet,          \* TRUE: a packet in the network may arrive again and again
    MaxLost,         \* bound: packets the network loses
    AdequateLatency, \* TRUE: no packet comes due before it has arrived
    MayClose         \* TRUE: either side may close, and may fall silent

ASSUME LinkAssumption ==
    /\ ISN \in SeqNum
    /\ MaxWrites \in Nat /\ MaxWrites + 1 < SeqHalf
    /\ SndCap \in Nat \ {0}
    /\ MaxRecvWindow \in Nat /\ MaxRecvWindow <= MaxLossRange
    /\ MaxLossPerNak \in Nat \ {0}
    /\ MaxReadyQueue \in Nat /\ TailBurst \in Nat /\ MaxLost \in Nat
    /\ {DupNet, AdequateLatency, MayClose} \subseteq BOOLEAN

VARIABLES
    \* sending half
    nextSeq,    \* nextSeq
    written,    \* packets numbered so far (the payload of the next one)
    sndBuf,     \* sndBuf: <<[seq, pay], ...>>, oldest first
    sndState,   \* "open", "closing" (Close lingers), "closed" or "idle"
                \* (closed for the peer's silence)
    old,        \* hold horizon
    \* receiving half
    rcvNext,    \* rcvNext
    rcvMax,     \* rcvMax
    rcvBuf,     \* rcvBuf: number -> payload, or Skip
    loss,       \* the numbers in loss
    ready,      \* ready
    rcvState,   \* as sndState
    due,        \* play horizon
    \* network
    dataNet, ackNet, nakNet, dropNet, finNet, lost,
    \* history, never read by an action
    delivered,  \* payloads put on ready, in order
    gaveUp,     \* payloads skipped as too late (PacketsDropped)
    discarded,  \* payloads dropped from a full ready queue, or unread at Close
    sndDropped, \* payloads the sender let go for age (PacketsSendDropped)
    fin         \* how Close ended: "none", "clean" (all acknowledged), "cut"

sndVars  == <<nextSeq, written, sndBuf, sndState, old, sndDropped, fin>>
rcvVars  == <<rcvNext, rcvMax, rcvBuf, loss, ready, rcvState, due,
              delivered, gaveUp, discarded>>
netVars  == <<dataNet, ackNet, nakNet, dropNet, finNet, lost>>
vars     == <<sndVars, rcvVars, netVars>>

Skip == -1
Packet == [seq : SeqNum, pay : 0 .. (MaxWrites - 1)]
States == {"open", "closing", "closed", "idle"}

\* How many packets after the first one number s is; -1 for rcvMax at start.
Idx(s) == seqDiff(ISN, s)

\* The oldest packet the sender still holds, or the next one it will write.
SndBase == IF sndBuf = <<>> THEN written ELSE sndBuf[1].pay

\* A connection handles packets until it is closed, for whatever reason.
\* tick does not look at the close flag, and the run loop may take a tick
\* once more when the ticker and done are both ready; but after a silence
\* every tick returns before it does anything.
Alive(state) == state \in {"open", "closing"}
Ticks(state) == state # "idle"

Rest(net, m) == IF DupNet THEN net ELSE net \ {m}

\* The latency of the run is long enough: what is below hz has arrived.
InTime(hz) ==
    AdequateLatency => \A s \in SeqNum :
        0 <= Idx(s) /\ Idx(s) < hz => seqLess(s, rcvNext) \/ s \in DOMAIN rcvBuf

-------------------------------------------------------------------------------
(* newConn on both sides *)
Init ==
    /\ nextSeq = ISN /\ written = 0 /\ sndBuf = <<>> /\ sndState = "open" /\ old = 0
    /\ rcvNext = ISN /\ rcvMax = seqAdd(ISN, -1)
    /\ rcvBuf = [s \in {} |-> Skip] /\ loss = {}
    /\ ready = <<>> /\ rcvState = "open" /\ due = 0
    /\ dataNet = {} /\ ackNet = {} /\ nakNet = {} /\ dropNet = {} /\ finNet = {} /\ lost = 0
    /\ delivered = <<>> /\ gaveUp = {} /\ discarded = {} /\ sndDropped = {} /\ fin = "none"

-------------------------------------------------------------------------------
(* The sending half *)

\* Write, once it has room: the packet takes its number and a place in the
\* buffer whether or not the socket takes it.
sendFull == sndBuf # <<>> /\ Len(sndBuf) + 1 > SndCap

Write ==
    /\ sndState = "open"
    /\ written < MaxWrites
    /\ ~sendFull
    /\ LET p == [seq |-> nextSeq, pay |-> written] IN
       /\ sndBuf' = Append(sndBuf, p)
       /\ dataNet' \in {dataNet, dataNet \cup {p}}
    /\ nextSeq' = seqNext(nextSeq)
    /\ written' = written + 1
    /\ UNCHANGED <<sndState, old, sndDropped, fin, rcvVars, ackNet, nakNet, dropNet, finNet, lost>>

\* releaseSent: the n oldest packets leave the buffer.
releaseSent(n) == sndBuf' = SubSeq(sndBuf, n + 1, Len(sndBuf))

\* handleACK releases every packet at the front that is below the ACK.
HandleACK(a) ==
    /\ a \in ackNet
    /\ Alive(sndState)
    /\ \E n \in 0 .. Len(sndBuf) :
         /\ \A i \in 1 .. n : seqLess(sndBuf[i].seq, a)
         /\ n < Len(sndBuf) => ~seqLess(sndBuf[n + 1].seq, a)
         /\ releaseSent(n)
    /\ ackNet' = Rest(ackNet, a)
    /\ UNCHANGED <<nextSeq, written, sndState, old, sndDropped, fin, rcvVars,
                   dataNet, nakNet, dropNet, finNet, lost>>

\* handleNAK finds a number by its distance from the first packet held. It
\* resends what it holds (the socket may refuse some of it) and answers
\* with drop requests, run by run, for what it has let go.
Asked(r) == decodeLossList(r)
Gone(r) == {s \in Asked(r) : sndBuf = <<>> \/ seqDiff(sndBuf[1].seq, s) < 0}
Held(r) == {sndBuf[seqDiff(sndBuf[1].seq, s) + 1] :
              s \in {u \in Asked(r) \ Gone(r) : seqDiff(sndBuf[1].seq, u) < Len(sndBuf)}}

HandleNAK(r, again) ==
    /\ r \in nakNet
    /\ Alive(sndState)
    /\ again \subseteq Held(r)
    /\ dataNet' = dataNet \cup again
    /\ dropNet' = dropNet \cup encodeLossList(Gone(r))
    /\ nakNet' = Rest(nakNet, r)
    /\ UNCHANGED <<sndVars, rcvVars, ackNet, finNet, lost>>

\* The sending part of tick: dropOldSent, then resendTail.
Min2(a, b) == IF a <= b THEN a ELSE b

\* Mutant of SenderTick: the tail is never sent again.
SenderTickNoTail(hz, again) ==
    /\ Ticks(sndState)
    /\ hz \in old .. written
    /\ InTime(hz)
    /\ old' = hz
    /\ \E n \in 0 .. Len(sndBuf) :
         /\ \A i \in 1 .. n : sndBuf[i].pay < hz
         /\ n < Len(sndBuf) => sndBuf[n + 1].pay >= hz
         /\ releaseSent(n)
         /\ sndDropped' = sndDropped \cup {sndBuf[i].pay : i \in 1 .. n}
    /\ UNCHANGED <<nextSeq, written, sndState, fin, rcvVars, netVars>>

SenderTick(hz, again) ==
    /\ Ticks(sndState)
    /\ hz \in old .. written
    /\ InTime(hz)
    /\ old' = hz
    /\ \E n \in 0 .. Len(sndBuf) :
         /\ \A i \in 1 .. n : sndBuf[i].pay < hz
         /\ n < Len(sndBuf) => sndBuf[n + 1].pay >= hz
         /\ releaseSent(n)
         /\ sndDropped' = sndDropped \cup {sndBuf[i].pay : i \in 1 .. n}
         /\ again \subseteq {sndBuf[i] : i \in (n + 1) .. Min2(n + TailBurst, Len(sndBuf))}
    /\ dataNet' = dataNet \cup again
    /\ UNCHANGED <<nextSeq, written, sndState, fin, rcvVars, ackNet, nakNet, dropNet, finNet, lost>>

\* Close: no more writes; it lingers until the buffer is empty and quiet or
\* its time is up, then tells the peer.
SenderClose ==
    /\ MayClose
    /\ sndState = "open"
    /\ sndState' = "closing"
    /\ UNCHANGED <<nextSeq, written, sndBuf, old, sndDropped, fin, rcvVars, netVars>>

SenderCloseEnds ==
    /\ sndState = "closing"
    /\ sndState' = "closed"
    /\ fin' = IF sndBuf = <<>> THEN "clean" ELSE "cut"
    /\ finNet' = finNet \cup {"toReceiver"}
    /\ UNCHANGED <<nextSeq, written, sndBuf, old, sndDropped, rcvVars,
                   dataNet, ackNet, nakNet, dropNet, lost>>

\* The peer's shutdown arrives, or PeerIdleTimeout passes in silence.
SenderShutdown ==
    /\ "toSender" \in finNet
    /\ Alive(sndState)
    /\ sndState' = "closed"
    /\ finNet' = Rest(finNet, "toSender")
    /\ UNCHANGED <<nextSeq, written, sndBuf, old, sndDropped, fin, rcvVars,
                   dataNet, ackNet, nakNet, dropNet, lost>>

SenderIdle ==
    /\ MayClose
    /\ Alive(sndState)
    /\ sndState' = "idle"
    /\ UNCHANGED <<nextSeq, written, sndBuf, old, sndDropped, fin, rcvVars, netVars>>

-------------------------------------------------------------------------------
(* The receiving half *)

\* deliver, on the buffer and losses it finds: from rcvNext on, packets go
\* in order as long as the next one there is (gaps are passed over) is a
\* skip mark or has come due. The gaps passed are given up. A packet that
\* finds ready full is dropped.
\* Mutant of Playable: the play time is not looked at.
PlayableAtOnce(buf, s, hz) == TRUE

Playable(buf, s, hz) == buf[s] = Skip \/ buf[s] < hz

Taken(buf, hz) ==
    {s \in DOMAIN buf : \A u \in DOMAIN buf :
        seqDiff(rcvNext, u) <= seqDiff(rcvNext, s) => Playable(buf, u, hz)}

\* The numbers from a up to b, b left out.
Span(a, b) == {s \in SeqNum : 0 <= seqDiff(a, s) /\ seqDiff(a, s) < seqDiff(a, b)}

Payloads(buf, S) == {buf[s] : s \in S} \ {Skip}

\* Payloads ps join ready in ascending order while there is room.
Enqueue(ps) ==
    \E batch \in [1 .. Cardinality(ps) -> ps] :
        LET room == MaxReadyQueue - Len(ready)
            n    == IF room < 0 THEN 0 ELSE Min2(room, Cardinality(ps))
        IN  /\ \A i, j \in 1 .. Cardinality(ps) : i < j => batch[i] < batch[j]
            /\ ready' = ready \o SubSeq(batch, 1, n)
            /\ delivered' = delivered \o SubSeq(batch, 1, n)
            /\ discarded' = discarded \cup {batch[i] : i \in (n + 1) .. Cardinality(ps)}

deliver(buf, los, hz) ==
    LET T == Taken(buf, hz) IN
    /\ \/ T = {} /\ rcvNext' = rcvNext
       \/ \E last \in T : /\ \A u \in T : seqDiff(u, last) >= 0
                          /\ rcvNext' = seqNext(last)
    /\ LET gap == Span(rcvNext, rcvNext') \ T IN
       /\ rcvBuf' = [s \in DOMAIN buf \ T |-> buf[s]]
       /\ loss' = los \ gap
       /\ gaveUp' = gaveUp \cup {Idx(s) : s \in gap}
    /\ Enqueue(Payloads(buf, T))

\* handleData: a packet before rcvNext, beyond the window or already there is
\* ignored; a packet past rcvMax reveals a gap, which is reported at once.
\* Mutant of Fits: a packet before rcvNext is let in.
FitsLate(m) ==
    /\ rcvState = "open"
    /\ seqDiff(rcvNext, m.seq) <= MaxRecvWindow
    /\ m.seq \notin DOMAIN rcvBuf

Fits(m) ==
    /\ rcvState = "open"
    /\ 0 <= seqDiff(rcvNext, m.seq) /\ seqDiff(rcvNext, m.seq) <= MaxRecvWindow
    /\ m.seq \notin DOMAIN rcvBuf

\* Mutant of Revealed: the gap is taken to start one number later.
RevealedLate(m) ==
    {s \in Span(seqNext(seqNext(rcvMax)), m.seq) :
        seqLess(rcvMax, m.seq) /\ seqDiff(rcvMax, s) <= MaxLossRange}

\* The losses m reveals, the nearest MaxLossRange of them at most.
Revealed(m) ==
    {s \in Span(seqNext(rcvMax), m.seq) :
        seqLess(rcvMax, m.seq) /\ seqDiff(rcvMax, s) <= MaxLossRange}

handleData(m) ==
    /\ m \in dataNet
    /\ Fits(m)
    /\ rcvMax' = IF seqLess(rcvMax, m.seq) THEN m.seq ELSE rcvMax
    /\ nakNet' = nakNet \cup nakPackets(Revealed(m), MaxLossPerNak)
    /\ \E hz \in due .. written :
         /\ InTime(hz)
         /\ due' = hz
         /\ deliver([s \in DOMAIN rcvBuf \cup {m.seq} |-> IF s = m.seq THEN m.pay ELSE rcvBuf[s]],
                    (loss \ {m.seq}) \cup Revealed(m), hz)
    /\ dataNet' = Rest(dataNet, m)
    /\ UNCHANGED <<sndVars, rcvState, ackNet, dropNet, finNet, lost>>

IgnoreData(m) ==
    /\ m \in dataNet
    /\ ~Fits(m)
    /\ dataNet' = Rest(dataNet, m)
    /\ UNCHANGED <<sndVars, rcvVars, ackNet, nakNet, dropNet, finNet, lost>>

\* skipRange: what the sender will not send again is marked, unless it is
\* there or passed already; a range too wide or backwards is ignored.
HandleDropReq(r) ==
    LET marks == {s \in SeqNum : /\ seqDiff(r[1], r[2]) <= MaxLossRange
                                 /\ Between(s, r)
                                 /\ seqDiff(rcvNext, s) >= 0
                                 /\ s \notin DOMAIN rcvBuf}
    IN  /\ r \in dropNet
        /\ Alive(rcvState)
        /\ rcvBuf' = [s \in DOMAIN rcvBuf \cup marks |-> IF s \in marks THEN Skip ELSE rcvBuf[s]]
        /\ loss' = loss \ marks
        /\ \/ rcvMax' = rcvMax /\ \A s \in marks : ~seqLess(rcvMax, s)
           \/ \E top \in marks : /\ \A s \in marks \cup {rcvMax} : seqDiff(s, top) >= 0
                                 /\ seqLess(rcvMax, top)
                                 /\ rcvMax' = top
        /\ dropNet' = Rest(dropNet, r)
        /\ UNCHANGED <<sndVars, rcvNext, ready, rcvState, due, delivered, gaveUp, discarded,
                       dataNet, ackNet, nakNet, finNet, lost>>

\* Mutant of AckPoint: gaps are not looked for.
AckPointMax(next, max, buf, a) == a = seqNext(max)

\* sendACK acknowledges up to the first number that is not there.
AckPoint(next, max, buf, a) ==
    /\ seqDiff(next, a) >= 0
    /\ Span(next, a) \subseteq DOMAIN buf
    /\ a \notin DOMAIN buf \/ ~seqLess(a, seqNext(max))

\* Mutant of ReceiverTick: only arriving packets make deliver run.
ReceiverTickNoDeliver(hz, ackDue, late) ==
    /\ Ticks(rcvState)
    /\ hz \in due .. written
    /\ InTime(hz)
    /\ due' = hz
    /\ \E a \in SeqNum : /\ AckPoint(rcvNext, rcvMax, rcvBuf, a)
                         /\ ackNet' = IF ackDue THEN ackNet \cup {a} ELSE ackNet
    /\ late \subseteq loss /\ loss' = loss
    /\ nakNet' = nakNet \cup nakPackets(late, MaxLossPerNak)
    /\ UNCHANGED <<sndVars, rcvNext, rcvMax, rcvBuf, ready, rcvState, delivered, gaveUp,
                   discarded, dataNet, dropNet, finNet, lost>>

\* The receiving part of tick: deliver, sendACK when it is time, and
\* periodicNAK for the losses that have waited long enough (the first
\* MaxLossPerNak of them).
ReceiverTick(hz, ackDue, late) ==
    /\ Ticks(rcvState)
    /\ hz \in due .. written
    /\ InTime(hz)
    /\ due' = hz
    /\ deliver(rcvBuf, loss, hz)
    /\ \E a \in SeqNum : /\ AckPoint(rcvNext', rcvMax, rcvBuf', a)
                         /\ ackNet' = IF ackDue THEN ackNet \cup {a} ELSE ackNet
    /\ LET report == {s \in late : Rank(late, s) <= MaxLossPerNak} IN
       /\ late \subseteq loss'
       /\ nakNet' = nakNet \cup nakPackets(report, MaxLossPerNak)
    /\ UNCHANGED <<sndVars, rcvMax, rcvState, dataNet, dropNet, finNet, lost>>

\* The application reads a message.
Read ==
    /\ ready # <<>>
    /\ rcvState # "closing"
    /\ ready' = Tail(ready)
    /\ UNCHANGED <<sndVars, rcvNext, rcvMax, rcvBuf, loss, rcvState, due,
                   delivered, gaveUp, discarded, netVars>>

\* Mutant of HandleShutdown: what is buffered is not handed over.
HandleShutdownNoFlush ==
    /\ "toReceiver" \in finNet
    /\ Alive(rcvState)
    /\ rcvBuf' = [s \in {} |-> Skip]
    /\ rcvNext' = seqNext(rcvMax)
    /\ rcvState' = "closed"
    /\ finNet' = Rest(finNet, "toReceiver")
    /\ UNCHANGED <<sndVars, rcvMax, loss, ready, due, delivered, gaveUp, discarded,
                   dataNet, ackNet, nakNet, dropNet, lost>>

\* The peer's shutdown: flushReceived hands over everything there, in order
\* and due or not, and the connection closes.
HandleShutdown ==
    /\ "toReceiver" \in finNet
    /\ Alive(rcvState)
    /\ Enqueue(Payloads(rcvBuf, DOMAIN rcvBuf))
    /\ rcvBuf' = [s \in {} |-> Skip]
    /\ rcvNext' = seqNext(rcvMax)
    /\ rcvState' = "closed"
    /\ finNet' = Rest(finNet, "toReceiver")
    /\ UNCHANGED <<sndVars, rcvMax, loss, due, gaveUp, dataNet, ackNet, nakNet, dropNet, lost>>

\* Mutant of ReceiverClose: rcvNext is left behind.
ReceiverCloseStays ==
    /\ MayClose
    /\ rcvState # "closing"
    /\ rcvState' = IF rcvState = "open" THEN "closing" ELSE rcvState
    /\ rcvBuf' = [s \in {} |-> Skip] /\ loss' = {} /\ ready' = <<>>
    /\ UNCHANGED <<sndVars, rcvNext, rcvMax, due, delivered, gaveUp, discarded, netVars>>

\* Close on the receiving side drops what was not read and what is buffered;
\* control packets are still exchanged until it ends. It may come after the
\* connection closed for another reason.
ReceiverClose ==
    /\ MayClose
    /\ rcvState # "closing"
    /\ rcvState' = IF rcvState = "open" THEN "closing" ELSE rcvState
    /\ rcvBuf' = [s \in {} |-> Skip] /\ loss' = {} /\ ready' = <<>>
    /\ rcvNext' = seqNext(rcvMax)
    /\ discarded' = discarded \cup {Idx(s) : s \in Span(rcvNext, seqNext(rcvMax))}
    /\ UNCHANGED <<sndVars, rcvMax, due, delivered, gaveUp, netVars>>

ReceiverCloseEnds ==
    /\ rcvState = "closing"
    /\ rcvState' = "closed"
    /\ finNet' = finNet \cup {"toSender"}
    /\ UNCHANGED <<sndVars, rcvNext, rcvMax, rcvBuf, loss, ready, due,
                   delivered, gaveUp, discarded, dataNet, ackNet, nakNet, dropNet, lost>>

ReceiverIdle ==
    /\ MayClose
    /\ Alive(rcvState)
    /\ rcvState' = "idle"
    /\ UNCHANGED <<sndVars, rcvNext, rcvMax, rcvBuf, loss, ready, due,
                   delivered, gaveUp, discarded, netVars>>

-------------------------------------------------------------------------------
(* The network loses packets *)
Lose ==
    /\ lost < MaxLost
    /\ lost' = lost + 1
    /\ \/ /\ \E m \in dataNet : dataNet' = dataNet \ {m}
          /\ UNCHANGED <<ackNet, nakNet, dropNet, finNet>>
       \/ /\ \E m \in ackNet : ackNet' = ackNet \ {m}
          /\ UNCHANGED <<dataNet, nakNet, dropNet, finNet>>
       \/ /\ \E m \in nakNet : nakNet' = nakNet \ {m}
          /\ UNCHANGED <<dataNet, ackNet, dropNet, finNet>>
       \/ /\ \E m \in dropNet : dropNet' = dropNet \ {m}
          /\ UNCHANGED <<dataNet, ackNet, nakNet, finNet>>
       \/ /\ \E m \in finNet : finNet' = finNet \ {m}
          /\ UNCHANGED <<dataNet, ackNet, nakNet, dropNet>>
    /\ UNCHANGED <<sndVars, rcvVars>>

-------------------------------------------------------------------------------
TickSender ==
    \E hz \in old .. written, again \in SUBSET {sndBuf[i] : i \in 1 .. Len(sndBuf)} :
        SenderTick(hz, again)

TickReceiver ==
    \E hz \in due .. written, ackDue \in BOOLEAN, late \in SUBSET loss :
        ReceiverTick(hz, ackDue, late)

Next ==
    \/ Write
    \/ \E a \in ackNet : HandleACK(a)
    \/ \E r \in nakNet : \E again \in SUBSET Held(r) : HandleNAK(r, again)
    \/ TickSender
    \/ SenderClose \/ SenderCloseEnds \/ SenderShutdown \/ SenderIdle
    \/ \E m \in dataNet : handleData(m)
    \/ \E m \in dataNet : IgnoreData(m)
    \/ \E r \in dropNet : HandleDropReq(r)
    \/ TickReceiver
    \/ Read
    \/ HandleShutdown
    \/ ReceiverClose \/ ReceiverCloseEnds \/ ReceiverIdle
    \/ Lose

Spec == Init /\ [][Next]_vars

(***************************************************************************)
(* Fairness.  The run loop ticks every 5 ms and its timers do expire, so   *)
(* again and again there is a tick at which every timer has: it takes the  *)
(* latest clock reading the run allows, acknowledges, reports every loss   *)
(* and resends the tail.  What the network neither loses nor holds for     *)
(* ever arrives, the socket does not refuse for ever, and the application  *)
(* reads.  Nothing is assumed of Write, Close or silence.                  *)
(***************************************************************************)
Latest(hz) == \A h \in 0 .. written : InTime(h) => h <= hz

FullSenderTick ==
    \E hz \in old .. written :
        /\ Latest(hz)
        /\ \E again \in SUBSET {sndBuf[i] : i \in 1 .. Len(sndBuf)} :
             /\ SenderTick(hz, again)
             /\ again = {sndBuf'[i] : i \in 1 .. Min2(TailBurst, Len(sndBuf'))}

FullReceiverTick ==
    \E hz \in due .. written :
        /\ Latest(hz)
        /\ \E late \in SUBSET loss : ReceiverTick(hz, TRUE, late) /\ late = loss'

Nth(p) == [seq |-> seqAdd(ISN, p), pay |-> p]

Fairness ==
    /\ WF_vars(FullSenderTick) /\ WF_vars(FullReceiverTick) /\ WF_vars(Read)
    /\ \A p \in 0 .. (MaxWrites - 1) : WF_vars(handleData(Nth(p)) \/ IgnoreData(Nth(p)))
    /\ \A p \in 0 .. MaxWrites : WF_vars(HandleACK(seqAdd(ISN, p)))
    /\ \A L \in (SUBSET {seqAdd(ISN, p) : p \in 0 .. (MaxWrites - 1)}) \ {{}} :
         WF_vars(HandleNAK(encodeLossList(L), Held(encodeLossList(L))))

FairSpec == Spec /\ Fairness

-------------------------------------------------------------------------------
TypeOK ==
    /\ nextSeq \in SeqNum /\ written \in 0 .. MaxWrites
    /\ sndBuf \in Seq(Packet) /\ sndState \in States /\ old \in 0 .. written
    /\ rcvNext \in SeqNum /\ rcvMax \in SeqNum
    /\ DOMAIN rcvBuf \subseteq SeqNum
    /\ \A s \in DOMAIN rcvBuf : rcvBuf[s] \in {Skip} \cup (0 .. (MaxWrites - 1))
    /\ loss \subseteq SeqNum
    /\ ready \in Seq(0 .. (MaxWrites - 1)) /\ rcvState \in States /\ due \in 0 .. written
    /\ dataNet \subseteq Packet /\ ackNet \subseteq SeqNum
    /\ nakNet \subseteq SUBSET (SeqNum \X SeqNum)
    /\ dropNet \subseteq SeqNum \X SeqNum
    /\ finNet \subseteq {"toReceiver", "toSender"} /\ lost \in 0 .. MaxLost
    /\ delivered \in Seq(0 .. (MaxWrites - 1))
    /\ gaveUp \cup discarded \cup sndDropped \subseteq 0 .. (MaxWrites - 1)
    /\ fin \in {"none", "clean", "cut"}

\* What Read returns is the written stream with packets left out, never
\* reordered, repeated or delayed past a later one, for every order, loss
\* and repetition of the packets of the network (deliver, flushReceived).
InOrder ==
    \A i, j \in DOMAIN delivered : i < j => delivered[i] < delivered[j]

\* Between rcvNext and rcvMax every number is either held or on the loss
\* list, never both and never neither: a hole the receiver does not know of
\* would not be asked for again (handleData, skipRange, deliver).
NoSilentGap ==
    Alive(rcvState) =>
        /\ Span(rcvNext, seqNext(rcvMax)) = DOMAIN rcvBuf \cup loss
        /\ DOMAIN rcvBuf \cap loss = {}

\* No ACK on the wire, however late it arrives, covers a packet the receiver
\* still waits for, so the sender does not let go of it (sendACK, handleACK).
AckCoversNoLoss ==
    Alive(rcvState) => \A a \in ackNet, s \in loss : Idx(a) <= Idx(s)

\* A packet is given up only when its play time has come or the sender no
\* longer holds it: a drop request never costs a packet that could still be
\* sent again in time (deliver, skipRange, handleNAK).
GiveUpJustified == \A p \in gaveUp : p < due \/ p < SndBase

\* A shutdown sent after everything was acknowledged, with nothing let go
\* for age, costs the reader nothing: what was written was handed over,
\* given up as late, dropped from a full queue, or discarded by the
\* receiver's own Close (Close, flushReceived).
CleanCloseKeepsAll ==
    (fin = "clean" /\ sndDropped = {} /\ rcvState = "closed") =>
        0 .. (written - 1) \subseteq
            {delivered[i] : i \in DOMAIN delivered} \cup gaveUp \cup discarded

(***************************************************************************)
(* The inductive invariant.  Every number in use is within MaxWrites of    *)
(* ISN, so that Idx turns the circular comparisons into comparisons of     *)
(* naturals; on top of that, what each part of the state knows about the   *)
(* others:                                                                 *)
(***************************************************************************)
\* the send buffer is the run of packets SndBase .. written - 1;
SenderInv ==
    /\ Idx(nextSeq) = written
    /\ Len(sndBuf) <= written
    /\ \A i \in 1 .. Len(sndBuf) : /\ sndBuf[i].pay = written - Len(sndBuf) + i - 1
                                   /\ Idx(sndBuf[i].seq) = sndBuf[i].pay

\* the receiver's window starts at rcvNext and ends at rcvMax, and holds
\* each packet under its own number; skip marks are packets let go;
ReceiverInv ==
    /\ 0 <= Idx(rcvNext) /\ Idx(rcvNext) <= Idx(rcvMax) + 1
    /\ -1 <= Idx(rcvMax) /\ Idx(rcvMax) < written
    /\ \A s \in DOMAIN rcvBuf : /\ Idx(rcvNext) <= Idx(s) /\ Idx(s) <= Idx(rcvMax)
                                /\ rcvBuf[s] = Skip => Idx(s) < SndBase
                                /\ rcvBuf[s] # Skip => rcvBuf[s] = Idx(s)
    /\ \A s \in loss : 0 <= Idx(s) /\ Idx(s) <= Idx(rcvMax)

\* the network carries packets under their own number, acknowledges nothing
\* beyond what arrived, asks only for what was passed, and drop requests
\* name only what the sender let go;
NetworkInv ==
    /\ \A m \in dataNet : m.pay < written /\ Idx(m.seq) = m.pay
    /\ \A a \in ackNet : 0 <= Idx(a) /\ Idx(a) <= Idx(rcvMax) + 1
    /\ \A r \in nakNet : \A run \in r :
         0 <= Idx(run[1]) /\ Idx(run[1]) <= Idx(run[2]) /\ Idx(run[2]) <= Idx(rcvMax)
    /\ \A run \in dropNet :
         /\ 0 <= Idx(run[1]) /\ Idx(run[1]) <= Idx(run[2])
         /\ Idx(run[2]) <= Idx(rcvMax) /\ Idx(run[2]) < SndBase

\* and nothing delivered is at or past rcvNext.
StreamInv == InOrder /\ \A i \in DOMAIN delivered : delivered[i] < Idx(rcvNext)

LinkInv ==
    /\ TypeOK /\ SenderInv /\ ReceiverInv /\ NetworkInv /\ StreamInv
    /\ NoSilentGap /\ AckCoversNoLoss /\ GiveUpJustified

\* When packets are lost a bounded number of times and the latency leaves
\* time to recover, every packet written reaches the reader: a loss in the
\* middle through NAKs, a loss at the tail through resendTail, a lost NAK
\* through the periodic ones.
EveryPacketArrives ==
    \A p \in 0 .. (MaxWrites - 1) :
        ~<>[](written > p /\ p \notin {delivered[i] : i \in DOMAIN delivered})

\* The send buffer is eventually emptied of every packet, acknowledged or
\* let go for age, so a Write waiting for room gets it.
SendBufferDrains ==
    \A p \in 0 .. (MaxWrites - 1) : ~<>[](written > p /\ SndBase <= p)
===============================================================================
