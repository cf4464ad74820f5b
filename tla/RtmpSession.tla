------------------------------ MODULE RtmpSession ------------------------------
(***************************************************************************)
(* An RTMP session (go-rtmp/client.go, server.go, handshake.go): an        *)
(* RtmpClient that publishes or plays and an RtmpServerHandle, the bytes   *)
(* between them, and the two applications, which give the handles what     *)
(* their connection brings, in pieces of any size, and write media from a  *)
(* goroutine of their own once the session has started.                    *)
(*                                                                         *)
(* A cell of the byte stream is a byte of the handshake or a whole message *)
(* (RtmpChunk takes messages apart): its kind, the chunk size its writer   *)
(* used (0 in the handshake) and a value.                                  *)
(***************************************************************************)
EXTENDS Naturals, Sequences

CONSTANTS
    Roles,       \* "publish", "play": what the client may want
    Schemes,     \* the handshakes it may use: "simple", "schema0", "schema1"
    Verdicts,    \* what OnPublish or OnPlay may answer: "start", a code of
                 \* level "error", or a code of another level, "other"
    HsLen,       \* HANDSHAKE_SIZE
    FixSize,     \* FIX_CHUNK_SIZE
    WriteSize,   \* writeChunkSize
    WndAck,      \* wndAckSize
    MaxMedia,    \* bound: media messages each side writes
    MayBreak,    \* whether the connection may fail
    Foreign      \* whether the server may be another one, which answers every
                 \* command and may refuse with _error

SessionAssumption ==
    /\ Roles \subseteq {"publish", "play"} /\ Schemes \subseteq {"simple", "schema0", "schema1"}
    /\ Verdicts \subseteq {"start", "error", "other"}
    /\ HsLen \in Nat \ {0} /\ FixSize \in Nat \ {0} /\ WriteSize \in Nat \ {0}
    /\ WndAck \in Nat \ {0} /\ MaxMedia \in Nat /\ MayBreak \in BOOLEAN
    /\ Foreign \in BOOLEAN

Sides == {"client", "server"}
Peer(s) == IF s = "client" THEN "server" ELSE "client"

VARIABLES
    role,     \* isPublish
    started,  \* whether Start was called
    wire,     \* side -> cells on their way to it
    data,     \* side -> what is left of the data of the Input call
    busy,     \* side -> whether an Input call goes on
    stage,    \* side -> handshake state: 0, 1, 2, then 3 for HANDSHAKE_DONE
    cache,    \* side -> length of the handshake's cache
    scheme,   \* side -> simpleHs and schema
    state,    \* side -> streamState
    pending,  \* the state the server changes to when its answer is out
    wsize,    \* side -> chunkSize of its control and command channels
    rsize,    \* side -> chunkSize of its reader
    last,     \* lastMethod and lastMethodTid of the client
    streamId, \* streamId of the client
    peerWnd,  \* side -> peerWndAckSize
    recv,     \* side -> recvBytes of its reader
    acked,    \* side -> lastAckBytes
    works,    \* side -> whether its output still takes data
    gone,     \* side -> whether its application gave up after an error
    written,  \* side -> media messages written
    verdict,  \* what the server's application answered, "none" before
    ackSeen   \* side -> the last acknowledgement it received

inputs == <<wire, data, busy>>
shake  == <<stage, cache, scheme>>
chunks == <<wsize, rsize>>
flow   == <<peerWnd, recv, acked, ackSeen>>
ends   == <<works, gone>>
session == <<role, started, state, pending, last, streamId, written, verdict>>
vars == <<inputs, shake, chunks, flow, ends, session>>

ServerStreamId == 1   \* RtmpServerHandle.streamId

Cell(t, size, v) == [t |-> t, size |-> size, v |-> v]
Hs(t, sch)       == [i \in 1 .. HsLen |-> Cell(t, 0, sch)]

Init ==
    /\ role \in Roles
    /\ \E sch \in Schemes : scheme = [s \in Sides |-> IF s = "client" THEN sch ELSE "simple"]
    /\ wire = [s \in Sides |-> <<>>] /\ data = wire /\ busy = [s \in Sides |-> FALSE]
    /\ stage = [s \in Sides |-> 0] /\ cache = stage
    /\ state = [s \in Sides |-> "HANDSHAKEING"] /\ pending = "none"
    /\ wsize = [s \in Sides |-> FixSize] /\ rsize = wsize
    /\ started = FALSE /\ last = [method |-> "CONNECT", tid |-> 0] /\ streamId = 0
    /\ peerWnd = stage /\ recv = stage /\ acked = stage /\ ackSeen = stage
    /\ works = [s \in Sides |-> TRUE] /\ gone = busy
    /\ written = stage /\ verdict = "none"

-----------------------------------------------------------------------------
(* What a step of Input does to the connection: it takes the first cell of  *)
(* data and sends a batch.  If the output fails, Input returns the error,   *)
(* and the application gives the connection up.                             *)

First(s) == Head(data[s])
Rest(s)  == [data EXCEPT ![s] = Tail(@)]
Ready(s) == busy[s] /\ data[s] # <<>> /\ (s = "server" => pending = "none")
Awaits(s, t) == Ready(s) /\ stage[s] = 3 /\ First(s).t = t

Consume(s) ==
    /\ data' = Rest(s)
    /\ UNCHANGED <<wire, busy, ends>>

Send(s, cells) ==
    /\ works[s]
    /\ wire' = [wire EXCEPT ![Peer(s)] = @ \o cells]
    /\ data' = Rest(s)
    /\ UNCHANGED <<busy, ends>>

SendFails(s) ==
    /\ ~works[s]
    /\ data' = [data EXCEPT ![s] = <<>>]
    /\ busy' = [busy EXCEPT ![s] = FALSE]
    /\ gone' = [gone EXCEPT ![s] = TRUE]
    /\ UNCHANGED <<wire, works>>

ChangeState(s, st) == state' = [state EXCEPT ![s] = st]

-----------------------------------------------------------------------------
(* The applications and the connection.                                     *)

Start ==
    /\ ~started /\ works["client"]
    /\ started' = TRUE
    /\ wire' = [wire EXCEPT !["server"] =
                    @ \o <<Cell("c0", 0, 0)>> \o Hs("c1", scheme["client"])]
    /\ UNCHANGED <<data, busy, shake, chunks, flow, ends, role, state, pending, last,
                   streamId, written, verdict>>

Input(s) ==
    /\ ~busy[s] /\ ~gone[s]
    /\ \E n \in 1 .. Len(wire[s]) :
          /\ data' = [data EXCEPT ![s] = SubSeq(wire[s], 1, n)]
          /\ wire' = [wire EXCEPT ![s] = SubSeq(@, n + 1, Len(@))]
    /\ busy' = [busy EXCEPT ![s] = TRUE]
    /\ UNCHANGED <<shake, chunks, flow, ends, session>>

Break(s) ==
    /\ MayBreak /\ works[s]
    /\ works' = [works EXCEPT ![s] = FALSE]
    /\ UNCHANGED <<inputs, shake, chunks, flow, gone, session>>

\* WriteVideoTag and WriteAudioTag, by an application that has seen the
\* session start: the client's publishes, the server's plays.
Streaming(s) == IF s = "client" THEN "PUBLISH_START" ELSE "PLAY_START"

WriteTag(s) ==
    /\ state[s] = Streaming(s) /\ works[s] /\ written[s] < MaxMedia
    /\ written' = [written EXCEPT ![s] = @ + 1]
    /\ wire' = [wire EXCEPT ![Peer(s)] =
          Append(@, Cell("media", WriteSize,
                         IF s = "client" THEN streamId ELSE ServerStreamId))]
    /\ UNCHANGED <<data, busy, shake, chunks, flow, ends, role, started, state, pending,
                   last, streamId, verdict>>

-----------------------------------------------------------------------------
(* The handshake: clientHandShake.input and serverHandShake.input differ in  *)
(* what they send when the first 1536 bytes are in, and Input in what it     *)
(* does when the second are.                                                 *)

\* Mutant: one byte too many.
FilledLate(s) == cache[s] = HsLen

Filled(s) == cache[s] + 1 = HsLen

ReadVersion(s) ==
    /\ Ready(s) /\ stage[s] = 0
    /\ stage' = [stage EXCEPT ![s] = 1]
    /\ Consume(s)
    /\ UNCHANGED <<cache, scheme, chunks, flow, session>>

ReadHandshake(s) ==
    /\ Ready(s) /\ stage[s] \in {1, 2} /\ ~Filled(s)
    /\ cache' = [cache EXCEPT ![s] = @ + 1]
    /\ Consume(s)
    /\ UNCHANGED <<stage, scheme, chunks, flow, session>>

\* The scheme the server finds in a C1; a digest that does not fit is "simple".
CheckC1(c1) == c1.v

\* C2 answers S1; S0, S1 and S2 answer C1.
Answer(s) ==
    IF s = "client" THEN Hs("c2", scheme[s])
                    ELSE <<Cell("s0", 0, 0)>> \o Hs("s1", CheckC1(First(s))) \o Hs("s2", CheckC1(First(s)))

AnswerHandshake(s) ==
    /\ Ready(s) /\ stage[s] = 1 /\ Filled(s)
    /\ scheme' = [scheme EXCEPT ![s] = IF s = "server" THEN CheckC1(First(s)) ELSE @]
    /\ \/ /\ Send(s, Answer(s))
          /\ stage' = [stage EXCEPT ![s] = 2]
          /\ cache' = [cache EXCEPT ![s] = 0]
       \/ /\ SendFails(s)
          /\ cache' = [cache EXCEPT ![s] = HsLen]
          /\ UNCHANGED stage
    /\ UNCHANGED <<chunks, flow, session>>

ServerShaken ==
    /\ Ready("server") /\ stage["server"] = 2 /\ Filled("server")
    /\ stage' = [stage EXCEPT !["server"] = 3]
    /\ cache' = [cache EXCEPT !["server"] = 0]
    /\ ChangeState("server", "HANDSHAKE_DONE")
    /\ Consume("server")
    /\ UNCHANGED <<scheme, chunks, flow, role, started, pending, last, streamId,
                   written, verdict>>

ClientShaken ==
    /\ Ready("client") /\ stage["client"] = 2 /\ Filled("client")
    /\ stage' = [stage EXCEPT !["client"] = 3]
    /\ cache' = [cache EXCEPT !["client"] = 0]
    /\ ChangeState("client", "CONNECTING")
    /\ \/ /\ Send("client", <<Cell("connect", wsize["client"], 1)>>)
          /\ last' = [method |-> "CONNECT", tid |-> 1]
       \/ SendFails("client") /\ UNCHANGED last
    /\ UNCHANGED <<scheme, chunks, flow, role, started, pending, streamId, written,
                   verdict>>

-----------------------------------------------------------------------------
(* Messages both sides handle alike.                                        *)

Count(s) == recv' = [recv EXCEPT ![s] = @ + 1]

HandleSetChunkSize(s) ==
    /\ Awaits(s, "SET_CHUNK_SIZE")
    /\ rsize' = [rsize EXCEPT ![s] = First(s).v]
    /\ Count(s) /\ Consume(s)
    /\ UNCHANGED <<shake, wsize, peerWnd, acked, ackSeen, session>>

HandleWndAckSize(s) ==
    /\ Awaits(s, "WND_ACK_SIZE")
    /\ peerWnd' = [peerWnd EXCEPT ![s] = First(s).v]
    /\ Count(s) /\ Consume(s)
    /\ UNCHANGED <<shake, chunks, acked, ackSeen, session>>

HandleAck(s) ==
    /\ Awaits(s, "ACKNOWLEDGEMENT")
    /\ ackSeen' = [ackSeen EXCEPT ![s] = First(s).v]
    /\ Count(s) /\ Consume(s)
    /\ UNCHANGED <<shake, chunks, peerWnd, acked, session>>

\* Nothing of the session depends on these; media goes to the demuxer.
Passed == {"SET_PEER_BW", "USER_CONTROL", "releaseStream", "FCPublish",
           "getStreamLength", "media"}

HandleOther(s) ==
    /\ \E t \in Passed : Awaits(s, t)
    /\ Count(s) /\ Consume(s)
    /\ UNCHANGED <<shake, chunks, peerWnd, acked, ackSeen, session>>

\* The end of Input: sendAckIfNeeded, if the chunk reader was reached.
\* Mutant: a full window is not enough.
AckDueLate(s) == stage[s] = 3 /\ peerWnd[s] # 0 /\ recv[s] - acked[s] > peerWnd[s]

AckDue(s) == stage[s] = 3 /\ peerWnd[s] # 0 /\ recv[s] - acked[s] >= peerWnd[s]

InputEnds(s) ==
    /\ busy[s] /\ data[s] = <<>> /\ (s = "server" => pending = "none")
    /\ busy' = [busy EXCEPT ![s] = FALSE]
    /\ acked' = [acked EXCEPT ![s] = IF AckDue(s) THEN recv[s] ELSE @]
    /\ IF AckDue(s) /\ works[s]
       THEN wire' = [wire EXCEPT ![Peer(s)] =
                         Append(@, Cell("ACKNOWLEDGEMENT", wsize[s], recv[s]))]
       ELSE UNCHANGED wire
    /\ gone' = [gone EXCEPT ![s] = AckDue(s) /\ ~works[s]]
    /\ UNCHANGED <<data, shake, chunks, peerWnd, recv, ackSeen, works, session>>

-----------------------------------------------------------------------------
(* Commands the server handles.  A batch goes out before the state changes:  *)
(* the step between the two is the server's own (ServerSettles).             *)

ServerCmd(t, v) == Cell(t, wsize["server"], v)
Result(tid)     == ServerCmd("_result", [tid |-> tid, sid |-> ServerStreamId])

\* Mutant: only the peer changes the size.
AnnounceOnly(s) == UNCHANGED wsize

\* SET_CHUNK_SIZE is written with the old size, the rest of the batch with the new.
Announce(s)     == wsize' = [wsize EXCEPT ![s] = WriteSize]
Behind(s, t, v) == Cell(t, wsize'[s], v)

HandleConnect ==
    /\ Awaits("server", "connect")
    /\ ChangeState("server", "CONNECTING")
    /\ Announce("server")
    /\ Count("server")
    /\ \/ Send("server", <<ServerCmd("SET_CHUNK_SIZE", WriteSize),
                          Behind("server", "WND_ACK_SIZE", WndAck),
                          Behind("server", "SET_PEER_BW", WndAck),
                          Behind("server", "_result", [tid |-> 1, sid |-> 0])>>)
       \/ SendFails("server")
    /\ UNCHANGED <<shake, rsize, peerWnd, acked, ackSeen, role, started, pending, last,
                   streamId, written, verdict>>

HandleCreateStream ==
    /\ Awaits("server", "createStream")
    /\ Count("server")
    /\ Send("server", <<Result(First("server").v)>>) \/ SendFails("server")
    /\ UNCHANGED <<shake, chunks, peerWnd, acked, ackSeen, session>>

\* The state an answer of the application leads to.
Outcome(r, answer) ==
    CASE r = "publish" /\ answer = "start" -> "PUBLISH_START"
      [] r = "publish" /\ answer # "start" -> "PUBLISH_FAILED"
      [] r = "play"    /\ answer = "start" -> "PLAY_START"
      [] OTHER                             -> "PLAY_FAILED"

PlayAnswer(answer) ==
    IF answer = "start"
    THEN <<ServerCmd("USER_CONTROL", ServerStreamId), ServerCmd("onStatus", "reset"),
           ServerCmd("onStatus", "start")>>
    ELSE <<ServerCmd("onStatus", answer)>>

HandlePlay ==
    /\ Awaits("server", "play")
    /\ Count("server")
    /\ \E answer \in Verdicts :
          /\ verdict' = answer
          /\ \/ /\ Send("server", PlayAnswer(answer))
                /\ pending' = Outcome("play", answer)
             \/ SendFails("server") /\ UNCHANGED pending
    /\ UNCHANGED <<shake, chunks, peerWnd, acked, ackSeen, role, started, state, last,
                   streamId, written>>

HandlePublish ==
    /\ Awaits("server", "publish")
    /\ Count("server")
    /\ \E answer \in Verdicts :
          /\ verdict' = answer
          /\ \/ /\ Send("server", <<ServerCmd("onStatus", answer)>>)
                /\ pending' = Outcome("publish", answer)
             \/ SendFails("server") /\ UNCHANGED pending
    /\ UNCHANGED <<shake, chunks, peerWnd, acked, ackSeen, role, started, state, last,
                   streamId, written>>

ServerSettles ==
    /\ pending # "none"
    /\ ChangeState("server", pending)
    /\ pending' = "none"
    /\ UNCHANGED <<inputs, shake, chunks, flow, ends, role, started, last, streamId,
                   written, verdict>>

\* Another implementation: it answers what this one ignores, or refuses.
ForeignAnswer ==
    /\ Foreign
    /\ \E t \in {"releaseStream", "FCPublish", "getStreamLength"} : Awaits("server", t)
    /\ Count("server")
    /\ Send("server", <<Cell("_result", wsize["server"],
                             [tid |-> First("server").v, sid |-> 0])>>)
    /\ UNCHANGED <<shake, chunks, peerWnd, acked, ackSeen, session>>

ForeignRefusal ==
    /\ Foreign /\ Awaits("server", "connect")
    /\ Count("server")
    /\ verdict' = "error"
    /\ Send("server", <<ServerCmd("_error", 1)>>)
    /\ UNCHANGED <<shake, chunks, peerWnd, acked, ackSeen, role, started, state, pending,
                   last, streamId, written>>

-----------------------------------------------------------------------------
(* Answers the client handles.                                              *)

ClientCmd(t, v) == Cell(t, wsize["client"], v)

\* handleResult hands a _result on by lastMethod; the handlers want its id.
\* Mutant: whatever it answers.
AnswersAny(method) == Awaits("client", "_result") /\ last.method = method

Answers(method) ==
    /\ Awaits("client", "_result") /\ last.method = method
    /\ First("client").v.tid = last.tid

HandleConnectResponse ==
    /\ Answers("CONNECT")
    /\ last' = [method |-> "CREATE_STREAM", tid |-> 2]
    /\ Count("client")
    /\ IF role = "publish"
       THEN /\ Announce("client")
            /\ \/ Send("client", <<ClientCmd("SET_CHUNK_SIZE", WriteSize),
                                  Behind("client", "releaseStream", 0),
                                  Behind("client", "FCPublish", 0),
                                  Behind("client", "createStream", 2)>>)
               \/ SendFails("client")
       ELSE /\ UNCHANGED wsize
            /\ \/ Send("client", <<ClientCmd("WND_ACK_SIZE", WndAck),
                                  ClientCmd("createStream", 2)>>)
               \/ SendFails("client")
    /\ UNCHANGED <<shake, rsize, peerWnd, acked, ackSeen, role, started, state, pending,
                   streamId, written, verdict>>

HandleCreateStreamResponse ==
    /\ Answers("CREATE_STREAM")
    /\ streamId' = First("client").v.sid
    /\ Count("client")
    /\ IF role = "publish"
       THEN /\ UNCHANGED last
            /\ Send("client", <<ClientCmd("publish", streamId')>>) \/ SendFails("client")
       ELSE /\ last' = [method |-> "GET_STREAM_LENGTH", tid |-> 3]
            /\ \/ Send("client", <<ClientCmd("getStreamLength", 3),
                                  ClientCmd("play", streamId')>>)
               \/ SendFails("client")
    /\ UNCHANGED <<shake, chunks, peerWnd, acked, ackSeen, role, started, state, pending,
                   written, verdict>>

IgnoreResult ==
    /\ Awaits("client", "_result")
    /\ \/ last.method = "GET_STREAM_LENGTH"
       \/ last.method # "GET_STREAM_LENGTH" /\ First("client").v.tid # last.tid
    /\ Count("client") /\ Consume("client")
    /\ UNCHANGED <<shake, chunks, peerWnd, acked, ackSeen, session>>

HandleError ==
    /\ Awaits("client", "_error")
    /\ ChangeState("client", Outcome(role, "error"))
    /\ Count("client") /\ Consume("client")
    /\ UNCHANGED <<shake, chunks, peerWnd, acked, ackSeen, role, started, pending, last,
                   streamId, written, verdict>>

\* A code that is neither a start nor of level "error" changes nothing.
\* Mutant: only a start is looked for.
StatusStateStart(v) == IF v = "start" THEN Outcome(role, v) ELSE state["client"]

StatusState(v) == IF v \in {"start", "error"} THEN Outcome(role, v) ELSE state["client"]

HandleStatus ==
    /\ Awaits("client", "onStatus")
    /\ ChangeState("client", StatusState(First("client").v))
    /\ Count("client") /\ Consume("client")
    /\ UNCHANGED <<shake, chunks, peerWnd, acked, ackSeen, role, started, pending, last,
                   streamId, written, verdict>>

-----------------------------------------------------------------------------
Handle(s) ==
    \/ ReadVersion(s) \/ ReadHandshake(s) \/ AnswerHandshake(s)
    \/ HandleSetChunkSize(s) \/ HandleWndAckSize(s) \/ HandleAck(s) \/ HandleOther(s)
    \/ InputEnds(s)

ServerStep ==
    \/ ServerShaken \/ HandleConnect \/ HandleCreateStream \/ HandlePlay \/ HandlePublish
    \/ ServerSettles \/ ForeignAnswer \/ ForeignRefusal

ClientStep ==
    \/ ClientShaken \/ HandleConnectResponse \/ HandleCreateStreamResponse
    \/ IgnoreResult \/ HandleError \/ HandleStatus

Next ==
    \/ Start
    \/ \E s \in Sides : Input(s) \/ Handle(s) \/ Break(s) \/ WriteTag(s)
    \/ ServerStep
    \/ ClientStep

Spec == Init /\ [][Next]_vars

\* The loops of the applications read what arrives and run Input to its end;
\* the client starts.  Nobody has to write media.
Fairness ==
    /\ WF_vars(Start) /\ WF_vars(ServerStep) /\ WF_vars(ClientStep)
    /\ \A s \in Sides : WF_vars(Input(s)) /\ WF_vars(Handle(s))

FairSpec == Spec /\ Fairness

-----------------------------------------------------------------------------
Stages    == {"HANDSHAKEING", "HANDSHAKE_DONE", "CONNECTING"}
Started   == {"PUBLISH_START", "PLAY_START"}
Failed    == {"PUBLISH_FAILED", "PLAY_FAILED"}

\* Every field keeps its type; in particular the caches of the handshake
\* never exceed what they are waiting for.
TypeOK ==
    /\ role \in {"publish", "play"} /\ started \in BOOLEAN
    /\ \A s \in Sides :
          /\ stage[s] \in 0 .. 3 /\ cache[s] \in 0 .. HsLen
          /\ cache[s] = HsLen => gone[s]
          /\ scheme[s] \in {"simple", "schema0", "schema1"}
          /\ state[s] \in Stages \cup Started \cup Failed
          /\ {wsize[s], rsize[s]} \subseteq {FixSize, WriteSize}
          /\ acked[s] <= recv[s] /\ peerWnd[s] \in {0, WndAck}
          /\ busy[s] \/ data[s] = <<>>
    /\ pending \in {"none"} \cup Started \cup Failed
    /\ streamId \in {0, ServerStreamId} /\ last.tid \in 0 .. 3
    /\ verdict \in {"none", "start", "error", "other"}

\* Wherever the input is cut, each reader is where the writer was: the
\* handshake takes its own bytes and no others, each side answers in the scheme
\* of the other, and a message is read with the chunk size it was written with,
\* although both sides change theirs in the middle of a batch.
Expected(s) ==
    IF s = "client" THEN <<"s0", "s1", "s2">> ELSE <<"c0", "c1", "c2">>

ReadAsWritten ==
    \A s \in Sides : Ready(s) =>
        IF stage[s] < 3
        THEN /\ First(s).t = Expected(s)[stage[s] + 1]
             /\ stage[s] = 2 => First(s).v = scheme[s]
        ELSE First(s).size = rsize[s]

\* Both sides agree on what was started.  A side that has started has been
\* accepted by the server's application.  Media, which another goroutine
\* writes, is read only by a side that has started, so it never overtakes the
\* status; it, and the command that asks for it, carry the id of the stream
\* the server created.
StartAgreed ==
    /\ \A s \in Sides : state[s] \in Started => verdict = "start"
    /\ \A s \in Sides : Awaits(s, "media") => state[s] = Outcome(role, "start")
    /\ \A t \in {"media", "publish", "play"} :
          Awaits("server", t) => First("server").v = ServerStreamId

\* A side that announced a window is told of what it sent: when nothing is
\* under way, less than a window of it is without acknowledgement.
Quiet == \A s \in Sides : wire[s] = <<>> /\ ~busy[s] /\ works[s]

AcksKeepUp ==
    \A s \in Sides : Quiet /\ peerWnd[s] # 0 => recv[s] - ackSeen[Peer(s)] < peerWnd[s]

\* As long as the connection lasts, a client that was started learns whether it
\* may stream, unless the application answers with a code that is neither a
\* start nor an error.
Undecided ==
    /\ started /\ state["client"] \notin Started \cup Failed
    /\ verdict # "other" /\ \A s \in Sides : works[s]

SessionDecided == ~<>[]Undecided
================================================================================
