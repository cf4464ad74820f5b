------------------------------ MODULE RtspSession ------------------------------
(***************************************************************************)
(* An RTSP session (go-rtsp/rtsp-client.go, rtsp-server.go, rtsp-track.go, *)
(* rtsp-transport.go): an RtspClient that plays or records, an RtspServer, *)
(* the requests and responses between them and the media interleaved with  *)
(* them on the same connection.                                            *)
(*                                                                         *)
(* up and down are the two directions of the connection, as sequences of   *)
(* whole messages: Input keeps what it has of one until the rest arrives.  *)
(* Every handler runs to its end within one Input call.                    *)
(*                                                                         *)
(* The client may have a ClientHandle, which is called with every          *)
(* response.  If a SETUP is answered with 461 the handle switches all      *)
(* tracks to the other transport, once; the server takes the same          *)
(* transports for all tracks.  The channels of a UDP track, its zero       *)
(* values, therefore never meet those of an interleaved one.               *)
(***************************************************************************)
EXTENDS Naturals, Sequences, FiniteSets

CONSTANTS
    Modes,     \* "play", "record": what the client may want
    Handled,   \* whether there is a ClientHandle
    Offers,    \* descriptions: sequences of medias [type, known]; known is
               \* whether the package has the codec
    Securities,\* "open": no password asked; "right", "wrong": the client's
    Prefers,   \* what the application sets on its tracks: "unset", "tcp" or "udp"
    Refusals,  \* the requests the other application may refuse
    AliveFrom, \* "start": KeepAlive once the stream has started; "setup": once
               \* HandleSetup has told the timeout of the session
    MaxAlive,  \* bound: calls of KeepAlive
    MaxMedia   \* bound: packets the streaming side writes

Types == {"video", "audio", "application"}

RtspAssumption ==
    /\ Modes \subseteq {"play", "record"} /\ Securities \subseteq {"open", "right", "wrong"}
    /\ Handled \subseteq BOOLEAN /\ Prefers \subseteq {"unset", "tcp", "udp"} /\ AliveFrom \in {"start", "setup"}
    /\ Refusals \subseteq {"DESCRIBE", "ANNOUNCE", "SETUP", "PLAY", "RECORD"}
    /\ MaxAlive \in Nat /\ MaxMedia \in Nat
    /\ Offers \subseteq Seq([type : Types, known : BOOLEAN])
    /\ \A o \in Offers : \A i, j \in 1 .. Len(o) : i # j => o[i].type # o[j].type

VARIABLES
    mode,     \* isRecord
    handled,  \* handle # nil
    security, \* userName, passwd and auth of both
    takes,    \* the transports the server's application takes
    up, down, \* the connection
    client,   \* RtspClient
    server,   \* RtspServer
    over,     \* why the client's application gave up: "none", "refused", "error"
    alive,    \* calls of KeepAlive
    streamed  \* packets written

vars == <<mode, handled, security, takes, up, down, client, server, over, alive, streamed>>
fixed == <<mode, handled, security, takes>>

-----------------------------------------------------------------------------
(* Transports, tracks and medias.                                           *)

Absent   == [proto |-> "absent", ch |-> <<0, 0>>]  \* no such track
Unset    == [proto |-> "unset", ch |-> <<0, 0>>]   \* transport is nil
New(p)   == [proto |-> p, ch |-> <<0, 0>>]         \* NewRtspTransport, the zero channels
Ready(t) == t.proto \in {"tcp", "udp"}

\* Mutant: what the other side says is not read.
DecodeNothing(tr, said) == tr

\* DecodeString of what EncodeString of the other side says: channels are
\* named for TCP only.
Decode(tr, said) == IF said.proto = "tcp" THEN said ELSE [tr EXCEPT !.proto = "udp"]

\* The tracks a description makes: those of medias whose codec is known.
Known(medias) == {medias[i].type : i \in {j \in 1 .. Len(medias) : medias[j].known}}
Tracks(medias, tr) == [t \in Types |-> IF t \in Known(medias) THEN tr ELSE Absent]
First(p) == IF p = "unset" THEN Unset ELSE New(p)

\* The channels sendNextSetup and handleSetup ask for, from the place of the
\* media in the description.
Numbered(tr, i) ==
    IF tr.proto = "unset" \/ (tr.proto = "tcp" /\ tr.ch[1] = tr.ch[2])
    THEN [proto |-> "tcp", ch |-> <<2 * i - 2, 2 * i - 1>>] ELSE tr

-----------------------------------------------------------------------------
(* Messages.                                                                *)

Request(method, type, tr, medias) ==
    [kind |-> "request", method |-> method, type |-> type, tr |-> tr, medias |-> medias,
     nonce |-> 0, session |-> 0]
Plain(method) == Request(method, "", Unset, <<>>)
Response(status) ==
    [kind |-> "response", status |-> status, medias |-> <<>>, session |-> 0, tr |-> Unset, nonce |-> 0]
Packet(kind, type, ch) == [kind |-> kind, type |-> type, ch |-> ch]

Init ==
    /\ mode \in Modes /\ handled \in Handled /\ security \in Securities
    /\ takes \in SUBSET {"tcp", "udp"} \ {{}}
    /\ up = <<>> /\ down = <<>>
    /\ \E offer \in Offers, p \in Prefers :
          LET own    == IF mode = "record" THEN offer ELSE <<>>
              theirs == IF mode = "play" THEN offer ELSE <<>>
          IN  /\ client = [state |-> "Init", handler |-> "none", last |-> Plain("none"), nonce |-> 0,
                           retry |-> 0, session |-> 0, step |-> 0, medias |-> own,
                           tracks |-> Tracks(own, First(p)), prefer |-> p, switched |-> FALSE, heard |-> {}]
              /\ server = [session |-> 0, nonce |-> 0, interleaved |-> 0, medias |-> theirs,
                           tracks |-> Tracks(theirs, Unset), heard |-> {}, begun |-> "no"]
    /\ over = "none" /\ alive = 0 /\ streamed = 0

-----------------------------------------------------------------------------
(* The client sends.                                                        *)

\* sendRtspRequest: credentials and session go with it if there are any.
Stamp(c, q) == [q EXCEPT !.nonce = c.nonce, !.session = c.session]

Ask(c, handler, q) ==
    /\ client' = [c EXCEPT !.handler = handler, !.last = Stamp(c, q)]
    /\ up' = Append(up, Stamp(c, q))

Start ==
    /\ client.handler = "none" /\ client.state = "Init"
    /\ Ask(client, "handleOption", Plain("OPTIONS"))
    /\ UNCHANGED <<fixed, down, server, over, alive, streamed>>

Started == {"Playing", "Recording"}

\* KeepAlive takes the handler of the response that is being waited for.
KeepAlive ==
    /\ alive < MaxAlive /\ over = "none"
    /\ IF AliveFrom = "start" THEN client.state \in Started ELSE client.session # 0
    /\ alive' = alive + 1
    /\ \/ Ask(client, "handleOption", Plain("OPTIONS"))
       \/ Ask(client, "handleGetParameter", Plain("GET_PARAMETER"))
    /\ UNCHANGED <<fixed, down, server, over, streamed>>

\* The medias sendNextSetup has before it.
Left(c) == {i \in c.step + 1 .. Len(c.medias) : c.tracks[c.medias[i].type].proto # "absent"}

AskSetup(c, i) ==
    LET type == c.medias[i].type
        tr   == Numbered(c.tracks[type], i)
    IN  Ask([c EXCEPT !.tracks[type] = tr, !.step = i], "handleSetup", Request("SETUP", type, tr, <<>>))

SendNextSetup(c) == AskSetup(c, CHOOSE i \in Left(c) : \A j \in Left(c) : i <= j)

-----------------------------------------------------------------------------
(* The server: handleRequest.                                               *)

Asked == Head(up)
Asks(method) == up # <<>> /\ Asked.kind = "request" /\ Asked.method = method

Respond(res) ==
    /\ up' = Tail(up)
    /\ down' = Append(down, res)
    /\ UNCHANGED <<fixed, client, over, alive, streamed>>

Authorized == security = "open" \/ (security = "right" /\ Asked.nonce # 0 /\ Asked.nonce = server.nonce)
InSession  == server.session = 0 \/ Asked.session = server.session
Accepts(method) == Asks(method) /\ Authorized /\ InSession

\* handleUnAuth: every challenge has a nonce of its own.
ServerUnAuth ==
    /\ up # <<>> /\ Asked.kind = "request" /\ ~Authorized
    /\ server' = [server EXCEPT !.nonce = @ + 1]
    /\ Respond([Response("Unauthorized") EXCEPT !.nonce = server.nonce + 1])

ServerNoSession ==
    /\ up # <<>> /\ Asked.kind = "request" /\ Authorized /\ ~InSession
    /\ Respond(Response("Session_Not_Found"))
    /\ UNCHANGED server

\* OPTIONS, GET_PARAMETER: the answer names all methods.
ServerPlain ==
    /\ Accepts("OPTIONS") \/ Accepts("GET_PARAMETER")
    /\ Respond(Response("OK"))
    /\ UNCHANGED server

\* Whatever the application refuses leaves the server as it was.
ServerRefuses ==
    /\ \E method \in Refusals : Accepts(method)
    /\ Respond(Response("Refused"))
    /\ UNCHANGED server

ServerDescribe ==
    /\ Accepts("DESCRIBE")
    /\ Respond([Response("OK") EXCEPT !.medias = server.medias])
    /\ UNCHANGED server

ServerAnnounce ==
    /\ Accepts("ANNOUNCE")
    /\ server' = [server EXCEPT !.medias = Asked.medias, !.tracks = Tracks(Asked.medias, Unset)]
    /\ Respond(Response("OK"))

\* Mutant: every track is given the first channels.
ChannelsFirst(tr) == IF tr.proto = "tcp" THEN [tr EXCEPT !.ch = <<0, 1>>] ELSE tr

\* Interleaved tracks are given the channels after the last one's.
Channels(tr) == IF tr.proto = "tcp" THEN [tr EXCEPT !.ch = <<server.interleaved, server.interleaved + 1>>] ELSE tr

\* The application takes the transport; the first SETUP makes the session.
ServerSetup ==
    /\ Accepts("SETUP")
    /\ LET tr == Channels(Decode(New("tcp"), Asked.tr)) IN
       /\ tr.proto \in takes
       /\ server' = [server EXCEPT !.session = 1, !.tracks[Asked.type] = tr,
                                   !.interleaved = IF tr.proto = "tcp" THEN @ + 2 ELSE @]
       /\ Respond([Response("OK") EXCEPT !.tr = tr, !.session = 1])

ServerWrongTransport ==
    /\ Accepts("SETUP") /\ Asked.tr.proto \notin takes
    /\ Respond(Response("Unsupported_Transport"))
    /\ UNCHANGED server

ServerBegins ==
    /\ Accepts("PLAY") \/ Accepts("RECORD")
    /\ server' = [server EXCEPT !.begun = "accepted"]
    /\ Respond(Response("OK"))

-----------------------------------------------------------------------------
(* The client: handleResponse.  Whatever is not a 401 is given to the       *)
(* handler set last.                                                        *)

Told == Head(down)
Hears == down # <<>> /\ Told.kind = "response" /\ over # "error"
Handles(handler) == Hears /\ Told.status # "Unauthorized" /\ client.handler = handler

Calm == [client EXCEPT !.retry = 0]  \* authRetry is reset

Taken == down' = Tail(down) /\ UNCHANGED <<fixed, server, alive, streamed>>
Quiet(c) == client' = c /\ UNCHANGED up

\* Mutant: the count is not looked at.
MayRetryAlways == TRUE

MayRetry == client.retry < 1

\* handleUnAuth sends the last request again, once.
HandleUnAuth ==
    /\ Hears /\ Told.status = "Unauthorized" /\ MayRetry
    /\ LET again == [client.last EXCEPT !.nonce = Told.nonce] IN
       /\ client' = [client EXCEPT !.retry = @ + 1, !.nonce = Told.nonce, !.last = again]
       /\ up' = Append(up, again)
    /\ Taken /\ UNCHANGED over

\* Mutant: the error is not returned.
HandleUnAuthDropped ==
    /\ Hears /\ Told.status = "Unauthorized" /\ ~MayRetry
    /\ Quiet(client) /\ Taken /\ UNCHANGED over

\* A second 401 in a row is an error.
HandleUnAuthFails ==
    /\ Hears /\ Told.status = "Unauthorized" /\ ~MayRetry
    /\ over' = "error" /\ Quiet(client) /\ Taken

\* The status of the answer is not looked at; in Init the session goes on.
HandleOption ==
    /\ Handles("handleOption")
    /\ IF client.state # "Init" THEN Quiet(Calm)
       ELSE IF mode = "record"
       THEN Ask(Calm, "handleAnnounce", Request("ANNOUNCE", "", Unset, client.medias))
       ELSE Ask(Calm, "handleDescribe", Plain("DESCRIBE"))
    /\ Taken /\ UNCHANGED over

\* The handle, if any, is told of a refusal, and nothing more is sent.
Tell == over' = IF handled THEN "refused" ELSE over

HandleRefusal ==
    /\ \E h \in {"handleDescribe", "handleAnnounce", "handlePlay"} : Handles(h)
    /\ Told.status # "OK"
    /\ Tell /\ Quiet(Calm) /\ Taken

\* The application may set transports on the tracks it is shown.
HandleDescribe ==
    /\ Handles("handleDescribe") /\ Told.status = "OK"
    /\ LET c == [Calm EXCEPT !.medias = Told.medias, !.tracks = Tracks(Told.medias, First(client.prefer))] IN
       IF Left(c) = {} THEN Quiet(c) ELSE SendNextSetup(c)
    /\ Taken /\ UNCHANGED over

HandleAnnounce ==
    /\ Handles("handleAnnounce") /\ Told.status = "OK"
    /\ IF Left(Calm) = {} THEN over' = "error" /\ Quiet(Calm)
       ELSE SendNextSetup(Calm) /\ UNCHANGED over
    /\ Taken

Setting == client.medias[client.step].type  \* the media whose SETUP is answered
Other(p) == IF p = "tcp" THEN "udp" ELSE "tcp"

\* 461, and the handle switches: the same media is asked for again.
HandleSetupSwitch ==
    /\ Handles("handleSetup") /\ Told.status = "Unsupported_Transport"
    /\ handled /\ ~client.switched
    /\ LET p == Other(client.tracks[Setting].proto) IN
       AskSetup([Calm EXCEPT !.switched = TRUE,
                             !.tracks = [t \in Types |-> IF @[t] = Absent THEN Absent ELSE New(p)]], client.step)
    /\ Taken /\ UNCHANGED over

HandleSetupRefused ==
    /\ Handles("handleSetup") /\ Told.status # "OK"
    /\ (Told.status = "Unsupported_Transport" /\ handled) => client.switched
    /\ Tell /\ Quiet(Calm) /\ Taken

\* Mutant: the stream is asked for as soon as one track is set up.
AllSetUpEarly(c) == TRUE

AllSetUp(c) == Left(c) = {}

\* A track is set up, and the next one follows, or PLAY or RECORD.  Only with a
\* handle is the session kept and the transport the server names taken over.
HandleSetup ==
    /\ Handles("handleSetup") /\ Told.status = "OK"
    /\ LET ready == [Calm EXCEPT !.state = "Ready"]
           c     == IF handled THEN [ready EXCEPT !.session = IF @ = 0 THEN Told.session ELSE @,
                                                  !.tracks[Setting] = Decode(@, Told.tr)] ELSE ready
       IN  IF handled /\ Told.session = 0 THEN over' = "error" /\ Quiet(ready)
           ELSE /\ UNCHANGED over
                /\ IF ~AllSetUp(c) THEN SendNextSetup(c)
                   ELSE IF mode = "record" THEN Ask(c, "handlePlay", Plain("RECORD"))
                   ELSE Ask(c, "handlePlay", Plain("PLAY"))
    /\ Taken

\* handlePlay and handleRecord, which differ in the state they lead to.
HandlePlay ==
    /\ Handles("handlePlay") /\ Told.status = "OK"
    /\ Quiet([Calm EXCEPT !.state = IF mode = "record" THEN "Recording" ELSE "Playing"])
    /\ Taken /\ UNCHANGED over

HandleGetParameter ==
    /\ Handles("handleGetParameter")
    /\ Quiet(Calm) /\ Taken /\ UNCHANGED over

-----------------------------------------------------------------------------
(* Media.                                                                   *)

Interleaved(tracks) == {t \in Types : tracks[t].proto = "tcp"}

\* The server's application writes once it has accepted PLAY, before the answer
\* is out even; the client's once it is Recording.
ServerWrites ==
    /\ mode = "play" /\ server.begun = "accepted" /\ streamed < MaxMedia
    /\ streamed' = streamed + 1
    /\ \E t \in Interleaved(server.tracks) :
          \/ down' = Append(down, Packet("rtp", t, server.tracks[t].ch[1]))
          \/ down' = Append(down, Packet("report", t, server.tracks[t].ch[2]))
    /\ UNCHANGED <<fixed, up, client, server, over, alive>>

ClientWrites ==
    /\ client.state = "Recording" /\ over = "none" /\ streamed < MaxMedia
    /\ streamed' = streamed + 1
    /\ \E t \in Interleaved(client.tracks) :
          \/ up' = Append(up, Packet("rtp", t, client.tracks[t].ch[1]))
          \/ up' = Append(up, Packet("report", t, client.tracks[t].ch[2]))
    /\ UNCHANGED <<fixed, down, client, server, over, alive>>

\* The tracks a packet may be given to: the first one met in the map.
Routes(tracks, m) == {t \in Types : Ready(tracks[t]) /\ \E n \in 1 .. 2 : tracks[t].ch[n] = m.ch}
IsRtcp(tracks, t, m) == tracks[t].ch[2] = m.ch

\* What the track does with a packet: RTP makes its receive context, a sender
\* report is answered on the channel of the track if there is one.
Answers(x, t, m) == m.kind = "report" /\ IsRtcp(x.tracks, t, m) /\ t \in x.heard
Heard(x, t, m) == IF IsRtcp(x.tracks, t, m) THEN x ELSE [x EXCEPT !.heard = @ \cup {t}]

ClientReads ==
    /\ down # <<>> /\ Told.kind \in {"rtp", "report", "answer"} /\ over # "error"
    /\ down' = Tail(down)
    /\ \/ /\ Routes(client.tracks, Told) = {}
          /\ UNCHANGED <<client, up>>
       \/ \E t \in Routes(client.tracks, Told) :
             /\ client' = Heard(client, t, Told)
             /\ up' = IF Answers(client, t, Told)
                      THEN Append(up, Packet("answer", t, client.tracks[t].ch[2])) ELSE up
    /\ UNCHANGED <<fixed, server, over, alive, streamed>>

ServerReads ==
    /\ up # <<>> /\ Asked.kind \in {"rtp", "report", "answer"}
    /\ up' = Tail(up)
    /\ \/ /\ Routes(server.tracks, Asked) = {}
          /\ UNCHANGED <<server, down>>
       \/ \E t \in Routes(server.tracks, Asked) :
             /\ server' = Heard(server, t, Asked)
             /\ down' = IF Answers(server, t, Asked)
                        THEN Append(down, Packet("answer", t, server.tracks[t].ch[2])) ELSE down
    /\ UNCHANGED <<fixed, client, over, alive, streamed>>

-----------------------------------------------------------------------------
ServerHandles ==
    \/ ServerUnAuth \/ ServerNoSession \/ ServerPlain \/ ServerRefuses \/ ServerDescribe \/ ServerAnnounce
    \/ ServerSetup \/ ServerWrongTransport \/ ServerBegins \/ ServerReads

ClientHandles ==
    \/ HandleUnAuth \/ HandleUnAuthFails \/ HandleOption \/ HandleRefusal \/ HandleDescribe \/ HandleAnnounce
    \/ HandleSetupSwitch \/ HandleSetupRefused \/ HandleSetup \/ HandlePlay \/ HandleGetParameter \/ ClientReads

Next == Start \/ KeepAlive \/ ServerWrites \/ ClientWrites \/ ServerHandles \/ ClientHandles

Spec == Init /\ [][Next]_vars

\* The client starts, and both applications read what arrives.
Fairness == WF_vars(Start) /\ WF_vars(ServerHandles) /\ WF_vars(ClientHandles)
FairSpec == Spec /\ Fairness

-----------------------------------------------------------------------------
(* Properties.                                                              *)

\* The fields keep their types: step is a media of the description, and a
\* request is sent with credentials again once at most.
TypeOK ==
    /\ client.state \in {"Init", "Ready"} \cup Started
    /\ client.retry \in 0 .. 1
    /\ client.session \in {0, server.session}
    /\ client.step \in 0 .. Len(client.medias)
    /\ \A t \in Types : /\ client.tracks[t].proto \in {"absent", "unset", "tcp", "udp"}
                        /\ server.tracks[t].proto \in {"absent", "unset", "tcp", "udp"}
    /\ server.begun \in {"no", "accepted"}
    /\ over \in {"none", "refused", "error"}

\* A client that is Playing or Recording has been accepted by the server, with
\* every track of the description set up on both sides over the same transport
\* and the same channels (sendNextSetup, handleSetup, SETUP of handleRequest).
StartAgreed ==
    client.state \in Started =>
        /\ server.begun = "accepted" /\ client.session = server.session
        /\ \A t \in Known(client.medias) : Ready(client.tracks[t]) /\ client.tracks[t] = server.tracks[t]

\* An interleaved packet reaches the track it was written for and no other, as
\* what it is, RTP or RTCP, whatever numbers were asked for and however many
\* medias were left out (handlRtpOverRtsp, hanleRtpOverRtsp).
RoutedRight(tracks, wire) ==
    wire # <<>> /\ Head(wire).kind \in {"rtp", "report", "answer"} =>
        /\ Routes(tracks, Head(wire)) = {Head(wire).type}
        /\ IsRtcp(tracks, Head(wire).type, Head(wire)) = (Head(wire).kind # "rtp")

MediaRouted == RoutedRight(client.tracks, down) /\ RoutedRight(server.tracks, up)

\* A client that was started learns how it ends: it streams, or its application
\* is told why not (handleResponse and its handlers).  Left out are a client
\* without a handle, which never sends the session it was given, and a
\* description without any media of a known codec: the client stops after it.
Undecided ==
    /\ handled /\ client.handler # "none" /\ client.state \notin Started /\ over = "none"
    /\ client.medias # <<>> => Known(client.medias) # {}

SessionDecided == ~<>[]Undecided

\* Play's comment: "PLAY is sent automatically once every track has been set
\* up."  When nothing is under way any more it has been.
PlayAutomatic ==
    (/\ up = <<>> /\ down = <<>> /\ client.state = "Ready"
     /\ \A t \in Known(server.medias) : Ready(server.tracks[t]))
        => server.begun = "accepted" \/ over # "none"
================================================================================
