--------------------------- MODULE RtspSessionProofs ---------------------------
(***************************************************************************)
(* Proofs about RtspSession: a stream that has started is agreed on, and   *)
(* its interleaved packets reach their tracks, for every description,      *)
(* transport and refusal, with KeepAlive used as AliveFrom = "start" says. *)
(***************************************************************************)
EXTENDS RtspSession, SequenceTheorems, WellFoundedInduction, TLAPS

-------------------------------------------------------------------------------
(* The inductive invariant.                                                  *)

Lists     == Offers \cup {<<>>}
Protos    == {"absent", "unset", "tcp", "udp"}
Transport == [proto : Protos, ch : Nat \X Nat]
Methods   == {"none", "OPTIONS", "GET_PARAMETER", "DESCRIBE", "ANNOUNCE", "SETUP", "PLAY", "RECORD"}
Handlers  == {"none", "handleOption", "handleGetParameter", "handleDescribe", "handleAnnounce",
              "handleSetup", "handlePlay"}
Statuses  == {"OK", "Refused", "Unauthorized", "Session_Not_Found", "Unsupported_Transport"}

Requests  == [kind : {"request"}, method : Methods, type : Types \cup {""}, tr : Transport,
              medias : Lists, nonce : Nat, session : {0, 1}]
Responses == [kind : {"response"}, status : Statuses, medias : Lists, session : {0, 1},
              tr : Transport, nonce : Nat]
Media     == [kind : {"rtp", "report", "answer"}, type : Types, ch : Nat]

Clients == [state : {"Init", "Ready"} \cup Started, handler : Handlers, last : Requests,
            nonce : Nat, retry : {0, 1}, session : {0, 1}, step : Nat, medias : Lists,
            tracks : [Types -> Transport], prefer : {"unset", "tcp", "udp"},
            switched : BOOLEAN, heard : SUBSET Types]
Servers == [session : {0, 1}, nonce : Nat, interleaved : Nat, medias : Lists,
            tracks : [Types -> Transport], heard : SUBSET Types, begun : {"no", "accepted"}]

\* The fields have their types.
Typed ==
    /\ handled \in BOOLEAN /\ takes \subseteq {"tcp", "udp"}
    /\ client \in Clients /\ client.step <= Len(client.medias)
    /\ server \in Servers
    /\ up \in Seq(Requests \cup Media) /\ down \in Seq(Responses \cup Media)
    /\ over \in {"none", "refused", "error"}

\* The tracks of a client are those of its medias, and only interleaved ones
\* have channels.
Made(c) ==
    \A t \in Types : /\ c.tracks[t].proto = "absent" <=> t \notin Known(c.medias)
                     /\ c.tracks[t].proto # "tcp" => c.tracks[t].ch = <<0, 0>>
                     /\ Ready(server.tracks[t]) => t \in Known(c.medias)

\* What a track without a transport asks for.
Eff(tr) == IF tr.proto = "unset" THEN "tcp" ELSE tr.proto

\* All tracks of a session use one transport, whatever the handle switches.
One(c) ==
    \A t, u \in Known(c.medias) :
        /\ Eff(c.tracks[t]) = Eff(c.tracks[u])
        /\ Ready(server.tracks[t]) => server.tracks[t].proto = Eff(c.tracks[u])

\* A server track is set up within a session, over a transport it takes.
ServerMade ==
    \A t \in Types : /\ server.tracks[t].proto # "tcp" => server.tracks[t].ch = <<0, 0>>
                     /\ Ready(server.tracks[t]) => /\ server.tracks[t].proto \in takes
                                                   /\ server.session = 1

\* Interleaved tracks of the server have channels of their own.
ChannelsApart ==
    \A t \in Types : server.tracks[t].proto = "tcp" =>
        LET ch == server.tracks[t].ch IN
        /\ ch[2] = ch[1] + 1 /\ ch[2] < server.interleaved
        /\ \A u \in Types \ {t} : server.tracks[u].proto = "tcp" =>
              ch[2] < server.tracks[u].ch[1] \/ server.tracks[u].ch[2] < ch[1]

Streaming == client.state \in Started
OnWire(wire, kind) == {i \in DOMAIN wire : wire[i].kind = kind}
Asking    == OnWire(up, "request")
Answered  == OnWire(down, "response")

\* How far a client is whose stream has not started, by the handler of the
\* response that it waits for, if it waits for one.
Stage ==
    LET h == client.handler
        q == client.last
    IN  /\ q.session = client.session
        /\ client.session # 0 => handled /\ server.session = 1
        /\ ~Streaming =>
             /\ h \in {"none", "handleOption", "handleDescribe", "handleAnnounce"} =>
                   /\ client.state = "Init" /\ client.step = 0 /\ server.session = 0
                   /\ \A t \in Types : ~Ready(server.tracks[t])
             /\ h = "none" => Asking = {} /\ Answered = {}
             /\ h # "handleGetParameter"
             /\ h = "handleOption" => q.method = "OPTIONS"
             /\ h = "handleDescribe" => q.method = "DESCRIBE"
             /\ h = "handleAnnounce" => q.method = "ANNOUNCE" /\ q.medias = client.medias
             /\ h = "handleSetup" => /\ q.method = "SETUP" /\ client.step \in 1 .. Len(client.medias)
                                     /\ q.type = Setting /\ q.tr = client.tracks[Setting]
                                     /\ Ready(client.tracks[Setting])
             /\ h = "handlePlay" => /\ q.method \in {"PLAY", "RECORD"} /\ client.state = "Ready"
                                    /\ server.session = 1
        /\ Streaming =>
             \/ h = "handlePlay" /\ Asking = {} /\ Answered = {}
             \/ /\ h \in {"handleOption", "handleGetParameter"}
                /\ q.method \in {"OPTIONS", "GET_PARAMETER"}

\* The client asks one thing at a time until the stream has started, and then
\* for nothing that would change the session.
AsAsked ==
    /\ ~Streaming => /\ \A i, j \in Asking : i = j
                     /\ \A i, j \in Answered : i = j
                     /\ Asking = {} \/ Answered = {}
                     /\ \A i \in Asking : up[i] = client.last
    /\ Streaming => \A i \in Asking : up[i].method \in {"OPTIONS", "GET_PARAMETER"}

\* What a response says is still so when it arrives.
StillSo(r) ==
    /\ client.handler = "handleDescribe" /\ r.status = "OK" => r.medias = server.medias
    /\ client.handler = "handleSetup" /\ r.status = "OK" =>
          /\ r.session = 1 /\ server.session = 1
          /\ r.tr = server.tracks[Setting] /\ Ready(r.tr)
    /\ r.status = "Unsupported_Transport" =>
          client.handler = "handleSetup" /\ client.tracks[Setting].proto \notin takes
    /\ client.handler = "handlePlay" /\ r.status = "OK" => server.begun = "accepted"
AsAnswered == ~Streaming => \A i \in Answered : StillSo(down[i])

\* The tracks that are set up: those before the one being set up, then all.
SetUp ==
    IF Streaming \/ client.handler = "handlePlay" THEN Known(client.medias)
    ELSE IF client.handler = "handleSetup"
         THEN {client.medias[i].type : i \in 1 .. (client.step - 1)} \cap Known(client.medias)
    ELSE {}

\* Both sides have the same transport and channels for them.
Alike == handled => \A t \in SetUp : Ready(client.tracks[t]) /\ client.tracks[t] = server.tracks[t]

\* A server that accepted PLAY or RECORD did so for a client of its session.
Begun ==
    /\ Streaming => server.begun = "accepted"
    /\ server.begun = "accepted" =>
         /\ Streaming \/ client.handler = "handlePlay"
         /\ client.session = 1 /\ server.session = 1

\* A packet is on its track's channel, RTP or RTCP.
OnTrack(m) ==
    /\ server.begun = "accepted" /\ server.tracks[m.type].proto = "tcp"
    /\ m.ch = server.tracks[m.type].ch[IF m.kind = "rtp" THEN 1 ELSE 2]
OnChannel(wire) ==
    \A i \in DOMAIN wire : wire[i].kind \notin {"request", "response"} => OnTrack(wire[i])
PacketsRight == OnChannel(up) /\ OnChannel(down)

SessionInv ==
    /\ Typed /\ Made(client) /\ One(client) /\ ServerMade /\ ChannelsApart
    /\ Stage /\ AsAsked /\ AsAnswered /\ Alike /\ Begun /\ PacketsRight

-------------------------------------------------------------------------------
(* Sequences of messages.                                                    *)

\* A message is taken from a direction of the connection (Input).
LEMMA TailWire ==
    ASSUME NEW S, NEW s \in Seq(S), s # <<>>
    PROVE  /\ Head(s) \in S /\ Head(s) = s[1] /\ 1 \in DOMAIN s
           /\ Tail(s) \in Seq(S)
           /\ \A i \in DOMAIN Tail(s) : i + 1 \in DOMAIN s /\ i + 1 # 1 /\ Tail(s)[i] = s[i + 1]
<1>1. Len(s) \in Nat /\ Len(s) # 0 /\ DOMAIN s = 1 .. Len(s) OBVIOUS
<1>2. Tail(s) \in Seq(S) /\ Len(Tail(s)) = Len(s) - 1 BY <1>1
<1>3. DOMAIN Tail(s) = 1 .. (Len(s) - 1) BY <1>2
<1>4. ASSUME NEW i \in DOMAIN Tail(s) PROVE i + 1 \in DOMAIN s /\ i + 1 # 1 /\ Tail(s)[i] = s[i + 1]
  BY <1>1, <1>3
<1>5. Head(s) = s[1] /\ 1 \in DOMAIN s /\ s[1] \in S BY <1>1
<1> QED BY <1>2, <1>4, <1>5

\* A message is written to the connection.
LEMMA AppendWire ==
    ASSUME NEW S, NEW s \in Seq(S), NEW e \in S
    PROVE  /\ Append(s, e) \in Seq(S)
           /\ DOMAIN Append(s, e) = DOMAIN s \cup {Len(s) + 1}
           /\ Len(s) + 1 \notin DOMAIN s
           /\ Append(s, e)[Len(s) + 1] = e
           /\ \A i \in DOMAIN s : Append(s, e)[i] = s[i]
<1>1. Len(s) \in Nat /\ DOMAIN s = 1 .. Len(s) OBVIOUS
<1>2. /\ Append(s, e) \in Seq(S) /\ Len(Append(s, e)) = Len(s) + 1
      /\ \A i \in 1 .. (Len(s) + 1) : Append(s, e)[i] = IF i <= Len(s) THEN s[i] ELSE e
  BY <1>1
<1>3. DOMAIN Append(s, e) = 1 .. (Len(s) + 1) BY <1>1, <1>2
<1> QED BY <1>1, <1>2, <1>3

-------------------------------------------------------------------------------
(* Medias and the ones left to set up.                                       *)

\* The medias of a description have types of their own.
LEMMA ListFacts ==
    ASSUME RtspAssumption, NEW o \in Lists
    PROVE  /\ Len(o) \in Nat /\ DOMAIN o = 1 .. Len(o)
           /\ \A i \in 1 .. Len(o) : o[i] \in [type : Types, known : BOOLEAN] /\ o[i].type \in Types
           /\ \A i, j \in 1 .. Len(o) : i # j => o[i].type # o[j].type
           /\ Known(o) \subseteq Types
<1> DEFINE M == [type : Types, known : BOOLEAN]
<1>1. o \in Seq(M)
  <2>1. CASE o \in Offers BY <2>1 DEF RtspAssumption
  <2>2. CASE o = <<>> BY <2>2
  <2> QED BY <2>1, <2>2 DEF Lists
<1>2. Len(o) \in Nat /\ DOMAIN o = 1 .. Len(o) BY <1>1
<1>3. \A i \in 1 .. Len(o) : o[i] \in M /\ o[i].type \in Types
  <2>1. \A i \in 1 .. Len(o) : o[i] \in M BY <1>1, <1>2, ElementOfSeq
  <2>2. \A x \in M : x.type \in Types OBVIOUS
  <2> QED BY <2>1, <2>2
<1>4. \A i, j \in 1 .. Len(o) : i # j => o[i].type # o[j].type
  <2>1. CASE o \in Offers BY <2>1 DEF RtspAssumption
  <2>2. CASE o = <<>> BY <2>2
  <2> QED BY <2>1, <2>2 DEF Lists
<1>5. Known(o) \subseteq Types BY <1>3 DEF Known
<1> QED BY <1>2, <1>3, <1>4, <1>5

\* Some number is the least of a set of them.
LEMMA Least ==
    ASSUME NEW L, L \subseteq Nat, L # {}
    PROVE  \E n \in L : \A m \in L : n <= m
<1>1. PICK n \in L : \A m \in L : ~ (<<m, n>> \in OpToRel(<, Nat))
  BY NatLessThanWellFounded, WFMin, Zenon
<1>2. ASSUME NEW m \in L PROVE n <= m
  <2>1. m \in Nat /\ n \in Nat OBVIOUS
  <2>2. ~ (m < n) BY <1>1, <2>1, Zenon DEF OpToRel
  <2> QED BY <2>1, <2>2
<1> QED BY <1>2

\* sendNextSetup asks for the first of the medias that are left.
LEMMA NextLeft ==
    ASSUME NEW c, c.step \in Nat, Left(c) # {},
           NEW m, m = CHOOSE i \in Left(c) : \A j \in Left(c) : i <= j
    PROVE  m \in Left(c) /\ \A j \in Left(c) : m <= j
<1>1. Left(c) \in SUBSET Nat
  <2>1. ASSUME NEW i \in Left(c) PROVE i \in Nat BY DEF Left
  <2> QED BY <2>1
<1>2. \E i \in Left(c) : \A j \in Left(c) : i <= j BY <1>1, Least
<1> QED BY <1>2, Zenon

-------------------------------------------------------------------------------
(* Steps that leave the session as it is.                                    *)

\* What the invariant looks at, but for the connection and the last request.
SameClient == UNCHANGED <<client.state, client.handler, client.session, client.step,
                          client.medias, client.tracks>>
SameServer == UNCHANGED <<server.session, server.interleaved, server.medias, server.tracks,
                          server.begun>>

\* The invariant of what they have set up stays.
LEMMA SameSession ==
    ASSUME SessionInv, SameClient, SameServer, UNCHANGED fixed
    PROVE  /\ Made(client)' /\ One(client)' /\ ServerMade' /\ ChannelsApart' /\ Alike' /\ Begun'
           /\ Setting' = Setting /\ Streaming' = Streaming
<1> USE DEF SameClient, SameServer, fixed
<1>1. Made(client)' BY DEF SessionInv, Made
<1>2. One(client)' BY DEF SessionInv, One
<1>3. ServerMade' BY DEF SessionInv, ServerMade
<1>4. ChannelsApart' BY DEF SessionInv, ChannelsApart
<1>5. Setting' = Setting /\ Streaming' = Streaming BY DEF Setting, Streaming
<1>6. Alike' BY <1>5 DEF SessionInv, Alike, SetUp
<1>7. Begun' BY <1>5 DEF SessionInv, Begun
<1> QED BY <1>1, <1>2, <1>3, <1>4, <1>5, <1>6, <1>7

\* How far the client is stays, too, if it repeats at most its last request.
LEMMA SameStage ==
    ASSUME SessionInv, SameClient, SameServer, UNCHANGED fixed,
           UNCHANGED <<client.last.method, client.last.type, client.last.tr, client.last.medias,
                       client.last.session>>,
           Asking \cup Answered = {} => Asking' \cup Answered' = {}
    PROVE  Stage'
<1>1. Setting' = Setting /\ Streaming' = Streaming BY SameSession
<1>2. Asking = {} /\ Answered = {} => Asking' = {} /\ Answered' = {} OBVIOUS
<1> QED BY <1>1, <1>2 DEF SessionInv, Stage, SameClient, SameServer, fixed

\* Packets keep their channel while the tracks of the server stay.
LEMMA PacketsStay ==
    ASSUME SessionInv,
           server.begun = "accepted" => server'.begun = "accepted" /\ UNCHANGED server.tracks,
           \A i \in DOMAIN up' : \/ up'[i].kind \in {"request", "response"} \/ OnTrack(up'[i])
                                 \/ \E j \in DOMAIN up : up'[i] = up[j],
           \A i \in DOMAIN down' : \/ down'[i].kind \in {"request", "response"} \/ OnTrack(down'[i])
                                   \/ \E j \in DOMAIN down : down'[i] = down[j]
    PROVE  PacketsRight'
<1>1. OnChannel(up)' BY DEF SessionInv, PacketsRight, OnChannel, OnTrack
<1>2. OnChannel(down)' BY DEF SessionInv, PacketsRight, OnChannel, OnTrack
<1> QED BY <1>1, <1>2 DEF PacketsRight

-------------------------------------------------------------------------------
(* The connection.                                                           *)

\* What is left of one kind when a message is taken.
LEMMA Popped ==
    ASSUME NEW S, NEW s \in Seq(S), s # <<>>, NEW kind
    PROVE  /\ \A i \in OnWire(Tail(s), kind) : i + 1 \in OnWire(s, kind) /\ i + 1 # 1 /\ Tail(s)[i] = s[i + 1]
           /\ Head(s).kind = kind => 1 \in OnWire(s, kind)
           /\ \A i \in DOMAIN Tail(s) : \E j \in DOMAIN s : Tail(s)[i] = s[j]
<1> QED BY TailWire DEF OnWire

\* What there is of one kind when a message is added.
LEMMA Pushed ==
    ASSUME NEW S, NEW s \in Seq(S), NEW e \in S, NEW kind
    PROVE  /\ e.kind # kind => OnWire(Append(s, e), kind) = OnWire(s, kind)
           /\ e.kind = kind => OnWire(Append(s, e), kind) = OnWire(s, kind) \cup {Len(s) + 1}
           /\ Append(s, e)[Len(s) + 1] = e
           /\ \A i \in OnWire(s, kind) : Append(s, e)[i] = s[i]
           /\ \A i \in DOMAIN Append(s, e) : Append(s, e)[i] = e \/ \E j \in DOMAIN s : Append(s, e)[i] = s[j]
<1> QED BY AppendWire DEF OnWire

\* A request or response is added after the others.
LEMMA PushedKind ==
    ASSUME NEW S, NEW s \in Seq(S), NEW e \in S
    PROVE  OnWire(Append(s, e), e.kind) = OnWire(s, e.kind) \cup {Len(s) + 1}
<1> QED BY Pushed

\* A message of another kind moves none.
LEMMA PushedOther ==
    ASSUME NEW S, NEW s \in Seq(S), NEW e \in S, NEW kind, e.kind # kind
    PROVE  \A i \in OnWire(Append(s, e), kind) : i + 0 \in OnWire(s, kind) /\ Append(s, e)[i] = s[i + 0]
<1>1. ASSUME NEW i \in OnWire(s, kind) PROVE i + 0 = i BY DEF OnWire
<1>2. OnWire(Append(s, e), kind) = OnWire(s, kind) BY Pushed
<1>3. \A i \in OnWire(s, kind) : Append(s, e)[i] = s[i] BY AppendWire DEF OnWire
<1> QED BY <1>1, <1>2, <1>3

\* Nothing happens to the messages of a direction that is not used.
LEMMA Untouched ==
    ASSUME NEW s, NEW kind, DOMAIN s \subseteq Nat
    PROVE  \A i \in OnWire(s, kind) : i + 0 \in OnWire(s, kind) /\ s[i] = s[i + 0]
<1>1. ASSUME NEW i \in OnWire(s, kind) PROVE i + 0 = i BY DEF OnWire
<1> QED BY <1>1

\* The first message is a response, and the only one before the stream starts.
LEMMA ToldFacts ==
    ASSUME SessionInv, Hears
    PROVE  /\ 1 \in Answered /\ Told = down[1] /\ Told \in Responses
           /\ Tail(down) \in Seq(Responses \cup Media)
           /\ \A i \in OnWire(Tail(down), "response") : i + 1 \in Answered /\ i + 1 # 1 /\ Tail(down)[i] = down[i + 1]
           /\ \A i \in DOMAIN Tail(down) : \E j \in DOMAIN down : Tail(down)[i] = down[j]
           /\ ~Streaming => Asking = {} /\ Answered = {1} /\ OnWire(Tail(down), "response") = {}
<1>1. down \in Seq(Responses \cup Media) /\ down # <<>> /\ Told.kind = "response"
  BY DEF SessionInv, Typed, Hears
<1>2. Told \in Responses \cup Media /\ Told = down[1] /\ Tail(down) \in Seq(Responses \cup Media)
  BY <1>1, TailWire DEF Told
<1>3. Told \in Responses BY <1>1, <1>2 DEF Responses, Media
<1>4. /\ \A i \in OnWire(Tail(down), "response") : i + 1 \in Answered /\ i + 1 # 1 /\ Tail(down)[i] = down[i + 1]
      /\ 1 \in Answered
      /\ \A i \in DOMAIN Tail(down) : \E j \in DOMAIN down : Tail(down)[i] = down[j]
  BY <1>1, Popped DEF Answered, Told
<1>5. ASSUME ~Streaming PROVE Asking = {} /\ Answered = {1} /\ OnWire(Tail(down), "response") = {}
  <2>1. (\A i, j \in Answered : i = j) /\ (Asking = {} \/ Answered = {}) BY <1>5 DEF SessionInv, AsAsked
  <2> QED BY <2>1, <1>4
<1> QED BY <1>2, <1>3, <1>4, <1>5

\* The first message is a request, and the only one before the stream starts.
LEMMA AskedFacts ==
    ASSUME SessionInv, up # <<>>, Asked.kind = "request"
    PROVE  /\ 1 \in Asking /\ Asked = up[1] /\ Asked \in Requests
           /\ Tail(up) \in Seq(Requests \cup Media)
           /\ \A i \in OnWire(Tail(up), "request") : i + 1 \in Asking /\ i + 1 # 1 /\ Tail(up)[i] = up[i + 1]
           /\ \A i \in DOMAIN Tail(up) : \E j \in DOMAIN up : Tail(up)[i] = up[j]
           /\ ~Streaming => /\ Asking = {1} /\ Answered = {} /\ OnWire(Tail(up), "request") = {}
                            /\ Asked = client.last
           /\ Streaming => Asked.method \in {"OPTIONS", "GET_PARAMETER"}
<1>1. up \in Seq(Requests \cup Media) BY DEF SessionInv, Typed
<1>2. Asked \in Requests \cup Media /\ Asked = up[1] /\ Tail(up) \in Seq(Requests \cup Media)
  BY <1>1, TailWire DEF Asked
<1>3. Asked \in Requests BY <1>2 DEF Requests, Media
<1>4. /\ \A i \in OnWire(Tail(up), "request") : i + 1 \in Asking /\ i + 1 # 1 /\ Tail(up)[i] = up[i + 1]
      /\ 1 \in Asking
      /\ \A i \in DOMAIN Tail(up) : \E j \in DOMAIN up : Tail(up)[i] = up[j]
  BY <1>1, Popped DEF Asking, Asked
<1>5. ASSUME ~Streaming
      PROVE  Asking = {1} /\ Answered = {} /\ OnWire(Tail(up), "request") = {} /\ Asked = client.last
  <2>1. (\A i, j \in Asking : i = j) /\ (Asking = {} \/ Answered = {}) /\ \A i \in Asking : up[i] = client.last
    BY <1>5 DEF SessionInv, AsAsked
  <2> QED BY <2>1, <1>2, <1>4
<1>6. Streaming => Asked.method \in {"OPTIONS", "GET_PARAMETER"} BY <1>2, <1>4 DEF SessionInv, AsAsked
<1> QED BY <1>2, <1>3, <1>4, <1>5, <1>6

-------------------------------------------------------------------------------
(* The client hears a response.                                              *)

\* It leaves the session as it is and asks for nothing.
LEMMA HearsQuiet ==
    ASSUME SessionInv, Hears, Taken, up' = up, SameClient, UNCHANGED client.last,
           client' \in Clients, over' \in {"none", "refused", "error"}
    PROVE  SessionInv'
<1>1. SameServer /\ UNCHANGED <<server, fixed>> /\ down' = Tail(down) BY DEF Taken, SameServer
<1>2. /\ Made(client)' /\ One(client)' /\ ServerMade' /\ ChannelsApart' /\ Alike' /\ Begun'
      /\ Setting' = Setting /\ Streaming' = Streaming
  BY <1>1, SameSession
<1>3. Asking' = Asking /\ Answered' = OnWire(Tail(down), "response") BY <1>1 DEF Asking, Answered
<1>4. Stage'
  <2>1. Asking \cup Answered # {} BY ToldFacts
  <2> QED BY <1>1, <2>1, SameStage
<1>5. Typed' BY <1>1, ToldFacts DEF SessionInv, Typed, fixed, SameClient
<1>6. AsAsked'
  <2>1. CASE Streaming BY <2>1, <1>2, <1>3 DEF SessionInv, AsAsked
  <2>2. CASE ~Streaming BY <2>2, <1>2, <1>3, ToldFacts DEF AsAsked
  <2> QED BY <2>1, <2>2
<1>7. AsAnswered'
  <2>1. ASSUME ~Streaming' PROVE Answered' = {} BY <2>1, <1>2, <1>3, ToldFacts
  <2> QED BY <2>1 DEF AsAnswered
<1>8. PacketsRight'
  <2>1. \A i \in DOMAIN up' : \E j \in DOMAIN up : up'[i] = up[j] OBVIOUS
  <2>2. \A i \in DOMAIN down' : \E j \in DOMAIN down : down'[i] = down[j] BY <1>1, ToldFacts
  <2> QED BY <1>1, <2>1, <2>2, PacketsStay
<1> QED BY <1>2, <1>4, <1>5, <1>6, <1>7, <1>8 DEF SessionInv

\* It asks for the next thing, and nothing else is under way then.
LEMMA HearsAsks ==
    ASSUME SessionInv, Hears, Taken, ~Streaming, ~Streaming', client'.last \in Requests,
           up' = Append(up, client'.last)
    PROVE  /\ up' \in Seq(Requests \cup Media) /\ down' \in Seq(Responses \cup Media)
           /\ Answered' = {} /\ AsAsked' /\ AsAnswered' /\ PacketsRight'
<1>0. PICK q \in Requests : q = client'.last /\ up' = Append(up, q) OBVIOUS
<1>1. UNCHANGED <<server, fixed>> /\ down' = Tail(down) BY DEF Taken
<1>2. up \in Seq(Requests \cup Media) /\ q \in Requests \cup Media /\ q.kind = "request"
  BY DEF SessionInv, Typed, Requests
<1>3. Answered' = {} /\ Asking = {} BY <1>1, ToldFacts DEF Answered
<1>4. /\ Asking' = Asking \cup {Len(up) + 1} /\ up'[Len(up) + 1] = q
      /\ \A i \in DOMAIN up' : up'[i] = q \/ \E j \in DOMAIN up : up'[i] = up[j]
  BY <1>0, <1>2, Pushed DEF Asking
<1>5. AsAsked' BY <1>0, <1>3, <1>4 DEF AsAsked
<1>6. AsAnswered' BY <1>3 DEF AsAnswered
<1>7. PacketsRight'
  <2>1. \A i \in DOMAIN down' : \E j \in DOMAIN down : down'[i] = down[j] BY <1>1, ToldFacts
  <2> QED BY <1>1, <1>2, <1>4, <2>1, PacketsStay
<1>8. up' \in Seq(Requests \cup Media) /\ down' \in Seq(Responses \cup Media)
  BY <1>0, <1>1, <1>2, AppendWire, ToldFacts
<1> QED BY <1>3, <1>5, <1>6, <1>7, <1>8

-------------------------------------------------------------------------------
(* The server answers.                                                       *)

\* The response takes the place of the request on the connection.
LEMMA Responds ==
    ASSUME SessionInv, up # <<>>, Asked.kind = "request", NEW res \in Responses, Respond(res),
           server.begun = "accepted" => server'.begun = "accepted" /\ UNCHANGED server.tracks
    PROVE  /\ up' \in Seq(Requests \cup Media) /\ down' \in Seq(Responses \cup Media)
           /\ UNCHANGED <<client, fixed, over, Streaming, Setting>>
           /\ Answered' # {}
           /\ (~Streaming => StillSo(res)') => AsAnswered'
           /\ AsAsked' /\ PacketsRight'
<1>1. UNCHANGED <<client, fixed, over>> /\ up' = Tail(up) /\ down' = Append(down, res) BY DEF Respond
<1>2. Streaming' = Streaming /\ Setting' = Setting BY <1>1 DEF Streaming, Setting
<1>3. down \in Seq(Responses \cup Media) /\ res \in Responses \cup Media /\ res.kind = "response"
  BY DEF SessionInv, Typed, Responses
<1>4. /\ Answered' = Answered \cup {Len(down) + 1} /\ down'[Len(down) + 1] = res
      /\ \A i \in DOMAIN down' : down'[i] = res \/ \E j \in DOMAIN down : down'[i] = down[j]
  <2>1. OnWire(Append(down, res), "response") = OnWire(down, "response") \cup {Len(down) + 1}
    BY <1>3, PushedKind
  <2>2. /\ Append(down, res)[Len(down) + 1] = res
        /\ \A i \in DOMAIN Append(down, res) : \/ Append(down, res)[i] = res
                                               \/ \E j \in DOMAIN down : Append(down, res)[i] = down[j]
    BY <1>3, Pushed
  <2> QED BY <1>1, <2>1, <2>2 DEF Answered
<1>5. Asking' = OnWire(Tail(up), "request") BY <1>1 DEF Asking
<1>6. AsAsked'
  <2>1. CASE Streaming BY <2>1, <1>1, <1>2, <1>5, AskedFacts DEF SessionInv, AsAsked
  <2>2. CASE ~Streaming BY <2>2, <1>2, <1>4, <1>5, AskedFacts DEF AsAsked
  <2> QED BY <2>1, <2>2
<1>7. (~Streaming => StillSo(res)') => AsAnswered'
  <2>1. SUFFICES ASSUME ~Streaming, StillSo(res)' PROVE AsAnswered' BY <1>2 DEF AsAnswered
  <2>2. Answered' = {Len(down) + 1} BY <2>1, <1>4, AskedFacts
  <2> QED BY <2>1, <2>2, <1>4 DEF AsAnswered
<1>8. PacketsRight'
  <2>1. \A i \in DOMAIN up' : \E j \in DOMAIN up : up'[i] = up[j] BY <1>1, AskedFacts
  <2> QED BY <1>3, <1>4, <2>1, PacketsStay
<1>9. up' \in Seq(Requests \cup Media) /\ down' \in Seq(Responses \cup Media)
  BY <1>1, <1>3, AppendWire, AskedFacts
<1> QED BY <1>1, <1>2, <1>4, <1>6, <1>7, <1>8, <1>9

\* A response that changes nothing but the nonce.
LEMMA RespondsSame ==
    ASSUME SessionInv, up # <<>>, Asked.kind = "request", NEW res \in Responses, Respond(res),
           SameServer, server' \in Servers, ~Streaming => StillSo(res)'
    PROVE  SessionInv'
<1>1. /\ up' \in Seq(Requests \cup Media) /\ down' \in Seq(Responses \cup Media)
      /\ UNCHANGED <<client, fixed, over, Streaming, Setting>>
      /\ Answered' # {} /\ AsAnswered' /\ AsAsked' /\ PacketsRight'
  BY Responds DEF SameServer
<1>2. SameClient /\ UNCHANGED <<client.last.method, client.last.type, client.last.tr, client.last.medias,
                                client.last.session>>
  BY <1>1 DEF SameClient
<1>3. Made(client)' /\ One(client)' /\ ServerMade' /\ ChannelsApart' /\ Alike' /\ Begun'
  BY <1>1, <1>2, SameSession
<1>4. Stage'
  <2>1. Asking \cup Answered # {} BY AskedFacts
  <2> QED BY <1>1, <1>2, <2>1, SameStage
<1>5. Typed' BY <1>1 DEF SessionInv, Typed, fixed
<1> QED BY <1>1, <1>3, <1>4, <1>5 DEF SessionInv

\* What a plain response is.
LEMMA ResponseMade ==
    ASSUME NEW status \in Statuses
    PROVE  /\ Response(status) \in Responses /\ Response(status).status = status
           /\ Unset \in Transport
<1>1. Unset \in Transport BY DEF Unset, Transport, Protos
<1> QED BY <1>1 DEF Response, Responses, Lists

\* The handler tells what was asked while the stream has not started.
LEMMA AskedBy ==
    ASSUME SessionInv, ~Streaming, up # <<>>, Asked.kind = "request"
    PROVE  /\ client.handler = "handleDescribe" => Asked.method = "DESCRIBE"
           /\ client.handler = "handleSetup" <=> Asked.method = "SETUP"
           /\ client.handler = "handlePlay" <=> Asked.method \in {"PLAY", "RECORD"}
           /\ client.handler = "handleAnnounce" <=> Asked.method = "ANNOUNCE"
           /\ Asked.session = client.session
<1>1. Asked = client.last /\ Asking # {} BY AskedFacts
<1>2. client.handler \in Handlers BY DEF SessionInv, Typed, Clients
<1> QED BY <1>1, <1>2 DEF SessionInv, Stage, Handlers

\* Answers that leave the server as it was (handleUnAuth, handleRequest).
LEMMA ServerKeeps ==
    ASSUME SessionInv,
           \/ ServerUnAuth \/ ServerNoSession \/ ServerPlain \/ ServerRefuses \/ ServerDescribe
           \/ ServerWrongTransport
    PROVE  SessionInv'
<1>1. CASE ServerUnAuth
  <2>1. PICK res \in Responses : /\ res = [Response("Unauthorized") EXCEPT !.nonce = server.nonce + 1]
                                 /\ Respond(res) /\ res.status = "Unauthorized"
    <3>1. Response("Unauthorized") \in Responses /\ server.nonce + 1 \in Nat
      BY ResponseMade DEF Statuses, SessionInv, Typed, Servers
    <3>2. [Response("Unauthorized") EXCEPT !.nonce = server.nonce + 1] \in Responses
      BY <3>1 DEF Responses
    <3> QED BY <1>1, <3>2 DEF ServerUnAuth, Response
  <2>2. server' = [server EXCEPT !.nonce = server.nonce + 1] /\ up # <<>> /\ Asked.kind = "request"
    BY <1>1 DEF ServerUnAuth
  <2>3. SameServer /\ server' \in Servers
    <3>1. server \in Servers BY DEF SessionInv, Typed
    <3>2. server.nonce + 1 \in Nat BY <3>1 DEF Servers
    <3>3. server' \in Servers BY <2>2, <3>1, <3>2 DEF Servers
    <3>4. SameServer BY <2>2, <3>1 DEF SameServer, Servers
    <3> QED BY <3>3, <3>4
  <2>4. StillSo(res)' BY <2>1 DEF StillSo
  <2> QED BY <2>1, <2>2, <2>3, <2>4, RespondsSame
<1>2. ASSUME UNCHANGED server PROVE SameServer /\ server' \in Servers
  BY <1>2 DEF SameServer, SessionInv, Typed
<1>3. CASE ServerNoSession
  <2>1. PICK res \in Responses : Respond(res) /\ res.status = "Session_Not_Found"
    BY <1>3, ResponseMade DEF ServerNoSession, Statuses
  <2>2. StillSo(res)' BY <2>1 DEF StillSo
  <2> QED BY <1>2, <1>3, <2>1, <2>2, RespondsSame DEF ServerNoSession
<1>4. CASE ServerPlain
  <2>1. PICK res \in Responses : Respond(res) /\ res.status = "OK"
    BY <1>4, ResponseMade DEF ServerPlain, Statuses
  <2>2. up # <<>> /\ Asked.kind = "request" /\ Asked.method \in {"OPTIONS", "GET_PARAMETER"} /\ UNCHANGED server
    BY <1>4 DEF ServerPlain, Accepts, Asks
  <2>3. ASSUME ~Streaming PROVE StillSo(res)'
    BY <2>1, <2>2, <2>3, AskedBy DEF StillSo, Respond
  <2> QED BY <1>2, <2>1, <2>2, <2>3, RespondsSame
<1>5. CASE ServerRefuses
  <2>1. PICK res \in Responses : Respond(res) /\ res.status = "Refused"
    BY <1>5, ResponseMade DEF ServerRefuses, Statuses
  <2>2. up # <<>> /\ Asked.kind = "request" /\ UNCHANGED server BY <1>5 DEF ServerRefuses, Accepts, Asks
  <2>3. StillSo(res)' BY <2>1 DEF StillSo
  <2> QED BY <1>2, <2>1, <2>2, <2>3, RespondsSame
<1>6. CASE ServerDescribe
  <2>1. PICK res \in Responses : Respond(res) /\ res.status = "OK" /\ res.medias = server.medias
    <3>1. Response("OK") \in Responses /\ Response("OK").status = "OK" /\ server.medias \in Lists
      BY ResponseMade DEF Statuses, SessionInv, Typed, Servers
    <3>2. [Response("OK") EXCEPT !.medias = server.medias] \in Responses BY <3>1 DEF Responses
    <3> QED BY <1>6, <3>2 DEF ServerDescribe, Response
  <2>2. up # <<>> /\ Asked.kind = "request" /\ Asked.method = "DESCRIBE" /\ UNCHANGED server
    BY <1>6 DEF ServerDescribe, Accepts, Asks
  <2>3. ASSUME ~Streaming PROVE StillSo(res)'
    BY <2>1, <2>2, <2>3, AskedBy DEF StillSo, Respond
  <2> QED BY <1>2, <2>1, <2>2, <2>3, RespondsSame
<1>7. CASE ServerWrongTransport
  <2>1. PICK res \in Responses : Respond(res) /\ res.status = "Unsupported_Transport"
    BY <1>7, ResponseMade DEF ServerWrongTransport, Statuses
  <2>2. /\ up # <<>> /\ Asked.kind = "request" /\ Asked.method = "SETUP" /\ Asked.tr.proto \notin takes
        /\ UNCHANGED <<server, client, takes>>
    BY <1>7 DEF ServerWrongTransport, Accepts, Asks, Respond, fixed
  <2>3. ASSUME ~Streaming PROVE StillSo(res)'
    <3>1. client.handler = "handleSetup" /\ Asked = client.last BY <2>2, <2>3, AskedBy, AskedFacts
    <3>2. client.last.tr = client.tracks[Setting] BY <2>3, <3>1 DEF SessionInv, Stage
    <3>3. Setting' = Setting BY <2>2 DEF Setting
    <3> QED BY <2>1, <2>2, <3>1, <3>2, <3>3 DEF StillSo
  <2> QED BY <1>2, <2>1, <2>2, <2>3, RespondsSame
<1> QED BY <1>1, <1>3, <1>4, <1>5, <1>6, <1>7

\* The medias a client has.
LEMMA MediasHeld ==
    ASSUME RtspAssumption, SessionInv
    PROVE  /\ Len(client.medias) \in Nat /\ client.step \in 0 .. Len(client.medias)
           /\ \A i \in 1 .. Len(client.medias) : client.medias[i].type \in Types
           /\ \A i, j \in 1 .. Len(client.medias) : i # j => client.medias[i].type # client.medias[j].type
           /\ Known(client.medias) \subseteq Types
<1>1. client.medias \in Lists /\ client.step \in Nat /\ client.step <= Len(client.medias)
  BY DEF SessionInv, Typed, Clients
<1> QED BY <1>1, ListFacts

\* The server takes the medias of a recording (ANNOUNCE).
LEMMA AnnounceInv ==
    ASSUME RtspAssumption, SessionInv, ServerAnnounce
    PROVE  SessionInv'
<1>1. PICK res \in Responses : Respond(res) /\ res.status = "OK"
  BY ResponseMade DEF ServerAnnounce, Statuses
<1>2. /\ up # <<>> /\ Asked.kind = "request" /\ Asked.method = "ANNOUNCE"
      /\ server' = [server EXCEPT !.medias = Asked.medias, !.tracks = Tracks(Asked.medias, Unset)]
  BY DEF ServerAnnounce, Accepts, Asks
<1>3. ~Streaming /\ client.handler = "handleAnnounce" /\ Asked \in Requests
  BY <1>2, AskedFacts, AskedBy
<1>4. client.state = "Init" /\ client.step = 0 /\ server.session = 0 /\ server.begun # "accepted"
  BY <1>3 DEF SessionInv, Stage, Begun
<1>5. /\ server' \in Servers /\ server'.session = 0 /\ server'.begun # "accepted"
      /\ \A t \in Types : server'.tracks[t] \in {Unset, Absent}
  <2>1. server \in Servers BY DEF SessionInv, Typed
  <2>2. Asked.medias \in Lists BY <1>3 DEF Requests
  <2>3. /\ Tracks(Asked.medias, Unset) \in [Types -> Transport]
        /\ \A t \in Types : Tracks(Asked.medias, Unset)[t] \in {Unset, Absent}
    BY DEF Tracks, Unset, Absent, Transport, Protos
  <2>4. server' \in Servers BY <1>2, <2>1, <2>2, <2>3 DEF Servers
  <2> QED BY <1>2, <1>4, <2>1, <2>3, <2>4 DEF Servers
<1>6. \A t \in Types : ~Ready(server'.tracks[t]) /\ server'.tracks[t].ch = <<0, 0>>
  BY <1>5 DEF Ready, Unset, Absent
<1>7. /\ up' \in Seq(Requests \cup Media) /\ down' \in Seq(Responses \cup Media)
      /\ UNCHANGED <<client, fixed, over, Streaming, Setting>>
      /\ (~Streaming => StillSo(res)') => AsAnswered'
      /\ AsAsked' /\ PacketsRight'
  BY <1>1, <1>2, <1>4, Responds
<1>8. AsAnswered' BY <1>1, <1>3, <1>7 DEF StillSo
<1>9. Typed' BY <1>5, <1>7 DEF SessionInv, Typed, fixed
<1>10. Made(client)' /\ One(client)' BY <1>6, <1>7, MediasHeld DEF SessionInv, Made, One
<1>11. ServerMade' /\ ChannelsApart' BY <1>6 DEF ServerMade, ChannelsApart, Ready
<1>12. Stage'
  <2>1. client.session = 0 /\ client.last.session = client.session /\ client.last.medias = client.medias
        /\ client.last.method = "ANNOUNCE"
    BY <1>3, <1>4 DEF SessionInv, Stage, Typed, Clients
  <2> QED BY <1>3, <1>4, <1>5, <1>6, <1>7, <2>1 DEF Stage
<1>13. Alike' BY <1>3, <1>7 DEF Alike, SetUp
<1>14. Begun' BY <1>3, <1>5, <1>7 DEF Begun
<1> QED BY <1>7, <1>8, <1>9, <1>10, <1>11, <1>12, <1>13, <1>14 DEF SessionInv

\* The server accepts PLAY or RECORD, from a client of its session.
LEMMA BeginsInv ==
    ASSUME SessionInv, ServerBegins
    PROVE  SessionInv'
<1>1. PICK res \in Responses : Respond(res) /\ res.status = "OK"
  BY ResponseMade DEF ServerBegins, Statuses
<1>2. /\ up # <<>> /\ Asked.kind = "request" /\ Asked.method \in {"PLAY", "RECORD"} /\ InSession
      /\ server' = [server EXCEPT !.begun = "accepted"]
  BY DEF ServerBegins, Accepts, Asks
<1>3. /\ server \in Servers /\ server' \in Servers /\ server'.begun = "accepted"
      /\ UNCHANGED <<server.session, server.interleaved, server.medias, server.tracks>>
  <2>1. server \in Servers BY DEF SessionInv, Typed
  <2> QED BY <1>2, <2>1 DEF Servers
<1>4. ~Streaming /\ client.handler = "handlePlay" /\ Asked.session = client.session
  BY <1>2, AskedFacts, AskedBy
<1>5. server.session = 1 /\ client.session = 1 BY <1>2, <1>4 DEF SessionInv, Stage, InSession
<1>6. /\ up' \in Seq(Requests \cup Media) /\ down' \in Seq(Responses \cup Media)
      /\ UNCHANGED <<client, fixed, over, Streaming, Setting>>
      /\ Answered' # {}
      /\ (~Streaming => StillSo(res)') => AsAnswered'
      /\ AsAsked' /\ PacketsRight'
  BY <1>1, <1>2, <1>3, Responds
<1>7. AsAnswered' BY <1>1, <1>3, <1>4, <1>6 DEF StillSo
<1>8. Typed' BY <1>3, <1>6 DEF SessionInv, Typed, fixed
<1>9. Made(client)' /\ One(client)' BY <1>3, <1>6 DEF SessionInv, Made, One
<1>10. ServerMade' /\ ChannelsApart' BY <1>3, <1>6 DEF SessionInv, ServerMade, ChannelsApart, fixed
<1>11. Stage' BY <1>3, <1>4, <1>5, <1>6 DEF SessionInv, Stage, fixed
<1>12. Alike' BY <1>3, <1>6 DEF SessionInv, Alike, SetUp, fixed
<1>13. Begun' BY <1>3, <1>4, <1>5, <1>6 DEF Begun
<1> QED BY <1>6, <1>7, <1>8, <1>9, <1>10, <1>11, <1>12, <1>13 DEF SessionInv

\* The server sets up a track with channels of its own (SETUP).
LEMMA SetupInv ==
    ASSUME RtspAssumption, SessionInv, ServerSetup
    PROVE  SessionInv'
<1>1. up # <<>> /\ Asked.kind = "request" /\ Asked.method = "SETUP"
  BY DEF ServerSetup, Accepts, Asks
<1>2. ~Streaming /\ client.handler = "handleSetup" /\ Asked = client.last /\ Asked \in Requests
  BY <1>1, AskedFacts, AskedBy
<1>3. /\ client.step \in 1 .. Len(client.medias) /\ Asked.type = Setting
      /\ Asked.tr = client.tracks[Setting] /\ Ready(Asked.tr)
  BY <1>2 DEF SessionInv, Stage
<1>4. Setting \in Types /\ Setting \in Known(client.medias)
  <2>1. Setting \in Types BY <1>3, MediasHeld DEF Setting
  <2>2. client.tracks[Setting].proto # "absent" BY <1>3 DEF Ready
  <2> QED BY <2>1, <2>2 DEF SessionInv, Made
<1>5. PICK tr \in Transport : /\ tr = Channels(Decode(New("tcp"), Asked.tr))
                              /\ tr.proto = Asked.tr.proto /\ Ready(tr)
                              /\ tr.proto # "tcp" => tr.ch = <<0, 0>>
                              /\ tr.proto = "tcp" => tr.ch = <<server.interleaved, server.interleaved + 1>>
  <2>1. server.interleaved \in Nat BY DEF SessionInv, Typed, Servers
  <2>2. Asked.tr \in Transport BY <1>2 DEF Requests
  <2>3. CASE Asked.tr.proto = "tcp"
    <3>1. Channels(Decode(New("tcp"), Asked.tr)) = [Asked.tr EXCEPT !.ch = <<server.interleaved, server.interleaved + 1>>]
      BY <2>3 DEF Channels, Decode
    <3>2. [Asked.tr EXCEPT !.ch = <<server.interleaved, server.interleaved + 1>>] \in Transport
      BY <2>1, <2>2 DEF Transport
    <3> QED BY <2>2, <2>3, <3>1, <3>2 DEF Transport, Ready
  <2>4. CASE Asked.tr.proto = "udp"
    <3>1. Channels(Decode(New("tcp"), Asked.tr)) = [proto |-> "udp", ch |-> <<0, 0>>]
      BY <2>4 DEF Channels, Decode, New
    <3> QED BY <2>4, <3>1 DEF Transport, Protos, Ready
  <2> QED BY <1>3, <2>3, <2>4 DEF Ready
<1>6. /\ tr.proto \in takes
      /\ server' = [server EXCEPT !.session = 1, !.tracks[Setting] = tr,
                                  !.interleaved = IF tr.proto = "tcp" THEN @ + 2 ELSE @]
      /\ Respond([Response("OK") EXCEPT !.tr = tr, !.session = 1])
  BY <1>3, <1>5 DEF ServerSetup
<1>7. /\ server' \in Servers /\ server'.session = 1 /\ server'.begun = server.begun
      /\ server'.tracks = [server.tracks EXCEPT ![Setting] = tr]
      /\ server'.interleaved = IF tr.proto = "tcp" THEN server.interleaved + 2 ELSE server.interleaved
  <2>1. server \in Servers BY DEF SessionInv, Typed
  <2>2. server.interleaved + 2 \in Nat /\ server.tracks \in [Types -> Transport] BY <2>1 DEF Servers
  <2>3. [server.tracks EXCEPT ![Setting] = tr] \in [Types -> Transport] BY <2>2
  <2> QED BY <1>6, <2>1, <2>2, <2>3 DEF Servers
<1>8. /\ server'.tracks[Setting] = tr
      /\ \A t \in Types : t # Setting => server'.tracks[t] = server.tracks[t]
  <2>1. server.tracks \in [Types -> Transport] BY DEF SessionInv, Typed, Servers
  <2> QED BY <1>4, <1>7, <2>1
<1>9. server.begun # "accepted" BY <1>2 DEF SessionInv, Begun
<1>10. PICK res \in Responses : Respond(res) /\ res.tr = tr /\ res.session = 1 /\ res.status = "OK"
  <2>1. Response("OK") \in Responses /\ Response("OK").status = "OK" BY ResponseMade DEF Statuses
  <2>2. [Response("OK") EXCEPT !.tr = tr, !.session = 1] \in Responses BY <2>1 DEF Responses
  <2> QED BY <1>6, <2>1, <2>2 DEF Responses
<1>11. /\ up' \in Seq(Requests \cup Media) /\ down' \in Seq(Responses \cup Media)
       /\ UNCHANGED <<client, fixed, over, Streaming, Setting>>
       /\ (~Streaming => StillSo(res)') => AsAnswered'
       /\ AsAsked' /\ PacketsRight'
  BY <1>1, <1>9, <1>10, Responds
<1>12. AsAnswered' BY <1>2, <1>5, <1>7, <1>8, <1>10, <1>11 DEF StillSo
<1>13. Typed' BY <1>7, <1>11 DEF SessionInv, Typed, fixed
<1>14. Made(client)' BY <1>4, <1>8, <1>11 DEF SessionInv, Made
<1>15. One(client)'
  <2>1. \A u \in Known(client.medias) : tr.proto = Eff(client.tracks[u])
    BY <1>3, <1>4, <1>5 DEF SessionInv, One, Eff, Ready
  <2> QED BY <1>8, <1>11, <2>1, MediasHeld DEF SessionInv, One
<1>16. ServerMade' BY <1>5, <1>6, <1>7, <1>8, <1>11 DEF SessionInv, ServerMade, fixed
<1>17. ChannelsApart'
  <2>1. server.interleaved \in Nat /\ \A t \in Types : server.tracks[t].ch \in Nat \X Nat
    BY DEF SessionInv, Typed, Servers, Transport
  <2>2. \A t \in Types : server.tracks[t].proto = "tcp" => server.tracks[t].ch[2] < server.interleaved
    BY DEF SessionInv, ChannelsApart
  <2>3. SUFFICES ASSUME NEW t \in Types, server'.tracks[t].proto = "tcp"
                 PROVE  LET ch == server'.tracks[t].ch IN
                        /\ ch[2] = ch[1] + 1 /\ ch[2] < server'.interleaved
                        /\ \A u \in Types \ {t} : server'.tracks[u].proto = "tcp" =>
                              ch[2] < server'.tracks[u].ch[1] \/ server'.tracks[u].ch[2] < ch[1]
    BY DEF ChannelsApart
  <2>4. CASE t = Setting BY <1>5, <1>7, <1>8, <2>1, <2>2, <2>3, <2>4
  <2>5. CASE t # Setting
    <3>1. /\ server'.tracks[t] = server.tracks[t] /\ server.tracks[t].ch[2] < server.interleaved
          /\ server.tracks[t].ch[2] = server.tracks[t].ch[1] + 1
      BY <1>8, <2>3, <2>5 DEF SessionInv, ChannelsApart
    <3>2. ASSUME NEW u \in Types \ {t}, server'.tracks[u].proto = "tcp"
          PROVE  \/ server.tracks[t].ch[2] < server'.tracks[u].ch[1]
                 \/ server'.tracks[u].ch[2] < server.tracks[t].ch[1]
      <4>1. CASE u = Setting BY <1>5, <1>8, <2>1, <3>1, <3>2, <4>1
      <4>2. CASE u # Setting BY <1>8, <2>3, <2>5, <3>2, <4>2 DEF SessionInv, ChannelsApart
      <4> QED BY <4>1, <4>2
    <3>3. server.interleaved <= server'.interleaved BY <1>7, <2>1
    <3> QED BY <2>1, <3>1, <3>2, <3>3, <1>7
  <2> QED BY <2>4, <2>5
<1>18. Stage' BY <1>2, <1>7, <1>11 DEF SessionInv, Stage, fixed
<1>19. Alike'
  <2>1. SetUp' = SetUp BY <1>11 DEF SetUp
  <2>2. Setting \notin SetUp
    <3>1. \A i \in 1 .. (client.step - 1) : client.medias[i].type # Setting
      BY <1>3, MediasHeld DEF Setting
    <3> QED BY <1>2, <3>1 DEF SetUp
  <2>3. SetUp \subseteq Types BY MediasHeld DEF SetUp
  <2> QED BY <1>8, <1>11, <2>1, <2>2, <2>3 DEF SessionInv, Alike, fixed
<1>20. Begun' BY <1>2, <1>7, <1>9, <1>11 DEF Begun
<1> QED BY <1>11, <1>12, <1>13, <1>14, <1>15, <1>16, <1>17, <1>18, <1>19, <1>20 DEF SessionInv

-------------------------------------------------------------------------------
(* Media.                                                                    *)

\* Packets written and read leave the session and what is asked as they are.
LEMMA MediaStep ==
    ASSUME SessionInv, SameClient, UNCHANGED client.last, client' \in Clients,
           SameServer, server' \in Servers, UNCHANGED <<fixed, over>>,
           up' \in Seq(Requests \cup Media), down' \in Seq(Responses \cup Media),
           NEW k \in Nat, \A i \in Asking' : i + k \in Asking /\ up'[i] = up[i + k],
           NEW l \in Nat, \A i \in Answered' : i + l \in Answered /\ down'[i] = down[i + l],
           PacketsRight'
    PROVE  SessionInv'
<1>1. /\ Made(client)' /\ One(client)' /\ ServerMade' /\ ChannelsApart' /\ Alike' /\ Begun'
      /\ Setting' = Setting /\ Streaming' = Streaming
  BY SameSession DEF fixed
<1>2. Stage' BY SameStage DEF fixed
<1>3. Typed' BY DEF SessionInv, Typed, fixed, SameClient
<1>4. Asking' \subseteq Nat /\ Answered' \subseteq Nat BY DEF Asking, Answered, OnWire
<1>5. AsAsked'
  <2>1. CASE Streaming BY <2>1, <1>1 DEF SessionInv, AsAsked
  <2>2. CASE ~Streaming
    <3>1. (\A i, j \in Asking : i = j) /\ (\A i, j \in Answered : i = j) /\ (Asking = {} \/ Answered = {})
          /\ \A i \in Asking : up[i] = client.last
      BY <2>2 DEF SessionInv, AsAsked
    <3>2. ASSUME NEW i \in Asking', NEW j \in Asking' PROVE i = j
      <4>1. i + k \in Asking /\ j + k \in Asking /\ i \in Nat /\ j \in Nat BY <1>4
      <4>2. i + k = j + k BY <3>1, <4>1
      <4> QED BY <4>1, <4>2
    <3>3. ASSUME NEW i \in Answered', NEW j \in Answered' PROVE i = j
      <4>1. i + l \in Answered /\ j + l \in Answered /\ i \in Nat /\ j \in Nat BY <1>4
      <4>2. i + l = j + l BY <3>1, <4>1
      <4> QED BY <4>1, <4>2
    <3>4. Asking' = {} \/ Answered' = {} BY <3>1
    <3>5. \A i \in Asking' : up'[i] = client'.last BY <3>1
    <3> QED BY <2>2, <1>1, <3>2, <3>3, <3>4, <3>5 DEF AsAsked
  <2> QED BY <2>1, <2>2
<1>6. AsAnswered'
  <2>1. SUFFICES ASSUME ~Streaming, NEW i \in Answered' PROVE StillSo(down[i])' BY <1>1 DEF AsAnswered
  <2>2. PICK r : r = down'[i] /\ StillSo(r) BY <2>1 DEF SessionInv, AsAnswered
  <2>3. StillSo(r)' BY <2>2, <1>1 DEF StillSo, SameClient, SameServer, fixed
  <2> QED BY <2>2, <2>3
<1> QED BY <1>1, <1>2, <1>3, <1>5, <1>6 DEF SessionInv

\* Once the stream is accepted both sides have the same tracks.
LEMMA TracksAgree ==
    ASSUME RtspAssumption, SessionInv, server.begun = "accepted"
    PROVE  /\ handled /\ client.session = 1 /\ server.session = 1
           /\ \A t \in Known(client.medias) : Ready(client.tracks[t]) /\ client.tracks[t] = server.tracks[t]
           /\ \A t \in Types : Ready(client.tracks[t]) <=> Ready(server.tracks[t])
           /\ \A t \in Types : Ready(client.tracks[t]) => client.tracks[t] = server.tracks[t]
<1>1. /\ Streaming \/ client.handler = "handlePlay"
      /\ client.session = 1 /\ server.session = 1
  BY DEF SessionInv, Begun
<1>2. handled BY <1>1 DEF SessionInv, Stage
<1>3. SetUp = Known(client.medias) BY <1>1 DEF SetUp
<1>4. \A t \in Known(client.medias) : Ready(client.tracks[t]) /\ client.tracks[t] = server.tracks[t]
  BY <1>2, <1>3 DEF SessionInv, Alike
<1>5. \A t \in Types : (Ready(client.tracks[t]) \/ Ready(server.tracks[t])) => t \in Known(client.medias)
  BY DEF SessionInv, Made, Ready
<1> QED BY <1>1, <1>2, <1>4, <1>5

\* A packet on a channel is for that track and for no other, on either side.
LEMMA Routed ==
    ASSUME RtspAssumption, SessionInv, NEW m \in Media, OnTrack(m)
    PROVE  /\ Routes(server.tracks, m) = {m.type} /\ Routes(client.tracks, m) = {m.type}
           /\ IsRtcp(server.tracks, m.type, m) = (m.kind # "rtp")
           /\ IsRtcp(client.tracks, m.type, m) = (m.kind # "rtp")
           /\ server.tracks[m.type].proto = "tcp" /\ client.tracks[m.type] = server.tracks[m.type]
<1>1. /\ server.begun = "accepted" /\ m.type \in Types /\ server.tracks[m.type].proto = "tcp"
      /\ m.ch = server.tracks[m.type].ch[IF m.kind = "rtp" THEN 1 ELSE 2]
  BY DEF OnTrack, Media
<1>2. Ready(server.tracks[m.type]) BY <1>1 DEF Ready
<1>3. ASSUME NEW t \in Types, Ready(server.tracks[t]) PROVE server.tracks[t].proto = "tcp"
  <2>1. t \in Known(client.medias) /\ m.type \in Known(client.medias)
    BY <1>1, <1>2, <1>3 DEF SessionInv, Made
  <2> QED BY <1>1, <1>2, <1>3, <2>1 DEF SessionInv, One
<1>4. \A t \in Types : server.tracks[t].ch \in Nat \X Nat
  BY DEF SessionInv, Typed, Servers, Transport
<1>5. \A t \in Types : server.tracks[t].proto = "tcp" => server.tracks[t].ch[2] = server.tracks[t].ch[1] + 1
  BY DEF SessionInv, ChannelsApart
<1>6. \A t, u \in Types : t # u /\ server.tracks[t].proto = "tcp" /\ server.tracks[u].proto = "tcp" =>
         \/ server.tracks[t].ch[2] < server.tracks[u].ch[1]
         \/ server.tracks[u].ch[2] < server.tracks[t].ch[1]
  BY DEF SessionInv, ChannelsApart
<1>7. ASSUME NEW t \in Types, Ready(server.tracks[t]), NEW n \in 1 .. 2, server.tracks[t].ch[n] = m.ch
      PROVE  t = m.type
  <2>1. server.tracks[t].proto = "tcp" BY <1>3, <1>7
  <2>2. m.ch = server.tracks[m.type].ch[1] \/ m.ch = server.tracks[m.type].ch[2] BY <1>1
  <2>3. m.ch = server.tracks[t].ch[1] \/ m.ch = server.tracks[t].ch[2] BY <1>7
  <2> QED BY <1>1, <1>4, <1>5, <1>6, <2>1, <2>2, <2>3
<1>8. m.type \in Routes(server.tracks, m) BY <1>1, <1>2 DEF Routes
<1>9. Routes(server.tracks, m) = {m.type} BY <1>7, <1>8 DEF Routes
<1>10. Routes(client.tracks, m) = Routes(server.tracks, m) BY <1>1, TracksAgree DEF Routes
<1>11. client.tracks[m.type] = server.tracks[m.type] BY <1>1, <1>2, TracksAgree
<1>12. IsRtcp(server.tracks, m.type, m) = (m.kind # "rtp")
  <2>1. server.tracks[m.type].ch[2] = server.tracks[m.type].ch[1] + 1 /\ server.tracks[m.type].ch[1] \in Nat
    BY <1>1, <1>4, <1>5
  <2> QED BY <1>1, <2>1 DEF IsRtcp
<1> QED BY <1>1, <1>9, <1>10, <1>11, <1>12 DEF IsRtcp

\* What is written on a channel is on it (WriteSample, the reports and answers).
LEMMA PacketMade ==
    ASSUME SessionInv, server.begun = "accepted", NEW t \in Types, server.tracks[t].proto = "tcp"
    PROVE  /\ Packet("rtp", t, server.tracks[t].ch[1]) \in Media
           /\ OnTrack(Packet("rtp", t, server.tracks[t].ch[1]))
           /\ \A kind \in {"report", "answer"} :
                 /\ Packet(kind, t, server.tracks[t].ch[2]) \in Media
                 /\ OnTrack(Packet(kind, t, server.tracks[t].ch[2]))
<1>1. server.tracks[t].ch \in Nat \X Nat BY DEF SessionInv, Typed, Servers, Transport
<1> QED BY <1>1 DEF Packet, Media, OnTrack

\* The server's application writes to its tracks.
LEMMA ServerWritesInv ==
    ASSUME SessionInv, ServerWrites
    PROVE  SessionInv'
<1>1. UNCHANGED <<up, client, server, fixed, over>> /\ server.begun = "accepted" BY DEF ServerWrites
<1>2. PICK p \in Media : OnTrack(p) /\ down' = Append(down, p)
  BY <1>1, PacketMade DEF ServerWrites, Interleaved
<1>3. down \in Seq(Responses \cup Media) /\ p \in Responses \cup Media /\ p.kind # "response"
  BY DEF SessionInv, Typed, Media
<1>4. down' \in Seq(Responses \cup Media) BY <1>2, <1>3, AppendWire
<1>5. \A i \in Answered' : i + 0 \in Answered /\ down'[i] = down[i + 0]
  <2>1. \A i \in OnWire(Append(down, p), "response") :
           i + 0 \in OnWire(down, "response") /\ Append(down, p)[i] = down[i + 0]
    BY <1>3, PushedOther
  <2> QED BY <1>2, <2>1 DEF Answered
<1>6. \A i \in DOMAIN down' : down'[i] = p \/ \E j \in DOMAIN down : down'[i] = down[j]
  BY <1>2, <1>3, Pushed
<1>7. PacketsRight' BY <1>1, <1>2, <1>6, PacketsStay
<1>8. SameClient /\ SameServer /\ client' \in Clients /\ server' \in Servers
  BY <1>1 DEF SameClient, SameServer, SessionInv, Typed
<1>9. up \in Seq(Requests \cup Media) /\ DOMAIN up \subseteq Nat BY DEF SessionInv, Typed
<1>10. \A i \in Asking' : i + 0 \in Asking /\ up'[i] = up[i + 0] BY <1>1, <1>9, Untouched DEF Asking
<1> QED BY <1>1, <1>4, <1>5, <1>7, <1>8, <1>9, <1>10, MediaStep

\* The client's application writes to its tracks.
LEMMA ClientWritesInv ==
    ASSUME RtspAssumption, SessionInv, ClientWrites
    PROVE  SessionInv'
<1>1. UNCHANGED <<down, client, server, fixed, over>> /\ server.begun = "accepted"
  BY DEF ClientWrites, SessionInv, Begun, Streaming, Started
<1>2. PICK p \in Media : OnTrack(p) /\ up' = Append(up, p)
  <2>1. PICK t \in Interleaved(client.tracks) :
           \/ up' = Append(up, Packet("rtp", t, client.tracks[t].ch[1]))
           \/ up' = Append(up, Packet("report", t, client.tracks[t].ch[2]))
    BY DEF ClientWrites
  <2>2. t \in Types /\ server.tracks[t].proto = "tcp" /\ client.tracks[t] = server.tracks[t]
    BY <1>1, TracksAgree DEF Interleaved, Ready
  <2> QED BY <1>1, <2>1, <2>2, PacketMade
<1>3. up \in Seq(Requests \cup Media) /\ p \in Requests \cup Media /\ p.kind # "request"
  BY DEF SessionInv, Typed, Media
<1>4. up' \in Seq(Requests \cup Media) BY <1>2, <1>3, AppendWire
<1>5. \A i \in Asking' : i + 0 \in Asking /\ up'[i] = up[i + 0]
  <2>1. \A i \in OnWire(Append(up, p), "request") :
           i + 0 \in OnWire(up, "request") /\ Append(up, p)[i] = up[i + 0]
    BY <1>3, PushedOther
  <2> QED BY <1>2, <2>1 DEF Asking
<1>6. \A i \in DOMAIN up' : up'[i] = p \/ \E j \in DOMAIN up : up'[i] = up[j]
  BY <1>2, <1>3, Pushed
<1>7. PacketsRight' BY <1>1, <1>2, <1>6, PacketsStay
<1>8. SameClient /\ SameServer /\ client' \in Clients /\ server' \in Servers
  BY <1>1 DEF SameClient, SameServer, SessionInv, Typed
<1>9. down \in Seq(Responses \cup Media) /\ DOMAIN down \subseteq Nat BY DEF SessionInv, Typed
<1>10. \A i \in Answered' : i + 0 \in Answered /\ down'[i] = down[i + 0]
  BY <1>1, <1>9, Untouched DEF Answered
<1> QED BY <1>1, <1>4, <1>5, <1>7, <1>8, <1>9, <1>10, MediaStep

\* The client reads a packet: its track hears it and may answer.
LEMMA ClientReadsInv ==
    ASSUME RtspAssumption, SessionInv, ClientReads
    PROVE  SessionInv'
<1>1. UNCHANGED <<server, fixed, over>> /\ down # <<>> /\ down' = Tail(down) /\ Told.kind \in {"rtp", "report", "answer"}
  BY DEF ClientReads
<1>2. down \in Seq(Responses \cup Media) /\ up \in Seq(Requests \cup Media) /\ DOMAIN up \subseteq Nat
  BY DEF SessionInv, Typed
<1>3. Told \in Media /\ Told = down[1] /\ 1 \in DOMAIN down /\ down' \in Seq(Responses \cup Media)
  <2>1. Told \in Responses \cup Media /\ Told = down[1] /\ 1 \in DOMAIN down /\ Tail(down) \in Seq(Responses \cup Media)
    BY <1>1, <1>2, TailWire DEF Told
  <2> QED BY <1>1, <2>1 DEF Responses
<1>4. OnTrack(Told) BY <1>1, <1>3 DEF SessionInv, PacketsRight, OnChannel
<1>5. /\ Routes(client.tracks, Told) = {Told.type} /\ Told.type \in Types /\ server.begun = "accepted"
      /\ server.tracks[Told.type].proto = "tcp" /\ client.tracks[Told.type] = server.tracks[Told.type]
  BY <1>3, <1>4, Routed DEF Media, OnTrack
<1>6. /\ client' = Heard(client, Told.type, Told)
      /\ \/ up' = up
         \/ up' = Append(up, Packet("answer", Told.type, server.tracks[Told.type].ch[2]))
  BY <1>5 DEF ClientReads
<1>7. SameClient /\ UNCHANGED client.last /\ client' \in Clients
  <2>1. client \in Clients BY DEF SessionInv, Typed
  <2>2. client.heard \cup {Told.type} \in SUBSET Types BY <1>5, <2>1 DEF Clients
  <2>3. CASE client' = client BY <2>1, <2>3 DEF SameClient
  <2>4. CASE client' = [client EXCEPT !.heard = client.heard \cup {Told.type}]
    BY <2>1, <2>2, <2>4 DEF SameClient, Clients
  <2> QED BY <1>6, <2>3, <2>4 DEF Heard
<1>8. SameServer /\ server' \in Servers BY <1>1 DEF SameServer, SessionInv, Typed
<1>9. \A i \in Answered' : i + 1 \in Answered /\ down'[i] = down[i + 1]
  BY <1>1, <1>2, Popped DEF Answered
<1>10. \A i \in DOMAIN down' : \E j \in DOMAIN down : down'[i] = down[j] BY <1>1, <1>2, Popped
<1>11. CASE up' = up
  <2>1. \A i \in Asking' : i + 0 \in Asking /\ up'[i] = up[i + 0] BY <1>2, <1>11, Untouched DEF Asking
  <2>2. PacketsRight' BY <1>1, <1>10, <1>11, PacketsStay
  <2> QED BY <1>1, <1>2, <1>3, <1>7, <1>8, <1>9, <1>11, <2>1, <2>2, MediaStep
<1>12. CASE up' = Append(up, Packet("answer", Told.type, server.tracks[Told.type].ch[2]))
  <2>1. PICK p \in Media : OnTrack(p) /\ up' = Append(up, p) BY <1>5, <1>12, PacketMade
  <2>2. p \in Requests \cup Media /\ p.kind # "request" BY DEF Media
  <2>3. \A i \in Asking' : i + 0 \in Asking /\ up'[i] = up[i + 0]
    <3>1. \A i \in OnWire(Append(up, p), "request") :
             i + 0 \in OnWire(up, "request") /\ Append(up, p)[i] = up[i + 0]
      BY <1>2, <2>2, PushedOther
    <3> QED BY <2>1, <3>1 DEF Asking
  <2>4. \A i \in DOMAIN up' : up'[i] = p \/ \E j \in DOMAIN up : up'[i] = up[j]
    BY <1>2, <2>1, <2>2, Pushed
  <2>5. PacketsRight' BY <1>1, <1>10, <2>1, <2>4, PacketsStay
  <2>6. up' \in Seq(Requests \cup Media) BY <1>2, <2>1, <2>2, AppendWire
  <2> QED BY <1>1, <1>3, <1>7, <1>8, <1>9, <2>3, <2>5, <2>6, MediaStep
<1> QED BY <1>6, <1>11, <1>12

\* The server reads a packet: its track hears it and may answer.
LEMMA ServerReadsInv ==
    ASSUME RtspAssumption, SessionInv, ServerReads
    PROVE  SessionInv'
<1>1. UNCHANGED <<client, fixed, over>> /\ up # <<>> /\ up' = Tail(up) /\ Asked.kind \in {"rtp", "report", "answer"}
  BY DEF ServerReads
<1>2. up \in Seq(Requests \cup Media) /\ down \in Seq(Responses \cup Media) /\ DOMAIN down \subseteq Nat
  BY DEF SessionInv, Typed
<1>3. Asked \in Media /\ Asked = up[1] /\ 1 \in DOMAIN up /\ up' \in Seq(Requests \cup Media)
  <2>1. Asked \in Requests \cup Media /\ Asked = up[1] /\ 1 \in DOMAIN up /\ Tail(up) \in Seq(Requests \cup Media)
    BY <1>1, <1>2, TailWire DEF Asked
  <2> QED BY <1>1, <2>1 DEF Requests
<1>4. OnTrack(Asked) BY <1>1, <1>3 DEF SessionInv, PacketsRight, OnChannel
<1>5. /\ Routes(server.tracks, Asked) = {Asked.type} /\ Asked.type \in Types /\ server.begun = "accepted"
      /\ server.tracks[Asked.type].proto = "tcp"
  BY <1>3, <1>4, Routed DEF Media, OnTrack
<1>6. /\ server' = Heard(server, Asked.type, Asked)
      /\ \/ down' = down
         \/ down' = Append(down, Packet("answer", Asked.type, server.tracks[Asked.type].ch[2]))
  BY <1>5 DEF ServerReads
<1>7. SameServer /\ server' \in Servers
  <2>1. server \in Servers BY DEF SessionInv, Typed
  <2>2. server.heard \cup {Asked.type} \in SUBSET Types BY <1>5, <2>1 DEF Servers
  <2>3. CASE server' = server BY <2>1, <2>3 DEF SameServer
  <2>4. CASE server' = [server EXCEPT !.heard = server.heard \cup {Asked.type}]
    BY <2>1, <2>2, <2>4 DEF SameServer, Servers
  <2> QED BY <1>6, <2>3, <2>4 DEF Heard
<1>8. SameClient /\ UNCHANGED client.last /\ client' \in Clients
  BY <1>1 DEF SameClient, SessionInv, Typed
<1>9. \A i \in Asking' : i + 1 \in Asking /\ up'[i] = up[i + 1]
  BY <1>1, <1>2, Popped DEF Asking
<1>10. \A i \in DOMAIN up' : \E j \in DOMAIN up : up'[i] = up[j] BY <1>1, <1>2, Popped
<1>11. CASE down' = down
  <2>1. \A i \in Answered' : i + 0 \in Answered /\ down'[i] = down[i + 0]
    BY <1>2, <1>11, Untouched DEF Answered
  <2>2. PacketsRight' BY <1>7, <1>10, <1>11, PacketsStay DEF SameServer
  <2> QED BY <1>1, <1>2, <1>3, <1>7, <1>8, <1>9, <1>11, <2>1, <2>2, MediaStep
<1>12. CASE down' = Append(down, Packet("answer", Asked.type, server.tracks[Asked.type].ch[2]))
  <2>1. PICK p \in Media : OnTrack(p) /\ down' = Append(down, p) BY <1>5, <1>12, PacketMade
  <2>2. p \in Responses \cup Media /\ p.kind # "response" BY DEF Media
  <2>3. \A i \in Answered' : i + 0 \in Answered /\ down'[i] = down[i + 0]
    <3>1. \A i \in OnWire(Append(down, p), "response") :
             i + 0 \in OnWire(down, "response") /\ Append(down, p)[i] = down[i + 0]
      BY <1>2, <2>2, PushedOther
    <3> QED BY <2>1, <3>1 DEF Answered
  <2>4. \A i \in DOMAIN down' : down'[i] = p \/ \E j \in DOMAIN down : down'[i] = down[j]
    BY <1>2, <2>1, <2>2, Pushed
  <2>5. PacketsRight' BY <1>7, <1>10, <2>1, <2>4, PacketsStay DEF SameServer
  <2>6. down' \in Seq(Responses \cup Media) BY <1>2, <2>1, <2>2, AppendWire
  <2> QED BY <1>1, <1>3, <1>7, <1>8, <1>9, <2>3, <2>5, <2>6, MediaStep
<1> QED BY <1>6, <1>11, <1>12

-------------------------------------------------------------------------------
(* The client's handlers.                                                    *)

\* authRetry is reset by every response but a 401.
LEMMA CalmMade ==
    ASSUME SessionInv
    PROVE  /\ client \in Clients /\ Calm \in Clients
           /\ Calm.state = client.state /\ Calm.handler = client.handler /\ Calm.last = client.last
           /\ Calm.nonce = client.nonce /\ Calm.session = client.session /\ Calm.step = client.step
           /\ Calm.medias = client.medias /\ Calm.tracks = client.tracks /\ Calm.prefer = client.prefer
<1>1. client \in Clients BY DEF SessionInv, Typed
<1> QED BY <1>1 DEF Calm, Clients

\* A response to SETUP makes the session of the client.
LEMMA SetupAnswered ==
    ASSUME RtspAssumption, SessionInv, Handles("handleSetup")
    PROVE  /\ ~Streaming /\ client.step \in 1 .. Len(client.medias) /\ server.begun # "accepted"
           /\ Setting \in Known(client.medias) /\ Ready(client.tracks[Setting])
           /\ Told.status = "OK" => /\ Told.session = 1 /\ server.session = 1
                                    /\ Told.tr = server.tracks[Setting] /\ Ready(Told.tr)
           /\ Told.status = "Unsupported_Transport" => client.tracks[Setting].proto \notin takes
<1>1. Hears /\ client.handler = "handleSetup" BY DEF Handles
<1>2. ~Streaming BY <1>1 DEF SessionInv, Stage
<1>3. client.step \in 1 .. Len(client.medias) /\ Ready(client.tracks[Setting])
  BY <1>1, <1>2 DEF SessionInv, Stage
<1>4. server.begun # "accepted" BY <1>1, <1>2 DEF SessionInv, Begun
<1>5. Setting \in Known(client.medias)
  <2>1. Setting \in Types BY <1>3, MediasHeld DEF Setting
  <2>2. client.tracks[Setting].proto # "absent" BY <1>3 DEF Ready
  <2> QED BY <2>1, <2>2 DEF SessionInv, Made
<1>6. StillSo(Told) BY <1>1, <1>2, ToldFacts DEF SessionInv, AsAnswered
<1> QED BY <1>1, <1>2, <1>3, <1>4, <1>5, <1>6 DEF StillSo

\* Responses after which the client asks for nothing and is where it was.
LEMMA QuietInv ==
    ASSUME RtspAssumption, SessionInv, Hears, Taken, over' \in {"none", "refused", "error"},
           Quiet(client) \/ Quiet(Calm)
    PROVE  SessionInv'
<1>1. up' = up /\ (client' = client \/ client' = Calm) BY DEF Quiet
<1>2. client' \in Clients /\ SameClient /\ UNCHANGED client.last BY <1>1, CalmMade DEF SameClient
<1> QED BY <1>1, <1>2, HearsQuiet

\* handleUnAuth sends the last request again.
LEMMA UnAuthInv ==
    ASSUME SessionInv, HandleUnAuth
    PROVE  SessionInv'
<1>1. Hears /\ Taken /\ client.retry < 1 /\ UNCHANGED over BY DEF HandleUnAuth, MayRetry
<1>2. PICK q \in Requests : q = [client.last EXCEPT !.nonce = Told.nonce]
  <2>1. client.last \in Requests BY DEF SessionInv, Typed, Clients
  <2>2. Told.nonce \in Nat BY <1>1, ToldFacts DEF Responses
  <2> QED BY <2>1, <2>2 DEF Requests
<1>3. /\ client' = [client EXCEPT !.retry = @ + 1, !.nonce = Told.nonce, !.last = q]
      /\ up' = Append(up, q)
  BY <1>2 DEF HandleUnAuth
<1>4. /\ client' \in Clients /\ client'.last = q /\ SameClient
      /\ UNCHANGED <<client.last.method, client.last.type, client.last.tr, client.last.medias, client.last.session>>
  <2>1. client \in Clients /\ Told.nonce \in Nat BY <1>1, ToldFacts DEF SessionInv, Typed, Responses
  <2>2. client.retry + 1 \in {0, 1} BY <1>1, <2>1 DEF Clients
  <2>3. client' \in Clients /\ client'.last = q BY <1>3, <2>1, <2>2 DEF Clients
  <2>4. SameClient BY <1>3, <2>1 DEF SameClient, Clients
  <2>5. client.last \in Requests BY <2>1 DEF Clients
  <2>6. /\ q.method = client.last.method /\ q.type = client.last.type /\ q.tr = client.last.tr
        /\ q.medias = client.last.medias /\ q.session = client.last.session
    BY <1>2, <2>5 DEF Requests
  <2> QED BY <2>3, <2>4, <2>6
<1>5. UNCHANGED <<server, fixed>> /\ SameServer BY <1>1 DEF Taken, SameServer
<1>6. /\ Made(client)' /\ One(client)' /\ ServerMade' /\ ChannelsApart' /\ Alike' /\ Begun'
      /\ Streaming' = Streaming
  BY <1>4, <1>5, SameSession
<1>7. Stage'
  <2>1. Asking \cup Answered # {} BY <1>1, ToldFacts
  <2> QED BY <1>4, <1>5, <2>1, SameStage
<1>8. CASE ~Streaming
  <2>1. /\ up' \in Seq(Requests \cup Media) /\ down' \in Seq(Responses \cup Media)
        /\ AsAsked' /\ AsAnswered' /\ PacketsRight'
    BY <1>1, <1>3, <1>4, <1>6, <1>8, HearsAsks
  <2>2. Typed' BY <1>1, <1>4, <1>5, <2>1 DEF SessionInv, Typed, SameClient, fixed
  <2> QED BY <1>6, <1>7, <2>1, <2>2 DEF SessionInv
<1>9. CASE Streaming
  <2>1. Answered # {} BY <1>1, ToldFacts
  <2>2. q.method \in {"OPTIONS", "GET_PARAMETER"} BY <1>4, <1>9, <2>1 DEF SessionInv, Stage
  <2>3. up \in Seq(Requests \cup Media) /\ q \in Requests \cup Media /\ q.kind = "request"
    BY DEF SessionInv, Typed, Requests
  <2>4. /\ Asking' = Asking \cup {Len(up) + 1} /\ up'[Len(up) + 1] = q /\ \A i \in Asking : up'[i] = up[i]
        /\ \A i \in DOMAIN up' : up'[i] = q \/ \E j \in DOMAIN up : up'[i] = up[j]
    <3>1. OnWire(Append(up, q), "request") = OnWire(up, "request") \cup {Len(up) + 1} BY <2>3, PushedKind
    <3>2. /\ Append(up, q)[Len(up) + 1] = q
          /\ \A i \in OnWire(up, "request") : Append(up, q)[i] = up[i]
          /\ \A i \in DOMAIN Append(up, q) : Append(up, q)[i] = q \/ \E j \in DOMAIN up : Append(up, q)[i] = up[j]
      BY <2>3, AppendWire DEF OnWire
    <3> QED BY <1>3, <3>1, <3>2 DEF Asking
  <2>5. AsAsked' BY <1>6, <1>9, <2>2, <2>4 DEF SessionInv, AsAsked
  <2>6. AsAnswered' BY <1>6, <1>9 DEF AsAnswered
  <2>7. down' = Tail(down) BY <1>1 DEF Taken
  <2>8. PacketsRight'
    <3>1. \A i \in DOMAIN down' : \E j \in DOMAIN down : down'[i] = down[j] BY <1>1, <2>7, ToldFacts
    <3> QED BY <1>5, <2>3, <2>4, <3>1, PacketsStay
  <2>9. up' \in Seq(Requests \cup Media) /\ down' \in Seq(Responses \cup Media)
    BY <1>1, <1>3, <2>3, <2>7, AppendWire, ToldFacts
  <2>10. Typed' BY <1>1, <1>4, <1>5, <2>9 DEF SessionInv, Typed, SameClient, fixed
  <2> QED BY <1>6, <1>7, <2>5, <2>6, <2>8, <2>10 DEF SessionInv
<1> QED BY <1>8, <1>9

-------------------------------------------------------------------------------
(* The client asks.                                                          *)

\* sendRtspRequest keeps the client but for the handler and the request.
LEMMA AskStep ==
    ASSUME NEW c \in Clients, NEW q \in Requests, NEW h \in Handlers, Ask(c, h, q)
    PROVE  /\ client' \in Clients /\ client'.handler = h
           /\ client'.last \in Requests /\ up' = Append(up, client'.last)
           /\ client'.last.method = q.method /\ client'.last.type = q.type /\ client'.last.tr = q.tr
           /\ client'.last.medias = q.medias /\ client'.last.session = c.session
           /\ client'.state = c.state /\ client'.session = c.session /\ client'.step = c.step
           /\ client'.medias = c.medias /\ client'.tracks = c.tracks
<1>1. c.nonce \in Nat /\ c.session \in {0, 1} BY DEF Clients
<1>2. PICK r \in Requests : r = Stamp(c, q) BY <1>1 DEF Stamp, Requests
<1>3. /\ r.method = q.method /\ r.type = q.type /\ r.tr = q.tr /\ r.medias = q.medias
      /\ r.session = c.session
  BY <1>2 DEF Stamp, Requests
<1>4. client' = [c EXCEPT !.handler = h, !.last = r] /\ up' = Append(up, r) BY <1>2 DEF Ask
<1> QED BY <1>3, <1>4 DEF Clients

\* What a request without transport and medias is.
LEMMA PlainMade ==
    ASSUME NEW method \in Methods
    PROVE  Plain(method) \in Requests /\ Plain(method).method = method
<1> QED BY ResponseMade DEF Plain, Request, Requests, Lists, Statuses

\* The client starts (Start).
LEMMA StartInv ==
    ASSUME SessionInv, Start
    PROVE  SessionInv'
<1>1. /\ client.handler = "none" /\ client.state = "Init" /\ ~Streaming
      /\ UNCHANGED <<fixed, down, server, over>>
  BY DEF Start, Streaming, Started
<1>2. PICK c \in Clients : c = client BY DEF SessionInv, Typed
<1>3. PICK q \in Requests : q = Plain("OPTIONS") /\ q.method = "OPTIONS" BY PlainMade DEF Methods
<1>4. Ask(c, "handleOption", q) BY <1>2, <1>3 DEF Start
<1>5. /\ client' \in Clients /\ client'.handler = "handleOption"
      /\ client'.last \in Requests /\ up' = Append(up, client'.last)
      /\ client'.last.method = "OPTIONS" /\ client'.last.session = client'.session
      /\ UNCHANGED <<client.state, client.session, client.step, client.medias, client.tracks>>
  BY <1>2, <1>3, <1>4, AskStep DEF Handlers
<1>6. Asking = {} /\ Answered = {} BY <1>1 DEF SessionInv, Stage
<1>7. /\ client.step = 0 /\ server.session = 0 /\ (client.session # 0 => handled /\ server.session = 1)
      /\ \A t \in Types : ~Ready(server.tracks[t])
  BY <1>1 DEF SessionInv, Stage
<1>8. PICK r \in Requests : r = client'.last BY <1>5
<1>9. up \in Seq(Requests \cup Media) /\ r \in Requests \cup Media /\ r.kind = "request"
  BY DEF SessionInv, Typed, Requests
<1>10. /\ up' \in Seq(Requests \cup Media)
       /\ Asking' = Asking \cup {Len(up) + 1} /\ up'[Len(up) + 1] = r
       /\ \A i \in DOMAIN up' : up'[i] = r \/ \E j \in DOMAIN up : up'[i] = up[j]
  <2>1. OnWire(Append(up, r), "request") = OnWire(up, "request") \cup {Len(up) + 1} BY <1>9, PushedKind
  <2>2. /\ Append(up, r) \in Seq(Requests \cup Media) /\ Append(up, r)[Len(up) + 1] = r
        /\ \A i \in DOMAIN Append(up, r) : Append(up, r)[i] = r \/ \E j \in DOMAIN up : Append(up, r)[i] = up[j]
    BY <1>9, AppendWire
  <2> QED BY <1>5, <1>8, <2>1, <2>2 DEF Asking
<1>11. ~Streaming' /\ Answered' = {} BY <1>1, <1>5, <1>6 DEF Streaming, Answered
<1>12. AsAsked' BY <1>6, <1>8, <1>10, <1>11 DEF AsAsked
<1>13. AsAnswered' BY <1>11 DEF AsAnswered
<1>14. PacketsRight' BY <1>1, <1>9, <1>10, PacketsStay
<1>15. Typed' BY <1>1, <1>5, <1>10 DEF SessionInv, Typed, fixed
<1>16. Made(client)' /\ One(client)' /\ ServerMade' /\ ChannelsApart'
  BY <1>1, <1>5 DEF SessionInv, Made, One, ServerMade, ChannelsApart, fixed
<1>17. Stage' BY <1>1, <1>5, <1>7, <1>11 DEF Stage, fixed
<1>18. Alike' BY <1>5, <1>11 DEF Alike, SetUp
<1>19. Begun' BY <1>1, <1>5, <1>11 DEF SessionInv, Begun
<1> QED BY <1>12, <1>13, <1>14, <1>15, <1>16, <1>17, <1>18, <1>19 DEF SessionInv

\* The client keeps the stream alive (KeepAlive), once it has started.
LEMMA KeepAliveInv ==
    ASSUME SessionInv, KeepAlive, AliveFrom = "start"
    PROVE  SessionInv'
<1>1. Streaming /\ UNCHANGED <<fixed, down, server, over>>
  BY DEF KeepAlive, Streaming
<1>2. PICK c \in Clients : c = client BY DEF SessionInv, Typed
<1>3. PICK q \in Requests, h \in {"handleOption", "handleGetParameter"} :
         q.method \in {"OPTIONS", "GET_PARAMETER"} /\ Ask(c, h, q)
  <2>1. CASE Ask(client, "handleOption", Plain("OPTIONS")) BY <1>2, <2>1, PlainMade DEF Methods
  <2>2. CASE Ask(client, "handleGetParameter", Plain("GET_PARAMETER")) BY <1>2, <2>2, PlainMade DEF Methods
  <2> QED BY <2>1, <2>2 DEF KeepAlive
<1>4. /\ client' \in Clients /\ client'.handler = h
      /\ client'.last \in Requests /\ up' = Append(up, client'.last)
      /\ client'.last.method = q.method /\ client'.last.session = client'.session
      /\ UNCHANGED <<client.state, client.session, client.step, client.medias, client.tracks>>
  BY <1>2, <1>3, AskStep DEF Handlers
<1>5. PICK r \in Requests : r = client'.last BY <1>4
<1>6. up \in Seq(Requests \cup Media) /\ r \in Requests \cup Media /\ r.kind = "request"
  BY DEF SessionInv, Typed, Requests
<1>7. /\ up' \in Seq(Requests \cup Media)
      /\ Asking' = Asking \cup {Len(up) + 1} /\ up'[Len(up) + 1] = r
      /\ \A i \in Asking : up'[i] = up[i]
      /\ \A i \in DOMAIN up' : up'[i] = r \/ \E j \in DOMAIN up : up'[i] = up[j]
  <2>1. OnWire(Append(up, r), "request") = OnWire(up, "request") \cup {Len(up) + 1} BY <1>6, PushedKind
  <2>2. /\ Append(up, r) \in Seq(Requests \cup Media) /\ Append(up, r)[Len(up) + 1] = r
        /\ \A i \in OnWire(up, "request") : Append(up, r)[i] = up[i]
        /\ \A i \in DOMAIN Append(up, r) : Append(up, r)[i] = r \/ \E j \in DOMAIN up : Append(up, r)[i] = up[j]
    BY <1>6, AppendWire DEF OnWire
  <2> QED BY <1>4, <1>5, <2>1, <2>2 DEF Asking
<1>8. Streaming' BY <1>1, <1>4 DEF Streaming
<1>9. AsAsked' BY <1>1, <1>3, <1>4, <1>5, <1>7, <1>8 DEF SessionInv, AsAsked
<1>10. AsAnswered' BY <1>8 DEF AsAnswered
<1>11. PacketsRight' BY <1>1, <1>6, <1>7, PacketsStay
<1>12. Typed' BY <1>1, <1>4, <1>7 DEF SessionInv, Typed, fixed
<1>13. Made(client)' /\ One(client)' /\ ServerMade' /\ ChannelsApart'
  BY <1>1, <1>4 DEF SessionInv, Made, One, ServerMade, ChannelsApart, fixed
<1>14. Stage' BY <1>1, <1>3, <1>4, <1>8 DEF SessionInv, Stage, fixed
<1>15. Alike' BY <1>1, <1>4, <1>8 DEF SessionInv, Alike, SetUp, fixed
<1>16. Begun' BY <1>1, <1>4, <1>8 DEF SessionInv, Begun
<1> QED BY <1>9, <1>10, <1>11, <1>12, <1>13, <1>14, <1>15, <1>16 DEF SessionInv

\* The stream starts (handlePlay, handleRecord).
LEMMA PlayInv ==
    ASSUME RtspAssumption, SessionInv, HandlePlay
    PROVE  SessionInv'
<1>1. /\ Hears /\ Taken /\ client.handler = "handlePlay" /\ Told.status = "OK" /\ UNCHANGED <<up, over>>
      /\ client' = [Calm EXCEPT !.state = IF mode = "record" THEN "Recording" ELSE "Playing"]
  BY DEF HandlePlay, Handles, Quiet
<1>2. UNCHANGED <<server, fixed>> /\ down' = Tail(down) BY <1>1 DEF Taken
<1>3. ~Streaming
  <2>1. Answered # {} BY <1>1, ToldFacts
  <2> QED BY <1>1, <2>1 DEF SessionInv, Stage
<1>4. Asking = {} /\ Answered = {1} /\ OnWire(Tail(down), "response") = {} /\ Told = down[1]
  BY <1>1, <1>3, ToldFacts
<1>5. server.begun = "accepted"
  <2>1. StillSo(Told) BY <1>3, <1>4 DEF SessionInv, AsAnswered
  <2> QED BY <1>1, <2>1 DEF StillSo
<1>6. /\ client' \in Clients /\ client'.state \in Started
      /\ UNCHANGED <<client.handler, client.last, client.session, client.step, client.medias, client.tracks>>
  <2>1. PICK s \in Started : client' = [Calm EXCEPT !.state = s] BY <1>1 DEF Started
  <2> QED BY <2>1, CalmMade DEF Clients
<1>7. Streaming' BY <1>6 DEF Streaming
<1>8. Asking' = {} /\ Answered' = {} BY <1>1, <1>2, <1>4 DEF Asking, Answered
<1>9. PacketsRight'
  <2>1. \A i \in DOMAIN up' : \E j \in DOMAIN up : up'[i] = up[j] BY <1>1
  <2>2. \A i \in DOMAIN down' : \E j \in DOMAIN down : down'[i] = down[j] BY <1>1, <1>2, ToldFacts
  <2> QED BY <1>2, <2>1, <2>2, PacketsStay
<1>10. Typed' BY <1>1, <1>2, <1>6, ToldFacts DEF SessionInv, Typed, fixed
<1>11. Made(client)' /\ One(client)' /\ ServerMade' /\ ChannelsApart'
  BY <1>2, <1>6 DEF SessionInv, Made, One, ServerMade, ChannelsApart, fixed
<1>12. Stage' BY <1>1, <1>2, <1>6, <1>7, <1>8 DEF SessionInv, Stage, fixed
<1>13. AsAsked' /\ AsAnswered' BY <1>7, <1>8 DEF AsAsked, AsAnswered
<1>14. Alike' BY <1>1, <1>2, <1>6, <1>7 DEF SessionInv, Alike, SetUp, fixed
<1>15. Begun' BY <1>2, <1>5, <1>6, <1>7 DEF SessionInv, Begun
<1> QED BY <1>9, <1>10, <1>11, <1>12, <1>13, <1>14, <1>15 DEF SessionInv

\* In Init the session goes on with DESCRIBE or ANNOUNCE (handleOption).
LEMMA OptionInv ==
    ASSUME RtspAssumption, SessionInv, HandleOption
    PROVE  SessionInv'
<1>1. Hears /\ Taken /\ client.handler = "handleOption" /\ UNCHANGED over BY DEF HandleOption, Handles
<1>2. CASE client.state # "Init" BY <1>1, <1>2, QuietInv DEF HandleOption, SessionInv, Typed
<1>3. CASE client.state = "Init"
  <2>1. ~Streaming BY <1>3 DEF Streaming, Started
  <2>2. PICK c \in Clients : c = Calm BY CalmMade
  <2>3. PICK q \in Requests, h \in {"handleDescribe", "handleAnnounce"} :
           /\ Ask(c, h, q)
           /\ h = "handleDescribe" => q.method = "DESCRIBE"
           /\ h = "handleAnnounce" => q.method = "ANNOUNCE" /\ q.medias = client.medias
    <3>1. CASE mode = "record"
      <4>1. PICK q \in Requests : /\ q = Request("ANNOUNCE", "", Unset, client.medias)
                                  /\ q.method = "ANNOUNCE" /\ q.medias = client.medias
        <5>1. PICK o \in Lists : o = client.medias BY CalmMade DEF Clients
        <5>2. Unset \in Transport BY ResponseMade DEF Statuses
        <5>3. PICK q \in Requests : /\ q = Request("ANNOUNCE", "", Unset, o)
                                   /\ q.method = "ANNOUNCE" /\ q.medias = o
          <6>1. "ANNOUNCE" \in Methods /\ "" \in Types \cup {""} BY DEF Methods
          <6>2. PICK q : q = Request("ANNOUNCE", "", Unset, o) OBVIOUS
          <6>3. q \in Requests /\ q.method = "ANNOUNCE" /\ q.medias = o BY <5>2, <6>1, <6>2 DEF Request, Requests
          <6> QED BY <6>2, <6>3
        <5> QED BY <5>1, <5>3
      <4> QED BY <1>3, <2>2, <3>1, <4>1 DEF HandleOption
    <3>2. CASE mode # "record" BY <1>3, <2>2, <3>2, PlainMade DEF HandleOption, Methods
    <3> QED BY <3>1, <3>2
  <2>4. /\ client' \in Clients /\ client'.handler = h
        /\ client'.last \in Requests /\ up' = Append(up, client'.last)
        /\ client'.last.method = q.method /\ client'.last.medias = q.medias
        /\ client'.last.session = client'.session
        /\ UNCHANGED <<client.state, client.session, client.step, client.medias, client.tracks>>
    BY <2>2, <2>3, CalmMade, AskStep DEF Handlers
  <2>5. UNCHANGED <<server, fixed>> BY <1>1 DEF Taken
  <2>6. ~Streaming' BY <2>1, <2>4 DEF Streaming
  <2>7. /\ up' \in Seq(Requests \cup Media) /\ down' \in Seq(Responses \cup Media)
        /\ AsAsked' /\ AsAnswered' /\ PacketsRight'
    BY <1>1, <2>1, <2>4, <2>6, HearsAsks
  <2>8. /\ client.step = 0 /\ server.session = 0 /\ (client.session # 0 => handled /\ server.session = 1)
        /\ \A t \in Types : ~Ready(server.tracks[t])
    BY <1>1, <2>1 DEF SessionInv, Stage
  <2>9. Typed' BY <1>1, <2>4, <2>5, <2>7 DEF SessionInv, Typed, fixed
  <2>10. Made(client)' /\ One(client)' /\ ServerMade' /\ ChannelsApart'
    BY <2>4, <2>5 DEF SessionInv, Made, One, ServerMade, ChannelsApart, fixed
  <2>11. Stage' BY <1>3, <2>3, <2>4, <2>5, <2>6, <2>8 DEF Stage, fixed
  <2>12. Alike' BY <2>3, <2>4, <2>6 DEF Alike, SetUp
  <2>13. Begun'
    <3>1. server.begun # "accepted" BY <1>1, <2>1 DEF SessionInv, Begun
    <3> QED BY <2>5, <2>6, <3>1 DEF Begun
  <2> QED BY <2>7, <2>9, <2>10, <2>11, <2>12, <2>13 DEF SessionInv
<1> QED BY <1>2, <1>3

\* The client asks for the transport of a media (sendNextSetup), of those it
\* has before it or the one it asked for last.
LEMMA AskSetupInv ==
    ASSUME RtspAssumption, SessionInv, Hears, Taken, ~Streaming, server.begun # "accepted",
           UNCHANGED over,
           NEW c \in Clients, Made(c), One(c), c.state \in {"Init", "Ready"},
           c.session # 0 => handled /\ server.session = 1,
           NEW i \in 1 .. Len(c.medias), c.tracks[c.medias[i].type].proto # "absent",
           handled => \A j \in 1 .. (i - 1) : c.medias[j].type \in Known(c.medias) =>
                         /\ Ready(c.tracks[c.medias[j].type])
                         /\ c.tracks[c.medias[j].type] = server.tracks[c.medias[j].type],
           AskSetup(c, i)
    PROVE  SessionInv'
<1>1. /\ c.medias \in Lists /\ Len(c.medias) \in Nat /\ i \in Nat
      /\ \A j \in 1 .. Len(c.medias) : c.medias[j].type \in Types
      /\ \A j, k \in 1 .. Len(c.medias) : j # k => c.medias[j].type # c.medias[k].type
      /\ Known(c.medias) \subseteq Types
  <2>1. c.medias \in Lists BY DEF Clients
  <2> QED BY <2>1, ListFacts
<1>2. PICK type \in Types : type = c.medias[i].type BY <1>1
<1>3. type \in Known(c.medias) BY <1>2 DEF Made
<1>4. PICK tr \in Transport : /\ tr = Numbered(c.tracks[type], i)
                              /\ Ready(tr) /\ tr.proto = Eff(c.tracks[type])
                              /\ tr.proto # "tcp" => tr.ch = <<0, 0>>
  <2>1. c.tracks[type] \in Transport /\ c.tracks[type].proto \in {"unset", "tcp", "udp"}
    BY <1>2 DEF Clients, Transport, Protos
  <2>2. 2 * i - 2 \in Nat /\ 2 * i - 1 \in Nat BY <1>1
  <2>3. c.tracks[type].proto # "tcp" => c.tracks[type].ch = <<0, 0>> BY DEF Made
  <2>4. CASE c.tracks[type].proto = "unset" \/ (c.tracks[type].proto = "tcp" /\ c.tracks[type].ch[1] = c.tracks[type].ch[2])
    <3>1. Numbered(c.tracks[type], i) = [proto |-> "tcp", ch |-> <<2 * i - 2, 2 * i - 1>>]
      BY <2>4 DEF Numbered
    <3> QED BY <2>2, <2>4, <3>1 DEF Transport, Protos, Ready, Eff
  <2>5. CASE ~(c.tracks[type].proto = "unset" \/ (c.tracks[type].proto = "tcp" /\ c.tracks[type].ch[1] = c.tracks[type].ch[2]))
    <3>1. Numbered(c.tracks[type], i) = c.tracks[type] BY <2>5 DEF Numbered
    <3> QED BY <2>1, <2>3, <2>5, <3>1 DEF Ready, Eff
  <2> QED BY <2>4, <2>5
<1>5. PICK d \in Clients : /\ d = [c EXCEPT !.tracks[type] = tr, !.step = i]
                           /\ d.tracks = [c.tracks EXCEPT ![type] = tr] /\ d.step = i
                           /\ d.state = c.state /\ d.session = c.session /\ d.medias = c.medias
  <2>1. [c.tracks EXCEPT ![type] = tr] \in [Types -> Transport] BY DEF Clients
  <2>2. PICK d : d = [c EXCEPT !.tracks[type] = tr, !.step = i] OBVIOUS
  <2>3. d \in Clients BY <1>1, <2>1, <2>2 DEF Clients
  <2>4. /\ d.tracks = [c.tracks EXCEPT ![type] = tr] /\ d.step = i
        /\ d.state = c.state /\ d.session = c.session /\ d.medias = c.medias
    BY <2>2 DEF Clients
  <2> QED BY <2>2, <2>3, <2>4
<1>6. /\ d.tracks[type] = tr
      /\ \A t \in Types : t # type => d.tracks[t] = c.tracks[t]
  <2>1. c.tracks \in [Types -> Transport] BY DEF Clients
  <2> QED BY <1>5, <2>1
<1>7. PICK q \in Requests : /\ q = Request("SETUP", type, tr, <<>>)
                            /\ q.method = "SETUP" /\ q.type = type /\ q.tr = tr
  <2>1. <<>> \in Lists /\ "SETUP" \in Methods /\ type \in Types \cup {""} BY DEF Lists, Methods
  <2>2. PICK q : q = Request("SETUP", type, tr, <<>>) OBVIOUS
  <2>3. q \in Requests /\ q.method = "SETUP" /\ q.type = type /\ q.tr = tr BY <2>1, <2>2 DEF Request, Requests
  <2> QED BY <2>2, <2>3
<1>8. Ask(d, "handleSetup", q) BY <1>2, <1>4, <1>5, <1>7 DEF AskSetup
<1>9. /\ client' \in Clients /\ client'.handler = "handleSetup"
      /\ client'.last \in Requests /\ up' = Append(up, client'.last)
      /\ client'.last.method = "SETUP" /\ client'.last.type = type /\ client'.last.tr = tr
      /\ client'.last.session = client'.session
      /\ client'.state = c.state /\ client'.session = c.session /\ client'.step = i
      /\ client'.medias = c.medias /\ client'.tracks = d.tracks
  BY <1>5, <1>7, <1>8, AskStep DEF Handlers
<1>10. UNCHANGED <<server, fixed>> BY DEF Taken
<1>11. ~Streaming' BY <1>9 DEF Streaming, Started
<1>12. /\ up' \in Seq(Requests \cup Media) /\ down' \in Seq(Responses \cup Media)
       /\ AsAsked' /\ AsAnswered' /\ PacketsRight'
  BY <1>9, <1>11, HearsAsks
<1>13. Setting' = type BY <1>2, <1>9 DEF Setting
<1>14. Typed' BY <1>1, <1>9, <1>10, <1>12 DEF SessionInv, Typed, fixed
<1>15. Made(client)'
  <2>1. \A t \in Types : Ready(server.tracks[t]) => t \in Known(c.medias) BY DEF Made
  <2>2. \A t \in Types : /\ d.tracks[t].proto = "absent" <=> t \notin Known(c.medias)
                         /\ d.tracks[t].proto # "tcp" => d.tracks[t].ch = <<0, 0>>
    BY <1>3, <1>4, <1>6 DEF Made, Ready
  <2> QED BY <1>9, <1>10, <2>1, <2>2 DEF Made
<1>16. One(client)'
  <2>1. \A t \in Known(c.medias) : Eff(d.tracks[t]) = Eff(c.tracks[t])
    BY <1>1, <1>4, <1>6 DEF Eff, Ready
  <2>2. \A t, u \in Known(c.medias) :
           /\ Eff(d.tracks[t]) = Eff(d.tracks[u])
           /\ Ready(server.tracks[t]) => server.tracks[t].proto = Eff(d.tracks[u])
    BY <2>1 DEF One
  <2> QED BY <1>9, <1>10, <2>2 DEF One
<1>17. ServerMade' /\ ChannelsApart' BY <1>10 DEF SessionInv, ServerMade, ChannelsApart, fixed
<1>18. Stage' BY <1>4, <1>6, <1>9, <1>10, <1>11, <1>13 DEF Stage, fixed
<1>19. Alike'
  <2>1. SetUp' = {c.medias[j].type : j \in 1 .. (i - 1)} \cap Known(c.medias)
    BY <1>9, <1>11 DEF SetUp
  <2>2. ASSUME handled, NEW j \in 1 .. (i - 1), c.medias[j].type \in Known(c.medias)
        PROVE  /\ Ready(d.tracks[c.medias[j].type])
               /\ d.tracks[c.medias[j].type] = server.tracks[c.medias[j].type]
    <3>1. j \in 1 .. Len(c.medias) /\ j # i BY <1>1
    <3>2. c.medias[j].type # type /\ c.medias[j].type \in Types BY <1>1, <1>2, <3>1
    <3> QED BY <1>6, <2>2, <3>2
  <2> QED BY <1>9, <1>10, <2>1, <2>2 DEF Alike, fixed
<1>20. Begun' BY <1>10, <1>11 DEF Begun
<1> QED BY <1>12, <1>14, <1>15, <1>16, <1>17, <1>18, <1>19, <1>20 DEF SessionInv

\* The next media is the first of those left, so all before it are set up.
LEMMA NextSetupInv ==
    ASSUME RtspAssumption, SessionInv, Hears, Taken, ~Streaming, server.begun # "accepted",
           UNCHANGED over,
           NEW c \in Clients, Made(c), One(c), c.state \in {"Init", "Ready"},
           c.session # 0 => handled /\ server.session = 1,
           Left(c) # {},
           handled => \A j \in 1 .. c.step : c.medias[j].type \in Known(c.medias) =>
                         /\ Ready(c.tracks[c.medias[j].type])
                         /\ c.tracks[c.medias[j].type] = server.tracks[c.medias[j].type],
           SendNextSetup(c)
    PROVE  SessionInv'
<1>1. /\ c.step \in Nat /\ Len(c.medias) \in Nat
      /\ \A j \in 1 .. Len(c.medias) : c.medias[j].type \in Types
  <2>1. c.medias \in Lists /\ c.step \in Nat BY DEF Clients
  <2> QED BY <2>1, ListFacts
<1>2. PICK i : i = CHOOSE m \in Left(c) : \A j \in Left(c) : m <= j OBVIOUS
<1>3. i \in Left(c) /\ \A j \in Left(c) : i <= j BY <1>1, <1>2, NextLeft
<1>4. i \in 1 .. Len(c.medias) /\ c.tracks[c.medias[i].type].proto # "absent" /\ i > c.step
  BY <1>1, <1>3 DEF Left
<1>5. ASSUME handled, NEW j \in 1 .. (i - 1), c.medias[j].type \in Known(c.medias)
      PROVE  /\ Ready(c.tracks[c.medias[j].type])
             /\ c.tracks[c.medias[j].type] = server.tracks[c.medias[j].type]
  <2>1. j \in 1 .. Len(c.medias) BY <1>1, <1>4
  <2>2. c.tracks[c.medias[j].type].proto # "absent" BY <1>1, <1>5, <2>1 DEF Made
  <2>3. j \notin Left(c) BY <1>1, <1>3, <1>4
  <2>4. j \in 1 .. c.step BY <1>1, <2>1, <2>2, <2>3 DEF Left
  <2> QED BY <1>5, <2>4
<1>6. AskSetup(c, i) BY <1>2 DEF SendNextSetup
<1> QED BY <1>4, <1>5, <1>6, AskSetupInv

\* The client takes the medias of the description (handleDescribe).
LEMMA DescribeInv ==
    ASSUME RtspAssumption, SessionInv, HandleDescribe
    PROVE  SessionInv'
<1>1. Hears /\ Taken /\ client.handler = "handleDescribe" /\ Told.status = "OK" /\ UNCHANGED over
  BY DEF HandleDescribe, Handles
<1>2. ~Streaming /\ server.begun # "accepted" BY <1>1 DEF SessionInv, Stage, Begun
<1>3. /\ client.state = "Init" /\ client.step = 0 /\ server.session = 0
      /\ client.last.method = "DESCRIBE" /\ client.last.session = client.session /\ client.session = 0
      /\ \A t \in Types : ~Ready(server.tracks[t])
  BY <1>1, <1>2, CalmMade DEF SessionInv, Stage, Clients
<1>4. PICK tr \in Transport : /\ tr = First(client.prefer) /\ tr.proto # "absent"
                              /\ tr.ch = <<0, 0>>
  <2>1. client.prefer \in {"unset", "tcp", "udp"} BY CalmMade DEF Clients
  <2>2. PICK tr : tr = First(client.prefer) OBVIOUS
  <2>3. tr \in Transport /\ tr.proto # "absent" /\ tr.ch = <<0, 0>>
    BY <2>1, <2>2 DEF First, Unset, New, Transport, Protos
  <2> QED BY <2>2, <2>3
<1>5. PICK o \in Lists : o = Told.medias BY <1>1, ToldFacts DEF Responses
<1>6. Known(o) \subseteq Types BY ListFacts
<1>7. PICK c : c = [Calm EXCEPT !.medias = o, !.tracks = Tracks(o, tr)] OBVIOUS
<1>8. /\ c \in Clients /\ c.medias = o /\ c.tracks = Tracks(o, tr) /\ c.step = 0 /\ c.state = "Init"
      /\ c.handler = "handleDescribe" /\ c.last = client.last /\ c.session = 0
  <2>1. Absent \in Transport BY DEF Absent, Transport, Protos
  <2>2. Tracks(o, tr) \in [Types -> Transport] BY <2>1 DEF Tracks
  <2>3. Calm \in Clients BY CalmMade
  <2>4. c \in Clients BY <1>7, <2>2, <2>3 DEF Clients
  <2>5. c.medias = o /\ c.tracks = Tracks(o, tr) BY <1>7, <2>3 DEF Clients
  <2>6. /\ c.step = Calm.step /\ c.state = Calm.state /\ c.handler = Calm.handler /\ c.last = Calm.last
        /\ c.session = Calm.session
    BY <1>7, <2>3 DEF Clients
  <2> QED BY <1>1, <1>3, <2>4, <2>5, <2>6, CalmMade
<1>9. \A t \in Types : c.tracks[t] = IF t \in Known(o) THEN tr ELSE Absent BY <1>8 DEF Tracks
<1>10. Made(c) BY <1>3, <1>4, <1>8, <1>9 DEF Made, Absent
<1>11. One(c) BY <1>3, <1>6, <1>8, <1>9 DEF One
<1>12. IF Left(c) = {} THEN Quiet(c) ELSE SendNextSetup(c) BY <1>4, <1>5, <1>7 DEF HandleDescribe
<1>13. CASE Left(c) = {}
  <2>1. client' = c /\ up' = up BY <1>12, <1>13 DEF Quiet
  <2>2. UNCHANGED <<server, fixed>> /\ down' = Tail(down) BY <1>1 DEF Taken
  <2>3. Asking' = {} /\ Answered' = {}
    BY <1>1, <1>2, <2>1, <2>2, ToldFacts DEF Asking, Answered
  <2>4. ~Streaming' BY <1>8, <2>1 DEF Streaming, Started
  <2>5. Typed'
    <3>1. Len(o) \in Nat BY ListFacts
    <3> QED BY <1>1, <1>8, <2>1, <2>2, <3>1, ToldFacts DEF SessionInv, Typed, fixed
  <2>6. Made(client)' /\ One(client)' BY <1>10, <1>11, <2>1, <2>2 DEF Made, One
  <2>7. ServerMade' /\ ChannelsApart' BY <2>2 DEF SessionInv, ServerMade, ChannelsApart, fixed
  <2>8. Stage' BY <1>3, <1>8, <2>1, <2>2, <2>4 DEF Stage, fixed
  <2>9. AsAsked' /\ AsAnswered' BY <2>3, <2>4 DEF AsAsked, AsAnswered
  <2>10. Alike' BY <1>8, <2>1, <2>4 DEF Alike, SetUp
  <2>11. Begun' BY <1>2, <2>2, <2>4 DEF Begun
  <2>12. PacketsRight'
    <3>1. \A i \in DOMAIN up' : \E j \in DOMAIN up : up'[i] = up[j] BY <2>1
    <3>2. \A i \in DOMAIN down' : \E j \in DOMAIN down : down'[i] = down[j] BY <1>1, <2>2, ToldFacts
    <3> QED BY <2>2, <3>1, <3>2, PacketsStay
  <2> QED BY <2>5, <2>6, <2>7, <2>8, <2>9, <2>10, <2>11, <2>12 DEF SessionInv
<1>14. CASE Left(c) # {}
  <2>1. SendNextSetup(c) BY <1>12, <1>14
  <2>2. \A j \in 1 .. c.step : FALSE BY <1>8
  <2> QED BY <1>1, <1>2, <1>8, <1>10, <1>11, <1>14, <2>1, <2>2, NextSetupInv
<1> QED BY <1>13, <1>14

\* The client sets up what it announced (handleAnnounce).
LEMMA AnnouncedInv ==
    ASSUME RtspAssumption, SessionInv, HandleAnnounce
    PROVE  SessionInv'
<1>1. Hears /\ Taken /\ client.handler = "handleAnnounce" BY DEF HandleAnnounce, Handles
<1>2. ~Streaming /\ server.begun # "accepted" BY <1>1 DEF SessionInv, Stage, Begun
<1>3. client.state = "Init" /\ client.step = 0 /\ (client.session # 0 => handled /\ server.session = 1)
  BY <1>1, <1>2 DEF SessionInv, Stage
<1>4. PICK c \in Clients : c = Calm BY CalmMade
<1>5. CASE Left(c) = {} BY <1>1, <1>4, <1>5, QuietInv DEF HandleAnnounce
<1>6. CASE Left(c) # {}
  <2>1. SendNextSetup(c) /\ UNCHANGED over BY <1>4, <1>6 DEF HandleAnnounce
  <2>2. /\ c.state = client.state /\ c.step = client.step /\ c.session = client.session
        /\ c.medias = client.medias /\ c.tracks = client.tracks
    BY <1>4, CalmMade
  <2>3. Made(c) /\ One(c) BY <2>2 DEF SessionInv, Made, One
  <2>4. \A j \in 1 .. c.step : FALSE BY <1>3, <2>2
  <2> QED BY <1>1, <1>2, <1>3, <1>6, <2>1, <2>2, <2>3, <2>4, NextSetupInv
<1> QED BY <1>5, <1>6

\* The handle switches all tracks to the other transport after a 461, which
\* only comes for the first media (OnResponse, with the tracks of the client).
LEMMA SwitchInv ==
    ASSUME RtspAssumption, SessionInv, HandleSetupSwitch
    PROVE  SessionInv'
<1>1. Hears /\ Taken /\ Handles("handleSetup") /\ Told.status = "Unsupported_Transport" /\ handled /\ UNCHANGED over
  BY DEF HandleSetupSwitch, Handles
<1>2. /\ ~Streaming /\ client.step \in 1 .. Len(client.medias) /\ server.begun # "accepted"
      /\ Setting \in Known(client.medias) /\ Ready(client.tracks[Setting])
      /\ client.tracks[Setting].proto \notin takes
  BY <1>1, SetupAnswered
<1>3. \A t \in Types : ~Ready(server.tracks[t])
  <2>1. SUFFICES ASSUME NEW t \in Types, Ready(server.tracks[t]) PROVE FALSE OBVIOUS
  <2>2. t \in Known(client.medias) BY <2>1 DEF SessionInv, Made
  <2>3. server.tracks[t].proto = Eff(client.tracks[Setting]) BY <1>2, <2>1, <2>2 DEF SessionInv, One
  <2>4. server.tracks[t].proto \in takes BY <2>1 DEF SessionInv, ServerMade
  <2> QED BY <1>2, <2>3, <2>4 DEF Eff, Ready
<1>4. PICK p \in {"tcp", "udp"} : p = Other(client.tracks[Setting].proto) BY DEF Other
<1>5. PICK c : c = [Calm EXCEPT !.switched = TRUE,
                                !.tracks = [t \in Types |-> IF @[t] = Absent THEN Absent ELSE New(p)]] OBVIOUS
<1>6. AskSetup(c, client.step) BY <1>4, <1>5 DEF HandleSetupSwitch
<1>7. /\ c \in Clients /\ c.state = client.state /\ c.session = client.session /\ c.medias = client.medias
      /\ c.tracks = [t \in Types |-> IF client.tracks[t] = Absent THEN Absent ELSE New(p)]
  <2>1. PICK f : f = [t \in Types |-> IF client.tracks[t] = Absent THEN Absent ELSE New(p)] OBVIOUS
  <2>2. f \in [Types -> Transport]
    <3>1. Absent \in Transport /\ New(p) \in Transport BY DEF Absent, New, Transport, Protos
    <3> QED BY <2>1, <3>1
  <2>3. Calm \in Clients /\ Calm.tracks = client.tracks BY CalmMade
  <2>4. c = [Calm EXCEPT !.switched = TRUE, !.tracks = f] BY <1>5, <2>1, <2>3
  <2>5. /\ c \in Clients /\ c.tracks = f
        /\ c.state = Calm.state /\ c.session = Calm.session /\ c.medias = Calm.medias
    BY <2>2, <2>3, <2>4 DEF Clients
  <2> QED BY <2>1, <2>5, CalmMade
<1>8. \A t \in Types : c.tracks[t] = IF t \in Known(client.medias) THEN New(p) ELSE Absent
  <2>1. ASSUME NEW t \in Types PROVE client.tracks[t] = Absent <=> t \notin Known(client.medias)
    <3>1. client.tracks[t] \in Transport BY CalmMade DEF Clients
    <3>2. client.tracks[t].proto = "absent" => client.tracks[t].ch = <<0, 0>> BY DEF SessionInv, Made
    <3>3. client.tracks[t].proto = "absent" <=> t \notin Known(client.medias) BY DEF SessionInv, Made
    <3> QED BY <3>1, <3>2, <3>3 DEF Absent, Transport
  <2> QED BY <1>7, <2>1
<1>9. Made(c) BY <1>3, <1>7, <1>8 DEF Made, Absent, New
<1>10. One(c) BY <1>3, <1>7, <1>8, MediasHeld DEF One
<1>11. c.tracks[c.medias[client.step].type].proto # "absent"
  <2>1. Setting \in Types BY <1>2, MediasHeld
  <2>2. c.medias[client.step].type = Setting BY <1>7 DEF Setting
  <2>3. c.tracks[Setting] = New(p) BY <1>2, <1>8, <2>1
  <2>4. New(p).proto # "absent" BY DEF New
  <2> QED BY <2>2, <2>3, <2>4
<1>12. ASSUME NEW j \in 1 .. (client.step - 1), c.medias[j].type \in Known(c.medias) PROVE FALSE
  <2>1. c.medias[j].type \in SetUp
    BY <1>1, <1>2, <1>7, <1>12 DEF SetUp, Handles
  <2>2. Ready(server.tracks[c.medias[j].type])
    BY <1>1, <2>1 DEF SessionInv, Alike
  <2> QED BY <1>3, <1>7, <1>12, <2>2, MediasHeld
<1>13. c.state \in {"Init", "Ready"}
  BY <1>2, <1>7, CalmMade DEF Clients, Streaming
<1>14. c.session # 0 => handled /\ server.session = 1 BY <1>7 DEF SessionInv, Stage
<1>15. PICK i \in 1 .. Len(c.medias) : i = client.step BY <1>2, <1>7
<1> QED BY <1>1, <1>2, <1>6, <1>7, <1>9, <1>10, <1>11, <1>12, <1>13, <1>14, <1>15, AskSetupInv

\* A track is set up, and the next one or the stream is asked for (handleSetup).
LEMMA SetInv ==
    ASSUME RtspAssumption, SessionInv, HandleSetup
    PROVE  SessionInv'
<1>1. Hears /\ Taken /\ Handles("handleSetup") /\ Told.status = "OK" /\ client.handler = "handleSetup"
  BY DEF HandleSetup, Handles
<1>2. /\ ~Streaming /\ client.step \in 1 .. Len(client.medias) /\ server.begun # "accepted"
      /\ Setting \in Known(client.medias) /\ Ready(client.tracks[Setting])
      /\ Told.session = 1 /\ server.session = 1 /\ Told.tr = server.tracks[Setting] /\ Ready(Told.tr)
  BY <1>1, SetupAnswered
<1>3. Setting \in Types BY <1>2, MediasHeld
<1>4. Decode(client.tracks[Setting], Told.tr) = server.tracks[Setting]
  <2>1. /\ client.tracks[Setting] \in Transport /\ server.tracks[Setting] \in Transport
    BY <1>3 DEF SessionInv, Typed, Clients, Servers
  <2>2. CASE server.tracks[Setting].proto = "tcp" BY <1>2, <2>2 DEF Decode
  <2>3. CASE server.tracks[Setting].proto = "udp"
    <3>1. client.tracks[Setting].proto = "udp" BY <1>2, <2>3 DEF SessionInv, One, Eff, Ready
    <3>2. client.tracks[Setting].ch = <<0, 0>> /\ server.tracks[Setting].ch = <<0, 0>>
      BY <1>3, <2>3, <3>1 DEF SessionInv, Made, ServerMade
    <3> QED BY <1>2, <2>1, <2>3, <3>1, <3>2 DEF Decode, Transport
  <2> QED BY <1>2, <2>2, <2>3 DEF Ready
<1>5. PICK s \in {0, 1} : s = IF handled /\ client.session = 0 THEN Told.session ELSE client.session
  BY <1>2, CalmMade DEF Clients
<1>6. PICK f \in [Types -> Transport] :
         f = IF handled THEN [client.tracks EXCEPT ![Setting] = server.tracks[Setting]] ELSE client.tracks
  <2>1. client.tracks \in [Types -> Transport] /\ server.tracks \in [Types -> Transport]
    BY DEF SessionInv, Typed, Clients, Servers
  <2> QED BY <1>3, <2>1
<1>7. PICK c : c = [Calm EXCEPT !.state = "Ready", !.session = s, !.tracks = f] OBVIOUS
<1>8. /\ c \in Clients /\ c.state = "Ready" /\ c.session = s /\ c.tracks = f
      /\ c.medias = client.medias /\ c.step = client.step /\ c.handler = "handleSetup"
  <2>1. Calm \in Clients BY CalmMade
  <2>2. c \in Clients BY <1>7, <2>1 DEF Clients
  <2>3. /\ c.state = "Ready" /\ c.session = s /\ c.tracks = f
        /\ c.medias = Calm.medias /\ c.step = Calm.step /\ c.handler = Calm.handler
    BY <1>7, <2>1 DEF Clients
  <2> QED BY <1>1, <2>2, <2>3, CalmMade
<1>9. /\ UNCHANGED over
      /\ IF Left(c) # {} THEN SendNextSetup(c)
         ELSE \/ Ask(c, "handlePlay", Plain("RECORD")) \/ Ask(c, "handlePlay", Plain("PLAY"))
  <2> DEFINE ready == [Calm EXCEPT !.state = "Ready"]
             d     == IF handled THEN [ready EXCEPT !.session = IF @ = 0 THEN Told.session ELSE @,
                                                    !.tracks[Setting] = Decode(@, Told.tr)] ELSE ready
  <2>1. d = c
    <3>1. Calm \in Clients /\ Calm.tracks = client.tracks /\ Calm.session = client.session BY CalmMade
    <3>2. CASE handled
      <4>1. f = [Calm.tracks EXCEPT ![Setting] = Decode(Calm.tracks[Setting], Told.tr)]
        BY <1>4, <1>6, <3>1, <3>2
      <4>2. s = IF Calm.session = 0 THEN Told.session ELSE Calm.session BY <1>5, <3>1, <3>2
      <4> QED BY <1>7, <3>1, <3>2, <4>1, <4>2 DEF Clients
    <3>3. CASE ~handled
      <4>1. f = Calm.tracks /\ s = Calm.session BY <1>5, <1>6, <3>1, <3>3
      <4> QED BY <1>7, <3>1, <3>3, <4>1 DEF Clients
    <3> QED BY <3>2, <3>3
  <2>2. /\ UNCHANGED over
        /\ IF ~AllSetUp(d) THEN SendNextSetup(d)
           ELSE IF mode = "record" THEN Ask(d, "handlePlay", Plain("RECORD"))
           ELSE Ask(d, "handlePlay", Plain("PLAY"))
    BY <1>2 DEF HandleSetup
  <2> HIDE DEF d
  <2> QED BY <2>1, <2>2 DEF AllSetUp
<1>10. c.session # 0 => handled /\ server.session = 1
  BY <1>2, <1>5, <1>8 DEF SessionInv, Stage
<1>11. \A t \in Types : c.tracks[t] = IF handled /\ t = Setting THEN server.tracks[t] ELSE client.tracks[t]
  <2>1. client.tracks \in [Types -> Transport] BY CalmMade DEF Clients
  <2> QED BY <1>3, <1>6, <1>8, <2>1
<1>12. Made(c)
  BY <1>2, <1>3, <1>8, <1>11 DEF SessionInv, Made, ServerMade, Ready
<1>13. One(c)
  <2>1. \A t \in Known(client.medias) : Eff(c.tracks[t]) = Eff(client.tracks[t])
    <3>1. Eff(server.tracks[Setting]) = Eff(client.tracks[Setting])
      BY <1>2 DEF SessionInv, One, Eff, Ready
    <3> QED BY <1>11, <3>1, MediasHeld
  <2> QED BY <1>8, <2>1 DEF SessionInv, One
<1>14. ASSUME handled, NEW j \in 1 .. c.step, c.medias[j].type \in Known(c.medias)
       PROVE  /\ Ready(c.tracks[c.medias[j].type])
              /\ c.tracks[c.medias[j].type] = server.tracks[c.medias[j].type]
  <2>1. j \in 1 .. Len(client.medias) BY <1>2, <1>8, MediasHeld
  <2>2. PICK t \in Types : t = c.medias[j].type BY <1>8, <2>1, MediasHeld
  <2>3. CASE j = client.step
    <3>1. t = Setting BY <1>8, <2>2, <2>3 DEF Setting
    <3> QED BY <1>2, <1>11, <1>14, <2>2, <3>1
  <2>4. CASE j # client.step
    <3>1. j \in 1 .. (client.step - 1) BY <1>8, <2>4, MediasHeld
    <3>2. t \in SetUp BY <1>1, <1>2, <1>8, <1>14, <2>2, <3>1 DEF SetUp
    <3>3. Ready(client.tracks[t]) /\ client.tracks[t] = server.tracks[t]
      BY <1>14, <3>2 DEF SessionInv, Alike
    <3> QED BY <1>11, <2>2, <3>3
  <2> QED BY <2>3, <2>4
<1>15. CASE Left(c) # {}
  BY <1>1, <1>2, <1>8, <1>9, <1>10, <1>12, <1>13, <1>14, <1>15, NextSetupInv
<1>16. CASE Left(c) = {}
  <2>1. PICK q \in Requests : q.method \in {"PLAY", "RECORD"} /\ Ask(c, "handlePlay", q)
    BY <1>9, <1>16, PlainMade DEF Methods
  <2>2. /\ client' \in Clients /\ client'.handler = "handlePlay"
        /\ client'.last \in Requests /\ up' = Append(up, client'.last)
        /\ client'.last.method = q.method /\ client'.last.session = client'.session
        /\ client'.state = "Ready" /\ client'.session = c.session /\ client'.step = c.step
        /\ client'.medias = c.medias /\ client'.tracks = c.tracks
    BY <1>8, <2>1, AskStep DEF Handlers
  <2>3. UNCHANGED <<server, fixed>> BY <1>1 DEF Taken
  <2>4. ~Streaming' BY <2>2 DEF Streaming, Started
  <2>5. /\ up' \in Seq(Requests \cup Media) /\ down' \in Seq(Responses \cup Media)
        /\ AsAsked' /\ AsAnswered' /\ PacketsRight'
    BY <1>1, <1>2, <2>2, <2>4, HearsAsks
  <2>6. Typed' BY <1>8, <1>9, <2>2, <2>3, <2>5 DEF SessionInv, Typed, fixed
  <2>7. Made(client)' /\ One(client)' BY <1>12, <1>13, <2>2, <2>3 DEF Made, One
  <2>8. ServerMade' /\ ChannelsApart' BY <2>3 DEF SessionInv, ServerMade, ChannelsApart, fixed
  <2>9. Stage' BY <1>2, <1>10, <2>1, <2>2, <2>3, <2>4 DEF Stage, fixed
  <2>10. Alike'
    <3>1. SetUp' = Known(c.medias) BY <2>2 DEF SetUp
    <3>2. ASSUME handled, NEW t \in Known(c.medias) PROVE Ready(c.tracks[t]) /\ c.tracks[t] = server.tracks[t]
      <4>1. PICK j \in 1 .. Len(c.medias) : t = c.medias[j].type BY <3>2 DEF Known
      <4>2. t \in Types /\ c.tracks[t].proto # "absent" BY <1>8, <1>12, <3>2, MediasHeld DEF Made
      <4>3. j \notin c.step + 1 .. Len(c.medias) BY <1>16, <4>1, <4>2 DEF Left
      <4>4. j \in 1 .. c.step BY <1>8, <4>1, <4>3, MediasHeld
      <4> QED BY <1>14, <3>2, <4>1, <4>4
    <3> QED BY <2>2, <2>3, <3>1, <3>2 DEF Alike, fixed
  <2>11. Begun' BY <1>2, <2>3, <2>4 DEF Begun
  <2> QED BY <2>5, <2>6, <2>7, <2>8, <2>9, <2>10, <2>11 DEF SessionInv
<1> QED BY <1>15, <1>16

-------------------------------------------------------------------------------
(* The theorems.                                                             *)

LEMMA InitSession ==
    ASSUME RtspAssumption, Init
    PROVE  SessionInv
<1>1. PICK offer \in Offers, p \in Prefers :
         LET own    == IF mode = "record" THEN offer ELSE <<>>
             theirs == IF mode = "play" THEN offer ELSE <<>>
         IN  /\ client = [state |-> "Init", handler |-> "none", last |-> Plain("none"), nonce |-> 0,
                          retry |-> 0, session |-> 0, step |-> 0, medias |-> own,
                          tracks |-> Tracks(own, First(p)), prefer |-> p, switched |-> FALSE, heard |-> {}]
             /\ server = [session |-> 0, nonce |-> 0, interleaved |-> 0, medias |-> theirs,
                          tracks |-> Tracks(theirs, Unset), heard |-> {}, begun |-> "no"]
  BY DEF Init
<1>2. PICK own \in Lists : own = IF mode = "record" THEN offer ELSE <<>> BY DEF Lists
<1>3. PICK theirs \in Lists : theirs = IF mode = "play" THEN offer ELSE <<>> BY DEF Lists
<1>4. PICK tr \in Transport : tr = First(p) /\ tr.proto # "absent" /\ tr.ch = <<0, 0>>
  <2>1. p \in {"unset", "tcp", "udp"} BY DEF RtspAssumption
  <2>2. PICK tr : tr = First(p) OBVIOUS
  <2>3. tr \in Transport /\ tr.proto # "absent" /\ tr.ch = <<0, 0>>
    BY <2>1, <2>2 DEF First, Unset, New, Transport, Protos
  <2> QED BY <2>2, <2>3
<1>5. PICK q \in Requests : q = Plain("none") /\ q.session = 0
  <2>1. Plain("none") \in Requests BY PlainMade DEF Methods
  <2> QED BY <2>1 DEF Plain, Request
<1>6. /\ client = [state |-> "Init", handler |-> "none", last |-> q, nonce |-> 0,
                   retry |-> 0, session |-> 0, step |-> 0, medias |-> own,
                   tracks |-> Tracks(own, tr), prefer |-> p, switched |-> FALSE, heard |-> {}]
      /\ server = [session |-> 0, nonce |-> 0, interleaved |-> 0, medias |-> theirs,
                   tracks |-> Tracks(theirs, Unset), heard |-> {}, begun |-> "no"]
  BY <1>1, <1>2, <1>3, <1>4, <1>5
<1>7. /\ Known(own) \subseteq Types /\ Len(own) \in Nat
      /\ Tracks(own, tr) \in [Types -> Transport] /\ Tracks(theirs, Unset) \in [Types -> Transport]
      /\ \A t \in Types : Tracks(own, tr)[t] = IF t \in Known(own) THEN tr ELSE Absent
      /\ \A t \in Types : Tracks(theirs, Unset)[t] \in {Unset, Absent}
  <2>1. Absent \in Transport /\ Unset \in Transport BY DEF Absent, Unset, Transport, Protos
  <2> QED BY <2>1, ListFacts DEF Tracks
<1>8. handled \in BOOLEAN /\ takes \subseteq {"tcp", "udp"} /\ up = <<>> /\ down = <<>> /\ over = "none"
      /\ p \in {"unset", "tcp", "udp"}
  BY DEF Init, RtspAssumption
<1>9. client \in Clients
  BY <1>6, <1>7, <1>8 DEF Clients, Handlers
<1>10. server \in Servers BY <1>6, <1>7 DEF Servers
<1>11. Typed BY <1>6, <1>7, <1>8, <1>9, <1>10 DEF Typed
<1>12. \A t \in Types : ~Ready(server.tracks[t]) /\ server.tracks[t].ch = <<0, 0>>
  BY <1>6, <1>7 DEF Ready, Unset, Absent
<1>13. Made(client) BY <1>4, <1>6, <1>7, <1>12 DEF Made, Absent
<1>14. One(client) BY <1>6, <1>7, <1>12 DEF One
<1>15. ServerMade /\ ChannelsApart BY <1>12 DEF ServerMade, ChannelsApart, Ready
<1>16. Asking = {} /\ Answered = {} BY <1>8 DEF Asking, Answered, OnWire
<1>17. ~Streaming BY <1>6 DEF Streaming, Started
<1>18. Stage BY <1>5, <1>6, <1>12, <1>16, <1>17 DEF Stage
<1>19. AsAsked /\ AsAnswered BY <1>16, <1>17 DEF AsAsked, AsAnswered
<1>20. Alike BY <1>6, <1>17 DEF Alike, SetUp
<1>21. Begun BY <1>6, <1>17 DEF Begun
<1>22. PacketsRight BY <1>8 DEF PacketsRight, OnChannel
<1> QED BY <1>11, <1>13, <1>14, <1>15, <1>18, <1>19, <1>20, <1>21, <1>22 DEF SessionInv

LEMMA NextSession ==
    ASSUME RtspAssumption, AliveFrom = "start", SessionInv, [Next]_vars
    PROVE  SessionInv'
<1>1. CASE Start BY <1>1, StartInv
<1>2. CASE KeepAlive BY <1>2, KeepAliveInv
<1>3. CASE ServerWrites BY <1>3, ServerWritesInv
<1>4. CASE ClientWrites BY <1>4, ClientWritesInv
<1>5. CASE ServerHandles
  BY <1>5, ServerKeeps, AnnounceInv, SetupInv, BeginsInv, ServerReadsInv DEF ServerHandles
<1>6. CASE ClientHandles
  <2>1. CASE HandleUnAuth BY <2>1, UnAuthInv
  <2>2. CASE HandleUnAuthFails BY <2>2, QuietInv DEF HandleUnAuthFails
  <2>3. CASE HandleOption BY <2>3, OptionInv
  <2>4. CASE HandleRefusal
    BY <2>4, QuietInv DEF HandleRefusal, Handles, Tell, SessionInv, Typed
  <2>5. CASE HandleDescribe BY <2>5, DescribeInv
  <2>6. CASE HandleAnnounce BY <2>6, AnnouncedInv
  <2>7. CASE HandleSetupSwitch BY <2>7, SwitchInv
  <2>8. CASE HandleSetupRefused
    BY <2>8, QuietInv DEF HandleSetupRefused, Handles, Tell, SessionInv, Typed
  <2>9. CASE HandleSetup BY <2>9, SetInv
  <2>10. CASE HandlePlay BY <2>10, PlayInv
  <2>11. CASE HandleGetParameter
    BY <2>11, QuietInv DEF HandleGetParameter, Handles, SessionInv, Typed
  <2>12. CASE ClientReads BY <2>12, ClientReadsInv
  <2> QED BY <1>6, <2>1, <2>2, <2>3, <2>4, <2>5, <2>6, <2>7, <2>8, <2>9, <2>10, <2>11, <2>12
          DEF ClientHandles
<1>7. CASE UNCHANGED vars
  <2>1. UNCHANGED <<fixed, up, down, client, server, over>> BY <1>7 DEF vars, fixed
  <2> QED BY <2>1 DEF SessionInv, Typed, Made, One, ServerMade, ChannelsApart, Stage, AsAsked, AsAnswered,
          StillSo, Alike, SetUp, Begun, PacketsRight, OnChannel, OnTrack, Streaming, Asking, Answered,
          Setting, fixed
<1> QED BY <1>1, <1>2, <1>3, <1>4, <1>5, <1>6, <1>7 DEF Next

\* The client and the server are where the invariant says, whatever is offered,
\* taken, refused and asked again (handleRequest, handleResponse).
THEOREM SessionInvariant ==
    ASSUME RtspAssumption, AliveFrom = "start"
    PROVE  Spec => []SessionInv
<1>1. Init => SessionInv BY InitSession
<1>2. SessionInv /\ [Next]_vars => SessionInv' BY NextSession
<1> QED BY <1>1, <1>2, PTL DEF Spec

\* A client that streams was accepted in its session, with every track of the
\* description over the same transport and channels as the server's.
THEOREM StartIsAgreed ==
    ASSUME RtspAssumption, AliveFrom = "start"
    PROVE  Spec => []StartAgreed
<1>1. SessionInv => StartAgreed
  BY TracksAgree DEF SessionInv, Begun, Streaming, StartAgreed
<1> QED BY <1>1, SessionInvariant, PTL

\* Every interleaved packet goes to the track it was written for, and only to
\* it, as what it is (handlRtpOverRtsp, hanleRtpOverRtsp).
THEOREM PacketsRouted ==
    ASSUME RtspAssumption, AliveFrom = "start"
    PROVE  Spec => []MediaRouted
<1>1. ASSUME SessionInv PROVE MediaRouted
  <2>1. ASSUME up # <<>>, Asked.kind \in {"rtp", "report", "answer"}
        PROVE  Asked \in Media /\ OnTrack(Asked)
    <3>1. Asked \in Requests \cup Media /\ Asked = up[1] /\ 1 \in DOMAIN up
      BY <1>1, <2>1, TailWire DEF SessionInv, Typed, Asked
    <3> QED BY <1>1, <2>1, <3>1 DEF SessionInv, PacketsRight, OnChannel, Requests
  <2>2. ASSUME down # <<>>, Told.kind \in {"rtp", "report", "answer"}
        PROVE  Told \in Media /\ OnTrack(Told)
    <3>1. Told \in Responses \cup Media /\ Told = down[1] /\ 1 \in DOMAIN down
      BY <1>1, <2>2, TailWire DEF SessionInv, Typed, Told
    <3> QED BY <1>1, <2>2, <3>1 DEF SessionInv, PacketsRight, OnChannel, Responses
  <2>3. RoutedRight(server.tracks, up) BY <1>1, <2>1, Routed DEF RoutedRight, Asked
  <2>4. RoutedRight(client.tracks, down) BY <1>1, <2>2, Routed DEF RoutedRight, Told
  <2> QED BY <2>3, <2>4 DEF MediaRouted
<1> QED BY <1>1, SessionInvariant, PTL

\* The fields keep their types, the session of the client among them: it has
\* none or the server's.
THEOREM TypesCorrect ==
    ASSUME RtspAssumption, AliveFrom = "start"
    PROVE  Spec => []TypeOK
<1>1. ASSUME SessionInv PROVE TypeOK
  <2>1. client \in Clients /\ server \in Servers /\ client.step <= Len(client.medias)
        /\ over \in {"none", "refused", "error"}
    BY <1>1 DEF SessionInv, Typed
  <2>2. client.step \in 0 .. Len(client.medias) BY <1>1, MediasHeld
  <2>3. client.session \in {0, server.session} BY <1>1, <2>1 DEF SessionInv, Stage, Clients
  <2>4. \A t \in Types : client.tracks[t].proto \in Protos /\ server.tracks[t].proto \in Protos
    BY <2>1 DEF Clients, Servers, Transport
  <2>5. client.retry \in 0 .. 1 BY <2>1 DEF Clients
  <2> QED BY <2>1, <2>2, <2>3, <2>4, <2>5 DEF TypeOK, Clients, Servers, Protos
<1> QED BY <1>1, SessionInvariant, PTL

=============================================================================
