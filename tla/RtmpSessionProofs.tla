--------------------------- MODULE RtmpSessionProofs ---------------------------
(***************************************************************************)
(* Proofs about RtmpSession, for every size of the handshake, of chunks    *)
(* and of windows, every verdict, and connections that fail at any time:   *)
(* what a side reads is what the other wrote for it (ReadAsWritten), both  *)
(* agree on what was started (StartAgreed), and acknowledgements keep up   *)
(* (AcksKeepUp).                                                           *)
(***************************************************************************)
EXTENDS RtmpSession, Integers, SequenceTheorems, TLAPS

-------------------------------------------------------------------------------
(* What a sequence of cells says.                                            *)

HsKinds == {"c0", "c1", "c2", "s0", "s1", "s2"}
Kinds   == HsKinds \cup Passed \cup
           {"connect", "createStream", "publish", "play", "_result", "_error", "onStatus",
            "SET_CHUNK_SIZE", "WND_ACK_SIZE", "ACKNOWLEDGEMENT"}
Words   == {"start", "error", "other", "reset", "simple", "schema0", "schema1"}
Values  == Nat \cup Words \cup [tid : 0 .. 3, sid : {0, 1}]
Cells   == [t : Kinds, size : Nat, v : Values]

Elems(q)  == {q[i] : i \in DOMAIN q}
Has(q, t) == \E c \in Elems(q) : c.t = t

\* The first n cells are those of a handshake from the k-th on, in the scheme
\* sch; the others are messages.
HsAll == 1 + HsLen + HsLen
HsCell(s, sch, c, p) ==
    /\ c.t = Expected(s)[IF p = 1 THEN 1 ELSE IF p <= 1 + HsLen THEN 2 ELSE 3]
    /\ p # 1 => c.v = sch
HsPart(s, sch, q, k, n) ==
    /\ n <= Len(q)
    /\ \A i \in 1 .. Len(q) : IF i <= n THEN HsCell(s, sch, q[i], k + i) ELSE q[i].t \notin HsKinds

\* Messages of size r up to one that sets the size, of WriteSize after it.
Sized(q, r) ==
    \A i \in 1 .. Len(q) : q[i].t \notin HsKinds =>
        q[i].size = IF \E j \in 1 .. (i - 1) : q[j].t = "SET_CHUNK_SIZE" THEN WriteSize ELSE r
EndSize(q, r) == IF Has(q, "SET_CHUNK_SIZE") THEN WriteSize ELSE r

\* A command, or the answer, that moves the session on.
IsToken(c) == \/ c.t \in {"connect", "createStream", "publish", "play"}
              \/ c.t = "_result" /\ c.v.tid \in {1, 2}
Free(q)   == \A i \in 1 .. Len(q) : ~IsToken(q[i])
Single(q) == \A i, j \in 1 .. Len(q) : IsToken(q[i]) /\ IsToken(q[j]) => i = j

\* Media comes only after the status that says it may.
IsStart(c)   == c.t = "onStatus" /\ c.v = "start"
ToldFirst(q) == \A i \in 1 .. Len(q) : q[i].t = "media" => \E j \in 1 .. (i - 1) : IsStart(q[j])

\* The last acknowledgement, a if there is none, is v.
LastAck(q, a, v) ==
    IF Has(q, "ACKNOWLEDGEMENT")
    THEN \E i \in 1 .. Len(q) : /\ q[i].t = "ACKNOWLEDGEMENT" /\ q[i].v = v
                                /\ \A j \in 1 .. Len(q) : j > i => q[j].t # "ACKNOWLEDGEMENT"
    ELSE a = v

-------------------------------------------------------------------------------
(* The inductive invariant.                                                  *)

\* What is on its way to a side or waits in the data of its Input.
In(s) == data[s] \o wire[s]

Typed ==
    /\ role \in {"publish", "play"} /\ started \in BOOLEAN
    /\ stage \in [Sides -> 0 .. 3] /\ cache \in [Sides -> 0 .. HsLen]
    /\ scheme \in [Sides -> {"simple", "schema0", "schema1"}]
    /\ state \in [Sides -> Stages \cup Started \cup Failed]
    /\ pending \in {"none"} \cup Started \cup Failed
    /\ wsize \in [Sides -> {FixSize, WriteSize}] /\ rsize \in [Sides -> {FixSize, WriteSize}]
    /\ last \in [method : {"CONNECT", "CREATE_STREAM", "GET_STREAM_LENGTH"}, tid : 0 .. 3]
    /\ streamId \in {0, ServerStreamId}
    /\ peerWnd \in [Sides -> {0, WndAck}]
    /\ recv \in [Sides -> Nat] /\ acked \in [Sides -> Nat] /\ ackSeen \in [Sides -> Nat]
    /\ written \in [Sides -> Nat] /\ verdict \in {"none", "start", "error", "other"}
    /\ \A s \in Sides : /\ ~gone[s] => cache[s] < HsLen
                        /\ stage[s] \in {0, 3} => cache[s] = 0

\* A side whose output failed in Input takes nothing more.
Lines ==
    /\ data \in [Sides -> Seq(Cells)] /\ wire \in [Sides -> Seq(Cells)]
    /\ busy \in [Sides -> BOOLEAN] /\ works \in [Sides -> BOOLEAN] /\ gone \in [Sides -> BOOLEAN]
    /\ \A s \in Sides : /\ ~busy[s] => data[s] = <<>>
                        /\ gone[s] => ~works[s] /\ ~busy[s]

\* Cells of the handshake a side has read, and cells sent to it.
HsRead(s) == IF stage[s] = 0 THEN 0
             ELSE IF stage[s] = 1 THEN 1 + cache[s]
             ELSE IF stage[s] = 2 THEN 1 + HsLen + cache[s]
             ELSE HsAll
HsSent(s) == IF s = "server"
             THEN IF ~started THEN 0 ELSE IF stage["client"] < 2 THEN 1 + HsLen ELSE HsAll
             ELSE IF stage["server"] < 2 THEN 0 ELSE HsAll

\* What is under way continues the handshake where its reader is, and no
\* message comes before the end of it.
Shaking ==
    /\ ~started => \A s \in Sides : In(s) = <<>> /\ stage[s] = 0
    /\ stage["server"] >= 2 => scheme["server"] = scheme["client"]
    /\ \A s \in Sides : stage[s] = 3 <=> state[s] # "HANDSHAKEING"
    /\ \A s \in Sides : ~gone[s] =>
          /\ HsSent(s) >= HsRead(s)
          /\ HsPart(s, scheme["client"], In(s), HsRead(s), HsSent(s) - HsRead(s))
          /\ HsSent(s) < HsAll => Len(In(s)) = HsSent(s) - HsRead(s)

\* A reader that takes what is under way ends with the size of the writer.
ChunkSizes ==
    \A s \in Sides : ~gone[s] =>
        /\ Sized(In(s), rsize[s])
        /\ works[Peer(s)] => wsize[Peer(s)] = EndSize(In(s), rsize[s])

\* The exchange has one thread.
OneToken ==
    \/ Single(In("server")) /\ Free(In("client"))
    \/ Free(In("server")) /\ Single(In("client"))

\* How far the session is, as each side knows it.
Progress ==
    /\ last \in {[method |-> "CONNECT", tid |-> 0], [method |-> "CONNECT", tid |-> 1],
                 [method |-> "CREATE_STREAM", tid |-> 2], [method |-> "GET_STREAM_LENGTH", tid |-> 3]}
    /\ last.tid # 0 => stage["client"] = 3
    /\ last.method # "CONNECT" => /\ wsize["server"] = WriteSize
                                  /\ role = "publish" => wsize["client"] = WriteSize
    /\ last.method = "GET_STREAM_LENGTH" => role = "play" /\ streamId = ServerStreamId
    /\ streamId # 0 => last.method # "CONNECT"
    /\ verdict # "none" => stage["server"] = 3 /\ last.tid # 0
    /\ verdict = "start" => streamId = ServerStreamId
    /\ pending # "none" => verdict # "none" /\ pending = Outcome(role, verdict)
    /\ state["server"] \in Started => verdict = "start" /\ state["server"] = Outcome(role, "start")
    /\ state["client"] \in Started => verdict = "start" /\ state["client"] = Outcome(role, "start")
    /\ verdict = "start" =>
          \/ pending = Outcome(role, "start") \/ state["server"] = Outcome(role, "start") \/ gone["server"]

Connecting == last = [method |-> "CONNECT", tid |-> 1] /\ verdict = "none"
Creating   == last.method = "CREATE_STREAM" /\ streamId = 0 /\ verdict = "none"
Asking     == streamId = ServerStreamId /\ verdict = "none"

\* What a message under way proves of both sides.
FitsServer(c) ==
    /\ c.t = "connect" => Connecting
    /\ c.t = "createStream" => Creating /\ c.v = 2
    /\ c.t \in {"publish", "play"} => Asking /\ role = c.t /\ c.v = ServerStreamId
    /\ c.t \in {"releaseStream", "FCPublish"} => last.method # "CONNECT" /\ c.v = 0
    /\ c.t = "getStreamLength" => last.method = "GET_STREAM_LENGTH" /\ c.v = 3
    /\ c.t = "media" => state["client"] = "PUBLISH_START" /\ c.v = ServerStreamId
    /\ c.t \notin {"_result", "_error", "onStatus"}
FitsClient(c) ==
    /\ c.t = "_result" =>
          /\ c.v \in [tid : 0 .. 3, sid : {0, 1}]
          /\ c.v.tid = 1 => Connecting /\ wsize["server"] = WriteSize
          /\ c.v.tid = 2 => Creating /\ c.v.sid = ServerStreamId
          /\ c.v.tid = 0 => last.method # "CONNECT"
          /\ c.v.tid = 3 => last.method = "GET_STREAM_LENGTH"
    /\ c.t = "onStatus" => verdict # "none" /\ (c.v = verdict \/ (c.v = "reset" /\ verdict = "start"))
    /\ c.t = "_error" => verdict = "error"
    /\ c.t = "media" => state["server"] = "PLAY_START"
    /\ c.t \notin {"connect", "createStream", "publish", "play"}
FitsBoth(c) ==
    /\ c.t = "SET_CHUNK_SIZE" => c.v = WriteSize
    /\ c.t = "WND_ACK_SIZE" => c.v = WndAck
    /\ c.t = "ACKNOWLEDGEMENT" => c.v \in Nat

Fits == /\ \A c \in Elems(In("server")) : FitsServer(c) /\ FitsBoth(c)
        /\ \A c \in Elems(In("client")) : FitsClient(c) /\ FitsBoth(c)

\* A client that may stream has been told, or the word is on its way, ahead of
\* the media.
Told ==
    verdict = "start" /\ ~gone["client"] /\ ~gone["server"] =>
        state["client"] = Outcome(role, "start") \/ \E c \in Elems(In("client")) : IsStart(c)
MediaAfter ==
    ~gone["client"] => state["client"] = Outcome(role, "start") \/ ToldFirst(In("client"))

\* The last acknowledgement sent is seen or on its way.
Acks ==
    \A s \in Sides :
        /\ acked[s] <= recv[s]
        /\ peerWnd[s] # 0 => stage[s] = 3
        /\ ~busy[s] /\ peerWnd[s] # 0 => recv[s] - acked[s] < peerWnd[s] \/ ~works[s]
        /\ works["client"] /\ works["server"] => LastAck(In(Peer(s)), ackSeen[Peer(s)], acked[s])

SessionInv ==
    /\ Typed /\ Lines /\ Shaking /\ ChunkSizes /\ OneToken /\ Progress /\ Fits
    /\ Told /\ MediaAfter /\ Acks

-------------------------------------------------------------------------------
(* Taking the first cell and adding a batch.                                 *)

\* The cells of a sequence are its first and those of its tail.
LEMMA ElemsTail ==
    ASSUME NEW q \in Seq(Cells), q # <<>>
    PROVE  Elems(q) = {q[1]} \cup Elems(Tail(q))
<1>1. /\ Tail(q) \in Seq(Cells) /\ Len(Tail(q)) = Len(q) - 1 /\ Len(q) \in Nat \ {0}
      /\ \A i \in 1 .. (Len(q) - 1) : Tail(q)[i] = q[i + 1]
  OBVIOUS
<1>2. DOMAIN q = 1 .. Len(q) /\ DOMAIN Tail(q) = 1 .. (Len(q) - 1) BY <1>1
<1>3. ASSUME NEW c \in Elems(q) PROVE c \in {q[1]} \cup Elems(Tail(q))
  <2>1. PICK i \in 1 .. Len(q) : c = q[i] BY <1>2, <1>3 DEF Elems
  <2>2. CASE i = 1 BY <2>1, <2>2
  <2>3. CASE i # 1
    <3>1. i - 1 \in 1 .. (Len(q) - 1) /\ Tail(q)[i - 1] = q[i] BY <1>1, <2>1, <2>3
    <3> QED BY <1>2, <2>1, <3>1 DEF Elems
  <2> QED BY <2>2, <2>3
<1>4. ASSUME NEW c \in {q[1]} \cup Elems(Tail(q)) PROVE c \in Elems(q)
  <2>1. CASE c = q[1] BY <1>1, <1>2, <2>1 DEF Elems
  <2>2. CASE c \in Elems(Tail(q))
    <3>1. PICK i \in 1 .. (Len(q) - 1) : c = Tail(q)[i] BY <1>2, <2>2 DEF Elems
    <3>2. i + 1 \in 1 .. Len(q) /\ c = q[i + 1] BY <1>1, <3>1
    <3> QED BY <1>2, <3>2 DEF Elems
  <2> QED BY <1>4, <2>1, <2>2
<1> QED BY <1>3, <1>4

\* The cells of a concatenation are those of both.
LEMMA ElemsCat ==
    ASSUME NEW q \in Seq(Cells), NEW b \in Seq(Cells)
    PROVE  Elems(q \o b) = Elems(q) \cup Elems(b)
<1>1. /\ q \o b \in Seq(Cells) /\ Len(q \o b) = Len(q) + Len(b) /\ Len(q) \in Nat /\ Len(b) \in Nat
      /\ \A i \in 1 .. Len(q) : (q \o b)[i] = q[i]
      /\ \A i \in 1 .. Len(b) : (q \o b)[Len(q) + i] = b[i]
  OBVIOUS
<1>2. DOMAIN q = 1 .. Len(q) /\ DOMAIN b = 1 .. Len(b) /\ DOMAIN (q \o b) = 1 .. (Len(q) + Len(b))
  BY <1>1
<1>3. ASSUME NEW c \in Elems(q \o b) PROVE c \in Elems(q) \cup Elems(b)
  <2>1. PICK i \in 1 .. (Len(q) + Len(b)) : c = (q \o b)[i] BY <1>2, <1>3 DEF Elems
  <2>2. CASE i \in 1 .. Len(q) BY <1>1, <1>2, <2>1, <2>2 DEF Elems
  <2>3. CASE i > Len(q)
    <3>1. i - Len(q) \in 1 .. Len(b) /\ c = b[i - Len(q)] BY <1>1, <2>1, <2>3
    <3> QED BY <1>2, <3>1 DEF Elems
  <2> QED BY <1>1, <2>1, <2>2, <2>3
<1>4. ASSUME NEW c \in Elems(q) PROVE c \in Elems(q \o b)
  <2>1. PICK i \in 1 .. Len(q) : c = q[i] BY <1>2, <1>4 DEF Elems
  <2>2. i \in 1 .. (Len(q) + Len(b)) /\ c = (q \o b)[i] BY <1>1, <2>1
  <2> QED BY <1>2, <2>2 DEF Elems
<1>5. ASSUME NEW c \in Elems(b) PROVE c \in Elems(q \o b)
  <2>1. PICK i \in 1 .. Len(b) : c = b[i] BY <1>2, <1>5 DEF Elems
  <2>2. Len(q) + i \in 1 .. (Len(q) + Len(b)) /\ c = (q \o b)[Len(q) + i] BY <1>1, <2>1
  <2> QED BY <1>2, <2>2 DEF Elems
<1> QED BY <1>3, <1>4, <1>5

\* The facts about a tail and a batch that the lemmas below share.
LEMMA TailIs ==
    ASSUME NEW q \in Seq(Cells), q # <<>>
    PROVE  /\ Tail(q) \in Seq(Cells) /\ Len(Tail(q)) = Len(q) - 1 /\ Len(q) \in Nat \ {0}
           /\ \A i \in 1 .. (Len(q) - 1) : Tail(q)[i] = q[i + 1]
  OBVIOUS

\* What a batch is appended to stays in front of it.
LEMMA CatIs ==
    ASSUME NEW q \in Seq(Cells), NEW b \in Seq(Cells)
    PROVE  /\ q \o b \in Seq(Cells) /\ Len(q \o b) = Len(q) + Len(b) /\ Len(q) \in Nat /\ Len(b) \in Nat
           /\ \A i \in 1 .. Len(q) : (q \o b)[i] = q[i]
           /\ \A i \in (Len(q) + 1) .. (Len(q) + Len(b)) : (q \o b)[i] = b[i - Len(q)]
  OBVIOUS

\* A kind is among the cells when some index has it.
LEMMA HasIs ==
    ASSUME NEW q \in Seq(Cells), NEW t
    PROVE  Has(q, t) <=> \E i \in 1 .. Len(q) : q[i].t = t
<1>1. DOMAIN q = 1 .. Len(q) OBVIOUS
<1> QED BY <1>1 DEF Has, Elems


\* Chunk sizes.
LEMMA SizedTail ==
    ASSUME NEW q \in Seq(Cells), q # <<>>, NEW r, Sized(q, r), NEW r2,
           r2 = IF q[1].t = "SET_CHUNK_SIZE" THEN WriteSize ELSE r
    PROVE  /\ q[1].t \notin HsKinds => q[1].size = r
           /\ Sized(Tail(q), r2) /\ EndSize(Tail(q), r2) = EndSize(q, r)
<1>1. /\ Tail(q) \in Seq(Cells) /\ Len(Tail(q)) = Len(q) - 1 /\ Len(q) \in Nat \ {0}
      /\ \A i \in 1 .. (Len(q) - 1) : Tail(q)[i] = q[i + 1]
  BY TailIs
<1>2. q[1].t \notin HsKinds => q[1].size = r
  <2>1. 1 \in 1 .. Len(q) /\ ~\E j \in 1 .. (1 - 1) : q[j].t = "SET_CHUNK_SIZE" BY <1>1
  <2> QED BY <2>1 DEF Sized
<1>3. ASSUME NEW i \in 1 .. Len(Tail(q)), Tail(q)[i].t \notin HsKinds
      PROVE  Tail(q)[i].size = IF \E j \in 1 .. (i - 1) : Tail(q)[j].t = "SET_CHUNK_SIZE" THEN WriteSize ELSE r2
  <2>1. i + 1 \in 1 .. Len(q) /\ Tail(q)[i] = q[i + 1] /\ i \in 1 .. (Len(q) - 1) BY <1>1
  <2>2. q[i + 1].size = IF \E j \in 1 .. i : q[j].t = "SET_CHUNK_SIZE" THEN WriteSize ELSE r
    <3>1. (i + 1) - 1 = i BY <2>1
    <3> QED BY <1>3, <2>1, <3>1 DEF Sized
  <2>3. CASE q[1].t = "SET_CHUNK_SIZE"
    <3>1. 1 \in 1 .. i BY <2>1
    <3> QED BY <2>1, <2>2, <2>3, <3>1
  <2>4. CASE q[1].t # "SET_CHUNK_SIZE"
    <3>1. ASSUME NEW j \in 1 .. i, q[j].t = "SET_CHUNK_SIZE"
          PROVE  \E k \in 1 .. (i - 1) : Tail(q)[k].t = "SET_CHUNK_SIZE"
      <4>1. j # 1 BY <2>4, <3>1
      <4>2. j - 1 \in 1 .. (i - 1) /\ j - 1 \in 1 .. (Len(q) - 1) BY <1>1, <2>1, <4>1
      <4>3. Tail(q)[j - 1] = q[(j - 1) + 1] /\ (j - 1) + 1 = j BY <1>1, <4>2
      <4> QED BY <3>1, <4>2, <4>3
    <3>2. ASSUME NEW k \in 1 .. (i - 1), Tail(q)[k].t = "SET_CHUNK_SIZE"
          PROVE  \E j \in 1 .. i : q[j].t = "SET_CHUNK_SIZE"
      <4>1. k + 1 \in 1 .. i /\ k \in 1 .. (Len(q) - 1) BY <1>1, <2>1
      <4> QED BY <1>1, <3>2, <4>1
    <3> QED BY <2>1, <2>2, <2>4, <3>1, <3>2
  <2> QED BY <2>3, <2>4
<1>4. EndSize(Tail(q), r2) = EndSize(q, r)
  <2>1. Elems(q) = {q[1]} \cup Elems(Tail(q)) BY ElemsTail
  <2> QED BY <2>1 DEF EndSize, Has
<1> QED BY <1>2, <1>3, <1>4 DEF Sized

\* A batch written with the size in force extends what is sized right.
LEMMA SizedCat ==
    ASSUME NEW q \in Seq(Cells), NEW b \in Seq(Cells), NEW r, Sized(q, r), Sized(b, EndSize(q, r))
    PROVE  Sized(q \o b, r) /\ EndSize(q \o b, r) = EndSize(b, EndSize(q, r))
<1>1. /\ q \o b \in Seq(Cells) /\ Len(q \o b) = Len(q) + Len(b) /\ Len(q) \in Nat /\ Len(b) \in Nat
      /\ \A i \in 1 .. Len(q) : (q \o b)[i] = q[i]
      /\ \A i \in (Len(q) + 1) .. (Len(q) + Len(b)) : (q \o b)[i] = b[i - Len(q)]
  BY CatIs
<1>2. ASSUME NEW i \in 1 .. Len(q \o b), (q \o b)[i].t \notin HsKinds
      PROVE  (q \o b)[i].size = IF \E j \in 1 .. (i - 1) : (q \o b)[j].t = "SET_CHUNK_SIZE" THEN WriteSize ELSE r
  <2>1. CASE i <= Len(q)
    <3>1. i \in 1 .. Len(q) /\ \A j \in 1 .. (i - 1) : j \in 1 .. Len(q) BY <1>1, <2>1
    <3>2. q[i].size = IF \E j \in 1 .. (i - 1) : q[j].t = "SET_CHUNK_SIZE" THEN WriteSize ELSE r
      BY <1>1, <1>2, <3>1 DEF Sized
    <3> QED BY <1>1, <3>1, <3>2
  <2>2. CASE i > Len(q)
    <3> DEFINE k == i - Len(q)
    <3>1. k \in 1 .. Len(b) /\ (q \o b)[i] = b[k] BY <1>1, <2>2
    <3>2. b[k].size = IF \E j \in 1 .. (k - 1) : b[j].t = "SET_CHUNK_SIZE" THEN WriteSize ELSE EndSize(q, r)
      BY <1>2, <3>1 DEF Sized
    <3>3. Has(q, "SET_CHUNK_SIZE") <=> \E j \in 1 .. Len(q) : q[j].t = "SET_CHUNK_SIZE" BY HasIs
    <3>4. ASSUME NEW j \in 1 .. (k - 1), b[j].t = "SET_CHUNK_SIZE"
          PROVE  \E m \in 1 .. (i - 1) : (q \o b)[m].t = "SET_CHUNK_SIZE"
      <4>1. Len(q) + j \in 1 .. (i - 1) /\ Len(q) + j \in (Len(q) + 1) .. (Len(q) + Len(b))
            /\ (Len(q) + j) - Len(q) = j
        BY <1>1, <3>1
      <4> QED BY <1>1, <3>4, <4>1
    <3>5. ASSUME NEW j \in 1 .. Len(q), q[j].t = "SET_CHUNK_SIZE"
          PROVE  \E m \in 1 .. (i - 1) : (q \o b)[m].t = "SET_CHUNK_SIZE"
      <4>1. j \in 1 .. (i - 1) BY <1>1, <2>2
      <4> QED BY <1>1, <3>5, <4>1
    <3>6. ASSUME NEW m \in 1 .. (i - 1), (q \o b)[m].t = "SET_CHUNK_SIZE"
          PROVE  \/ \E j \in 1 .. (k - 1) : b[j].t = "SET_CHUNK_SIZE"
                 \/ \E j \in 1 .. Len(q) : q[j].t = "SET_CHUNK_SIZE"
      <4>1. CASE m <= Len(q) BY <1>1, <3>6, <4>1
      <4>2. CASE m > Len(q)
        <5>1. m - Len(q) \in 1 .. (k - 1) /\ m \in (Len(q) + 1) .. (Len(q) + Len(b)) BY <1>1, <4>2
        <5> QED BY <1>1, <3>6, <5>1
      <4> QED BY <1>1, <4>1, <4>2
    <3> HIDE DEF k
    <3> QED BY <3>1, <3>2, <3>3, <3>4, <3>5, <3>6 DEF EndSize
  <2>3. i <= Len(q) \/ i > Len(q) BY <1>1
  <2> QED BY <2>1, <2>2, <2>3
<1>3. EndSize(q \o b, r) = EndSize(b, EndSize(q, r))
  BY ElemsCat DEF EndSize, Has
<1> QED BY <1>2, <1>3 DEF Sized

\* Batches of one size, of none, and those that announce the new one.
LEMMA SizedBatch ==
    ASSUME NEW b \in Seq(Cells), NEW w
    PROVE  /\ (\A i \in 1 .. Len(b) : b[i].t \in HsKinds \/ (b[i].size = w /\ b[i].t # "SET_CHUNK_SIZE")) =>
                 Sized(b, w) /\ EndSize(b, w) = w
           /\ b # <<>> /\ b[1].t = "SET_CHUNK_SIZE" /\ b[1].size = w
              /\ (\A i \in 2 .. Len(b) : b[i].size = WriteSize) => Sized(b, w) /\ EndSize(b, w) = WriteSize
<1>1. Len(b) \in Nat /\ (b # <<>> => Len(b) > 0) OBVIOUS
<1>2. Has(b, "SET_CHUNK_SIZE") <=> \E i \in 1 .. Len(b) : b[i].t = "SET_CHUNK_SIZE" BY HasIs
<1>3. ASSUME \A i \in 1 .. Len(b) : b[i].t \in HsKinds \/ (b[i].size = w /\ b[i].t # "SET_CHUNK_SIZE")
      PROVE  Sized(b, w) /\ EndSize(b, w) = w
  <2>1. \A i \in 1 .. Len(b) : b[i].t # "SET_CHUNK_SIZE" BY <1>3 DEF HsKinds
  <2>2. \A i \in 1 .. Len(b) : \A j \in 1 .. (i - 1) : j \in 1 .. Len(b) BY <1>1
  <2> QED BY <1>2, <1>3, <2>1, <2>2 DEF Sized, EndSize
<1>4. ASSUME b # <<>>, b[1].t = "SET_CHUNK_SIZE", b[1].size = w, \A i \in 2 .. Len(b) : b[i].size = WriteSize
      PROVE  Sized(b, w) /\ EndSize(b, w) = WriteSize
  <2>1. 1 \in 1 .. Len(b) BY <1>1, <1>4
  <2>2. \A i \in 1 .. Len(b) : (i = 1 \/ (i \in 2 .. Len(b) /\ 1 \in 1 .. (i - 1))) BY <1>1
  <2>3. ~\E j \in 1 .. (1 - 1) : b[j].t = "SET_CHUNK_SIZE" OBVIOUS
  <2> QED BY <1>2, <1>4, <2>1, <2>2, <2>3 DEF Sized, EndSize
<1> QED BY <1>3, <1>4

\* The thread of the exchange.
LEMMA TokenTail ==
    ASSUME NEW q \in Seq(Cells), q # <<>>
    PROVE  /\ Free(q) => Free(Tail(q)) /\ ~IsToken(q[1])
           /\ Single(q) => Single(Tail(q))
           /\ Single(q) /\ IsToken(q[1]) => Free(Tail(q))
<1>1. /\ Tail(q) \in Seq(Cells) /\ Len(Tail(q)) = Len(q) - 1 /\ Len(q) \in Nat \ {0}
      /\ \A i \in 1 .. (Len(q) - 1) : Tail(q)[i] = q[i + 1]
  BY TailIs
<1>2. \A i \in 1 .. Len(Tail(q)) : i + 1 \in 1 .. Len(q) /\ Tail(q)[i] = q[i + 1] BY <1>1
<1>3. 1 \in 1 .. Len(q) BY <1>1
<1>4. \A i, j \in 1 .. Len(Tail(q)) : i + 1 = j + 1 => i = j BY <1>1
<1>5. \A i \in 1 .. Len(Tail(q)) : i + 1 # 1 BY <1>1
<1> QED BY <1>2, <1>3, <1>4, <1>5 DEF Free, Single

\* A batch without a token keeps one token, or none; the only token may be in the batch.
LEMMA TokenCat ==
    ASSUME NEW q \in Seq(Cells), NEW b \in Seq(Cells)
    PROVE  /\ Free(q) /\ Free(b) => Free(q \o b)
           /\ Single(q) /\ Free(b) => Single(q \o b)
           /\ Free(q) /\ Single(b) => Single(q \o b)
           /\ Free(q \o b) => Free(b)
           /\ Single(q \o b) => Single(b)
           /\ Single(q \o b) /\ q # <<>> /\ IsToken(q[1]) => Free(b)
<1>1. /\ q \o b \in Seq(Cells) /\ Len(q \o b) = Len(q) + Len(b) /\ Len(q) \in Nat /\ Len(b) \in Nat
      /\ \A i \in 1 .. Len(q) : (q \o b)[i] = q[i]
      /\ \A i \in (Len(q) + 1) .. (Len(q) + Len(b)) : (q \o b)[i] = b[i - Len(q)]
  BY CatIs
<1>2. ASSUME NEW i \in 1 .. Len(q \o b)
      PROVE  \/ i \in 1 .. Len(q) /\ (q \o b)[i] = q[i]
             \/ i > Len(q) /\ i - Len(q) \in 1 .. Len(b) /\ (q \o b)[i] = b[i - Len(q)]
  BY <1>1
<1>3. ASSUME NEW i \in 1 .. Len(b)
      PROVE  Len(q) + i \in 1 .. Len(q \o b) /\ (q \o b)[Len(q) + i] = b[i]
  <2>1. Len(q) + i \in (Len(q) + 1) .. (Len(q) + Len(b)) /\ (Len(q) + i) - Len(q) = i BY <1>1
  <2> QED BY <1>1, <2>1
<1>4. ASSUME Free(q), Free(b) PROVE Free(q \o b) BY <1>2, <1>4 DEF Free
<1>5. ASSUME Single(q), Free(b) PROVE Single(q \o b) BY <1>2, <1>5 DEF Free, Single
<1>6. ASSUME Free(q), Single(b) PROVE Single(q \o b)
  <2>1. ASSUME NEW i \in 1 .. Len(q \o b), NEW j \in 1 .. Len(q \o b),
               IsToken((q \o b)[i]), IsToken((q \o b)[j])
        PROVE  i = j
    <3>1. /\ i - Len(q) \in 1 .. Len(b) /\ IsToken(b[i - Len(q)])
          /\ j - Len(q) \in 1 .. Len(b) /\ IsToken(b[j - Len(q)])
      BY <1>2, <1>6, <2>1 DEF Free
    <3>2. i - Len(q) = j - Len(q) BY <1>6, <3>1 DEF Single
    <3> QED BY <1>1, <3>2
  <2> QED BY <2>1 DEF Single
<1>7. ASSUME Free(q \o b) PROVE Free(b) BY <1>3, <1>7 DEF Free
<1>8. ASSUME Single(q \o b) PROVE Single(b)
  <2>1. ASSUME NEW i \in 1 .. Len(b), NEW j \in 1 .. Len(b), IsToken(b[i]), IsToken(b[j]) PROVE i = j
    <3>1. Len(q) + i = Len(q) + j BY <1>3, <1>8, <2>1 DEF Single
    <3> QED BY <1>1, <3>1
  <2> QED BY <2>1 DEF Single
<1>9. ASSUME Single(q \o b), q # <<>>, IsToken(q[1]) PROVE Free(b)
  <2>1. 1 \in 1 .. Len(q) /\ 1 \in 1 .. Len(q \o b) /\ (q \o b)[1] = q[1] BY <1>1, <1>9
  <2>2. ASSUME NEW i \in 1 .. Len(b), IsToken(b[i]) PROVE FALSE
    <3>1. Len(q) + i = 1 BY <1>3, <1>9, <2>1, <2>2 DEF Single
    <3> QED BY <1>1, <2>1, <3>1
  <2> QED BY <2>2 DEF Free
<1> QED BY <1>4, <1>5, <1>6, <1>7, <1>8, <1>9

\* Media and the word ahead of it.
LEMMA ToldTail ==
    ASSUME NEW q \in Seq(Cells), q # <<>>, ToldFirst(q)
    PROVE  q[1].t # "media" /\ (~IsStart(q[1]) => ToldFirst(Tail(q)))
<1>1. /\ Tail(q) \in Seq(Cells) /\ Len(Tail(q)) = Len(q) - 1 /\ Len(q) \in Nat \ {0}
      /\ \A i \in 1 .. (Len(q) - 1) : Tail(q)[i] = q[i + 1]
  BY TailIs
<1>2. q[1].t # "media"
  <2>1. 1 \in 1 .. Len(q) /\ ~\E j \in 1 .. (1 - 1) : IsStart(q[j]) BY <1>1
  <2> QED BY <2>1 DEF ToldFirst
<1>3. ASSUME ~IsStart(q[1]), NEW i \in 1 .. Len(Tail(q)), Tail(q)[i].t = "media"
      PROVE  \E j \in 1 .. (i - 1) : IsStart(Tail(q)[j])
  <2>1. i + 1 \in 1 .. Len(q) /\ Tail(q)[i] = q[i + 1] /\ (i + 1) - 1 = i BY <1>1
  <2>2. PICK j \in 1 .. i : IsStart(q[j]) BY <1>3, <2>1 DEF ToldFirst
  <2>3. j # 1 BY <1>3, <2>2
  <2>4. j - 1 \in 1 .. (i - 1) /\ j - 1 \in 1 .. (Len(q) - 1) /\ (j - 1) + 1 = j BY <1>1, <2>1, <2>3
  <2> QED BY <1>1, <2>2, <2>4
<1> QED BY <1>2, <1>3 DEF ToldFirst

\* A batch without media, or one behind the start, keeps media behind it.
LEMMA ToldCat ==
    ASSUME NEW q \in Seq(Cells), NEW b \in Seq(Cells), ToldFirst(q),
           (\E c \in Elems(q) : IsStart(c)) \/ \A i \in 1 .. Len(b) : b[i].t # "media"
    PROVE  ToldFirst(q \o b)
<1>1. /\ q \o b \in Seq(Cells) /\ Len(q \o b) = Len(q) + Len(b) /\ Len(q) \in Nat /\ Len(b) \in Nat
      /\ \A i \in 1 .. Len(q) : (q \o b)[i] = q[i]
      /\ \A i \in (Len(q) + 1) .. (Len(q) + Len(b)) : (q \o b)[i] = b[i - Len(q)]
  BY CatIs
<1>2. SUFFICES ASSUME NEW i \in 1 .. Len(q \o b), (q \o b)[i].t = "media"
               PROVE  \E j \in 1 .. (i - 1) : IsStart((q \o b)[j])
  BY DEF ToldFirst
<1>3. CASE i <= Len(q)
  <2>1. i \in 1 .. Len(q) /\ \A j \in 1 .. (i - 1) : j \in 1 .. Len(q) BY <1>1, <1>3
  <2>2. PICK j \in 1 .. (i - 1) : IsStart(q[j]) BY <1>1, <1>2, <2>1 DEF ToldFirst
  <2> QED BY <1>1, <2>1, <2>2
<1>4. CASE i > Len(q)
  <2>1. i - Len(q) \in 1 .. Len(b) /\ (q \o b)[i] = b[i - Len(q)] BY <1>1, <1>4
  <2>2. PICK c \in Elems(q) : IsStart(c) BY <1>2, <2>1
  <2>3. DOMAIN q = 1 .. Len(q) OBVIOUS
  <2>4. PICK j \in 1 .. Len(q) : c = q[j] BY <2>2, <2>3 DEF Elems
  <2>5. j \in 1 .. (i - 1) /\ (q \o b)[j] = c BY <1>1, <1>4, <2>4
  <2> QED BY <2>2, <2>5
<1> QED BY <1>1, <1>3, <1>4

\* Acknowledgements.
LEMMA AckTail ==
    ASSUME NEW q \in Seq(Cells), q # <<>>, NEW a, NEW v, LastAck(q, a, v)
    PROVE  LastAck(Tail(q), IF q[1].t = "ACKNOWLEDGEMENT" THEN q[1].v ELSE a, v)
<1>1. /\ Tail(q) \in Seq(Cells) /\ Len(Tail(q)) = Len(q) - 1 /\ Len(q) \in Nat \ {0}
      /\ \A i \in 1 .. (Len(q) - 1) : Tail(q)[i] = q[i + 1]
  BY TailIs
<1>2. /\ Has(q, "ACKNOWLEDGEMENT") <=> \E i \in 1 .. Len(q) : q[i].t = "ACKNOWLEDGEMENT"
      /\ Has(Tail(q), "ACKNOWLEDGEMENT") <=> \E i \in 1 .. Len(Tail(q)) : Tail(q)[i].t = "ACKNOWLEDGEMENT"
  BY <1>1, HasIs
<1>3. CASE Has(Tail(q), "ACKNOWLEDGEMENT")
  <2>1. PICK k \in 1 .. (Len(q) - 1) : Tail(q)[k].t = "ACKNOWLEDGEMENT" BY <1>1, <1>2, <1>3
  <2>2. k + 1 \in 1 .. Len(q) /\ q[k + 1].t = "ACKNOWLEDGEMENT" /\ k + 1 > 1 BY <1>1, <2>1
  <2>3. PICK i \in 1 .. Len(q) : /\ q[i].t = "ACKNOWLEDGEMENT" /\ q[i].v = v
                                 /\ \A j \in 1 .. Len(q) : j > i => q[j].t # "ACKNOWLEDGEMENT"
    BY <1>2, <2>2 DEF LastAck
  <2>4. i # 1 BY <2>2, <2>3
  <2>5. i - 1 \in 1 .. Len(Tail(q)) /\ i - 1 \in 1 .. (Len(q) - 1) /\ (i - 1) + 1 = i BY <1>1, <2>4
  <2>6. Tail(q)[i - 1] = q[i] BY <1>1, <2>5
  <2>7. ASSUME NEW j \in 1 .. Len(Tail(q)), j > i - 1 PROVE Tail(q)[j].t # "ACKNOWLEDGEMENT"
    <3>1. j + 1 \in 1 .. Len(q) /\ j + 1 > i /\ Tail(q)[j] = q[j + 1] BY <1>1, <2>7
    <3> QED BY <2>3, <3>1
  <2> QED BY <1>3, <2>3, <2>5, <2>6, <2>7 DEF LastAck
<1>4. CASE ~Has(Tail(q), "ACKNOWLEDGEMENT")
  <2>1. ASSUME NEW i \in 1 .. Len(q), q[i].t = "ACKNOWLEDGEMENT" PROVE i = 1
    <3>1. SUFFICES ASSUME i # 1 PROVE FALSE OBVIOUS
    <3>2. i - 1 \in 1 .. (Len(q) - 1) /\ (i - 1) + 1 = i BY <1>1, <3>1
    <3>3. Tail(q)[i - 1] = q[i] /\ i - 1 \in 1 .. Len(Tail(q)) BY <1>1, <3>2
    <3> QED BY <1>2, <1>4, <2>1, <3>3
  <2>2. 1 \in 1 .. Len(q) BY <1>1
  <2> QED BY <1>2, <1>4, <2>1, <2>2 DEF LastAck
<1> QED BY <1>3, <1>4

\* A batch without acknowledgements keeps the last one; one that is an acknowledgement
\* becomes it.
LEMMA AckCat ==
    ASSUME NEW q \in Seq(Cells), NEW b \in Seq(Cells), NEW a, NEW v
    PROVE  /\ LastAck(q, a, v) /\ (\A i \in 1 .. Len(b) : b[i].t # "ACKNOWLEDGEMENT") => LastAck(q \o b, a, v)
           /\ Len(b) = 1 /\ b[1].t = "ACKNOWLEDGEMENT" => LastAck(q \o b, a, b[1].v)
<1>1. /\ q \o b \in Seq(Cells) /\ Len(q \o b) = Len(q) + Len(b) /\ Len(q) \in Nat /\ Len(b) \in Nat
      /\ \A i \in 1 .. Len(q) : (q \o b)[i] = q[i]
      /\ \A i \in (Len(q) + 1) .. (Len(q) + Len(b)) : (q \o b)[i] = b[i - Len(q)]
  BY CatIs
<1>2. /\ Has(q, "ACKNOWLEDGEMENT") <=> \E i \in 1 .. Len(q) : q[i].t = "ACKNOWLEDGEMENT"
      /\ Has(q \o b, "ACKNOWLEDGEMENT") <=> \E i \in 1 .. Len(q \o b) : (q \o b)[i].t = "ACKNOWLEDGEMENT"
  BY <1>1, HasIs
<1>3. ASSUME LastAck(q, a, v), \A i \in 1 .. Len(b) : b[i].t # "ACKNOWLEDGEMENT" PROVE LastAck(q \o b, a, v)
  <2>1. \A i \in 1 .. Len(q \o b) :
           \/ i \in 1 .. Len(q) /\ (q \o b)[i] = q[i]
           \/ i > Len(q) /\ (q \o b)[i].t # "ACKNOWLEDGEMENT"
    BY <1>1, <1>3
  <2>2. \A i \in 1 .. Len(q) : i \in 1 .. Len(q \o b) /\ (q \o b)[i] = q[i] BY <1>1
  <2> QED BY <1>2, <1>3, <2>1, <2>2 DEF LastAck
<1>4. ASSUME Len(b) = 1, b[1].t = "ACKNOWLEDGEMENT" PROVE LastAck(q \o b, a, b[1].v)
  <2> DEFINE k == Len(q) + 1
  <2>1. k \in 1 .. Len(q \o b) /\ (q \o b)[k] = b[1] /\ \A j \in 1 .. Len(q \o b) : ~(j > k)
    <3>1. k \in (Len(q) + 1) .. (Len(q) + Len(b)) /\ k - Len(q) = 1 BY <1>1, <1>4
    <3> QED BY <1>1, <1>4, <3>1
  <2> HIDE DEF k
  <2> QED BY <1>2, <1>4, <2>1 DEF LastAck
<1> QED BY <1>3, <1>4

\* The handshake.
LEMMA HsTail ==
    ASSUME SessionAssumption, NEW q \in Seq(Cells), q # <<>>, NEW s, NEW sch, NEW k \in Nat, NEW n \in Nat,
           HsPart(s, sch, q, k, n)
    PROVE  /\ n > 0 => HsCell(s, sch, q[1], k + 1) /\ HsPart(s, sch, Tail(q), k + 1, n - 1)
           /\ n = 0 => q[1].t \notin HsKinds /\ HsPart(s, sch, Tail(q), k, 0)
<1>1. /\ Tail(q) \in Seq(Cells) /\ Len(Tail(q)) = Len(q) - 1 /\ Len(q) \in Nat \ {0}
      /\ \A i \in 1 .. (Len(q) - 1) : Tail(q)[i] = q[i + 1]
  BY TailIs
<1>2. 1 \in 1 .. Len(q) /\ \A i \in 1 .. Len(Tail(q)) : i + 1 \in 1 .. Len(q) /\ Tail(q)[i] = q[i + 1]
  BY <1>1
<1>3. ASSUME n > 0
      PROVE  HsCell(s, sch, q[1], k + 1) /\ HsPart(s, sch, Tail(q), k + 1, n - 1)
  <2>1. HsCell(s, sch, q[1], k + 1) BY <1>2, <1>3 DEF HsPart
  <2>2. n - 1 <= Len(Tail(q)) BY <1>1, <1>3 DEF HsPart
  <2>3. ASSUME NEW i \in 1 .. Len(Tail(q))
        PROVE  IF i <= n - 1 THEN HsCell(s, sch, Tail(q)[i], (k + 1) + i) ELSE Tail(q)[i].t \notin HsKinds
    <3>1. (i + 1 <= n <=> i <= n - 1) /\ k + (i + 1) = (k + 1) + i BY <1>1
    <3>2. IF i + 1 <= n THEN HsCell(s, sch, q[i + 1], k + (i + 1)) ELSE q[i + 1].t \notin HsKinds
      BY <1>2 DEF HsPart
    <3> QED BY <1>2, <3>1, <3>2
  <2> QED BY <2>1, <2>2, <2>3 DEF HsPart
<1>4. ASSUME n = 0 PROVE q[1].t \notin HsKinds /\ HsPart(s, sch, Tail(q), k, 0)
  <2>1. \A i \in 1 .. Len(q) : ~(i <= 0) BY <1>1
  <2>2. \A i \in 1 .. Len(Tail(q)) : ~(i <= 0) BY <1>1
  <2> QED BY <1>1, <1>2, <1>4, <2>1, <2>2 DEF HsPart
<1> QED BY <1>3, <1>4

\* Messages behind the handshake, or its next cells behind its first, continue it.
LEMMA HsCat ==
    ASSUME SessionAssumption, NEW q \in Seq(Cells), NEW b \in Seq(Cells), NEW s, NEW sch,
           NEW k \in Nat, NEW n \in Nat, HsPart(s, sch, q, k, n)
    PROVE  /\ (\A i \in 1 .. Len(b) : b[i].t \notin HsKinds) => HsPart(s, sch, q \o b, k, n)
           /\ Len(q) = n /\ (\A i \in 1 .. Len(b) : HsCell(s, sch, b[i], (k + n) + i))
                 => HsPart(s, sch, q \o b, k, n + Len(b)) /\ Len(q \o b) = n + Len(b)
<1>1. /\ q \o b \in Seq(Cells) /\ Len(q \o b) = Len(q) + Len(b) /\ Len(q) \in Nat /\ Len(b) \in Nat
      /\ \A i \in 1 .. Len(q) : (q \o b)[i] = q[i]
      /\ \A i \in (Len(q) + 1) .. (Len(q) + Len(b)) : (q \o b)[i] = b[i - Len(q)]
  BY CatIs
<1>2. n <= Len(q) BY DEF HsPart
<1>3. ASSUME NEW i \in 1 .. Len(q \o b)
      PROVE  \/ i \in 1 .. Len(q) /\ (q \o b)[i] = q[i]
             \/ i > Len(q) /\ i - Len(q) \in 1 .. Len(b) /\ (q \o b)[i] = b[i - Len(q)]
  BY <1>1
<1>4. ASSUME \A i \in 1 .. Len(b) : b[i].t \notin HsKinds PROVE HsPart(s, sch, q \o b, k, n)
  <2>1. \A i \in 1 .. Len(q \o b) : i > Len(q) => ~(i <= n) BY <1>1, <1>2
  <2> QED BY <1>1, <1>2, <1>3, <1>4, <2>1 DEF HsPart
<1>5. ASSUME Len(q) = n, \A i \in 1 .. Len(b) : HsCell(s, sch, b[i], (k + n) + i)
      PROVE  HsPart(s, sch, q \o b, k, n + Len(b)) /\ Len(q \o b) = n + Len(b)
  <2>1. ASSUME NEW i \in 1 .. Len(q \o b)
        PROVE  i <= n + Len(b) /\ HsCell(s, sch, (q \o b)[i], k + i)
    <3>1. CASE i \in 1 .. Len(q) /\ (q \o b)[i] = q[i] BY <1>1, <1>5, <3>1 DEF HsPart
    <3>2. CASE i > Len(q) /\ i - Len(q) \in 1 .. Len(b) /\ (q \o b)[i] = b[i - Len(q)]
      <4>1. (k + n) + (i - Len(q)) = k + i BY <1>1, <1>5
      <4> QED BY <1>1, <1>5, <3>2, <4>1
    <3> QED BY <1>3, <3>1, <3>2
  <2> QED BY <1>1, <1>5, <2>1 DEF HsPart
<1> QED BY <1>4, <1>5

-------------------------------------------------------------------------------
(* What a step of Input does to what is under way.                           *)

\* There are two sides, each the other's peer.
LEMMA SidesAre == Sides = {"client", "server"} /\ Peer("client") = "server" /\ Peer("server") = "client"
  BY DEF Sides, Peer

\* A cell of a sequence has an index.
LEMMA ElemsAre ==
    ASSUME NEW q \in Seq(Cells), NEW c
    PROVE  c \in Elems(q) <=> \E i \in 1 .. Len(q) : c = q[i]
<1>1. DOMAIN q = 1 .. Len(q) OBVIOUS
<1> QED BY <1>1 DEF Elems

\* The first cell was taken and a batch sent, or the output failed.
Took(s, out) ==
    /\ In(s)' = Tail(In(s)) /\ In(Peer(s))' = In(Peer(s)) \o out /\ (out = <<>> \/ works[s])
    /\ UNCHANGED <<busy, works, gone>>
Dropped(s) ==
    /\ ~works[s] /\ (\E d \in Seq(Cells) : d # <<>> /\ In(s) = d \o In(s)') /\ In(Peer(s))' = In(Peer(s))
    /\ UNCHANGED works /\ gone' = [gone EXCEPT ![s] = TRUE] /\ busy' = [busy EXCEPT ![s] = FALSE]

\* A concatenation begins with the first cell of its first part.
LEMMA CatHead ==
    ASSUME NEW q \in Seq(Cells), NEW b \in Seq(Cells), q # <<>>
    PROVE  q \o b # <<>> /\ (q \o b)[1] = q[1]
<1>1. /\ Len(q \o b) = Len(q) + Len(b) /\ Len(q) \in Nat /\ Len(b) \in Nat
      /\ \A i \in 1 .. Len(q) : (q \o b)[i] = q[i]
  BY CatIs
<1>2. Len(q) > 0 /\ 1 \in 1 .. Len(q) OBVIOUS
<1>3. Len(q \o b) # Len(<<>>) BY <1>1, <1>2
<1> QED BY <1>1, <1>2, <1>3

\* What Input takes next is the first cell that lies ahead of its side.
LEMMA InIs ==
    ASSUME Lines, NEW s \in Sides
    PROVE  /\ In(s) \in Seq(Cells) /\ Peer(s) \in Sides /\ Peer(s) # s /\ Peer(Peer(s)) = s
           /\ Ready(s) => /\ In(s) # <<>> /\ In(s)[1] = First(s) /\ First(s) \in Elems(In(s))
                          /\ ~gone[s] /\ busy[s]
<1>1. data[s] \in Seq(Cells) /\ wire[s] \in Seq(Cells) BY DEF Lines
<1>2. In(s) \in Seq(Cells) BY <1>1 DEF In
<1>3. Peer(s) \in Sides /\ Peer(s) # s /\ Peer(Peer(s)) = s BY DEF Sides, Peer
<1>4. ASSUME Ready(s)
      PROVE  /\ In(s) # <<>> /\ In(s)[1] = First(s) /\ First(s) \in Elems(In(s))
             /\ ~gone[s] /\ busy[s]
  <2>1. busy[s] /\ data[s] # <<>> BY <1>4 DEF Ready
  <2>2. In(s) # <<>> /\ In(s)[1] = data[s][1] BY <1>1, <2>1, CatHead DEF In
  <2>3. Head(data[s]) = data[s][1] BY <1>1, <2>1
  <2>4. ~gone[s] BY <2>1 DEF Lines
  <2>5. In(s)[1] \in Elems(In(s))
    <3>1. 1 \in 1 .. Len(In(s)) BY <1>2, <2>2
    <3> QED BY <1>2, <3>1, ElemsAre
  <2> QED BY <2>1, <2>2, <2>3, <2>4, <2>5 DEF First
<1> QED BY <1>2, <1>3, <1>4

\* The first cell of a concatenation is taken from its first part.
LEMMA TailCat ==
    ASSUME NEW q \in Seq(Cells), NEW b \in Seq(Cells), q # <<>>
    PROVE  Tail(q) \o b = Tail(q \o b)
<1>1. /\ q \o b \in Seq(Cells) /\ Len(q \o b) = Len(q) + Len(b) /\ Len(q) \in Nat /\ Len(b) \in Nat
      /\ \A i \in 1 .. Len(q) : (q \o b)[i] = q[i]
      /\ \A i \in (Len(q) + 1) .. (Len(q) + Len(b)) : (q \o b)[i] = b[i - Len(q)]
  BY CatIs
<1>2. /\ Tail(q) \in Seq(Cells) /\ Len(Tail(q)) = Len(q) - 1 /\ Len(q) \in Nat \ {0}
      /\ \A i \in 1 .. (Len(q) - 1) : Tail(q)[i] = q[i + 1]
  BY TailIs
<1>3. q \o b # <<>> BY <1>1, <1>2
<1>4. /\ Tail(q \o b) \in Seq(Cells) /\ Len(Tail(q \o b)) = Len(q \o b) - 1
      /\ \A i \in 1 .. (Len(q \o b) - 1) : Tail(q \o b)[i] = (q \o b)[i + 1]
  BY <1>1, <1>3, TailIs
<1>5. /\ Tail(q) \o b \in Seq(Cells) /\ Len(Tail(q) \o b) = Len(Tail(q)) + Len(b)
      /\ \A i \in 1 .. Len(Tail(q)) : (Tail(q) \o b)[i] = Tail(q)[i]
      /\ \A i \in (Len(Tail(q)) + 1) .. (Len(Tail(q)) + Len(b)) : (Tail(q) \o b)[i] = b[i - Len(Tail(q))]
  BY <1>2, CatIs
<1>6. ASSUME NEW i \in 1 .. Len(Tail(q \o b)) PROVE (Tail(q) \o b)[i] = Tail(q \o b)[i]
  <2>1. Tail(q \o b)[i] = (q \o b)[i + 1] BY <1>4
  <2>2. CASE i <= Len(Tail(q))
    <3>1. i \in 1 .. Len(Tail(q)) /\ i + 1 \in 1 .. Len(q) BY <1>2, <2>2
    <3> QED BY <1>1, <1>2, <1>5, <2>1, <3>1
  <2>3. CASE i > Len(Tail(q))
    <3>1. /\ i \in (Len(Tail(q)) + 1) .. (Len(Tail(q)) + Len(b))
          /\ i + 1 \in (Len(q) + 1) .. (Len(q) + Len(b)) /\ (i + 1) - Len(q) = i - Len(Tail(q))
      BY <1>1, <1>2, <1>4, <2>3
    <3> QED BY <1>1, <1>5, <2>1, <3>1
  <2> QED BY <1>2, <2>2, <2>3
<1>7. Len(Tail(q) \o b) = Len(Tail(q \o b)) BY <1>1, <1>2, <1>4, <1>5
<1> QED BY <1>4, <1>5, <1>6, <1>7, SeqEqual

\* Concatenation is associative, and the empty sequence its unit.
LEMMA CatAssoc ==
    ASSUME NEW a \in Seq(Cells), NEW b \in Seq(Cells), NEW c \in Seq(Cells)
    PROVE  a \o (b \o c) = (a \o b) \o c
  BY ConcatAssociative, SMTT(30)

LEMMA CatEmpty ==
    ASSUME NEW a \in Seq(Cells)
    PROVE  a \o <<>> = a /\ <<>> \o a = a
  BY ConcatEmptySeq

\* A handler that sends nothing takes the first cell.
LEMMA Consumes ==
    ASSUME Lines, NEW s \in Sides, Ready(s), Consume(s)
    PROVE  Lines' /\ Took(s, <<>>)
<1>1. /\ data[s] \in Seq(Cells) /\ wire[s] \in Seq(Cells) /\ data[s] # <<>> /\ busy[s]
      /\ Tail(data[s]) \in Seq(Cells) /\ Peer(s) \in Sides /\ Peer(s) # s
  BY InIs DEF Lines, Ready
<1>2. data' = [data EXCEPT ![s] = Tail(@)] /\ UNCHANGED <<wire, busy, works, gone>>
  BY DEF Consume, Rest, ends
<1>3. data'[s] = Tail(data[s]) /\ data'[Peer(s)] = data[Peer(s)] /\ data' \in [Sides -> Seq(Cells)]
  BY <1>1, <1>2 DEF Lines
<1>4. In(s)' = Tail(In(s)) BY <1>1, <1>2, <1>3, TailCat DEF In
<1>5. In(Peer(s))' = In(Peer(s)) BY <1>2, <1>3 DEF In
<1>6. In(Peer(s)) \o <<>> = In(Peer(s)) BY <1>1, InIs, CatEmpty
<1>7. Lines'
  <2>1. ASSUME NEW x \in Sides, ~busy[x] PROVE data'[x] = <<>>
    <3>1. x # s BY <1>1, <2>1
    <3> QED BY <1>2, <2>1, <3>1 DEF Lines
  <2> QED BY <1>2, <1>3, <2>1 DEF Lines
<1> QED BY <1>2, <1>4, <1>5, <1>6, <1>7 DEF Took

\* A handler that sends takes the first cell and adds its batch, or drops the rest of
\* its data.
LEMMA Sends ==
    ASSUME Lines, NEW s \in Sides, Ready(s), NEW out \in Seq(Cells), Send(s, out) \/ SendFails(s)
    PROVE  Lines' /\ (Took(s, out) \/ Dropped(s))
<1>1. /\ data[s] \in Seq(Cells) /\ wire[s] \in Seq(Cells) /\ data[s] # <<>> /\ busy[s]
      /\ Tail(data[s]) \in Seq(Cells) /\ Peer(s) \in Sides /\ Peer(s) # s
      /\ data[Peer(s)] \in Seq(Cells) /\ wire[Peer(s)] \in Seq(Cells)
  BY InIs DEF Lines, Ready
<1>2. CASE Send(s, out)
  <2>1. /\ data' = [data EXCEPT ![s] = Tail(@)] /\ wire' = [wire EXCEPT ![Peer(s)] = @ \o out] /\ works[s]
        /\ UNCHANGED <<busy, works, gone>>
    BY <1>2 DEF Send, Rest, ends
  <2>2. data'[s] = Tail(data[s]) /\ data'[Peer(s)] = data[Peer(s)] /\ data' \in [Sides -> Seq(Cells)]
    BY <1>1, <2>1 DEF Lines
  <2>3. wire[Peer(s)] \o out \in Seq(Cells) BY <1>1
  <2>4. wire'[s] = wire[s] /\ wire'[Peer(s)] = wire[Peer(s)] \o out /\ wire' \in [Sides -> Seq(Cells)]
    BY <1>1, <2>1, <2>3 DEF Lines
  <2>5. In(s)' = Tail(In(s))
    <3>1. Tail(data[s]) \o wire[s] = Tail(data[s] \o wire[s]) BY <1>1, TailCat
    <3> QED BY <2>2, <2>4, <3>1 DEF In
  <2>6. In(Peer(s))' = In(Peer(s)) \o out
    <3>1. data[Peer(s)] \o (wire[Peer(s)] \o out) = (data[Peer(s)] \o wire[Peer(s)]) \o out
      BY <1>1, CatAssoc, ZenonT(30)
    <3> QED BY <2>2, <2>4, <3>1 DEF In
  <2>7. Lines'
    <3>1. ASSUME NEW x \in Sides, ~busy[x] PROVE data'[x] = <<>>
      <4>1. x # s BY <1>1, <3>1
      <4> QED BY <2>1, <3>1, <4>1 DEF Lines
    <3> QED BY <2>1, <2>2, <2>4, <3>1 DEF Lines
  <2> QED BY <2>1, <2>5, <2>6, <2>7 DEF Took
<1>3. CASE SendFails(s)
  <2>1. /\ data' = [data EXCEPT ![s] = <<>>] /\ ~works[s] /\ UNCHANGED <<wire, works>>
        /\ busy' = [busy EXCEPT ![s] = FALSE] /\ gone' = [gone EXCEPT ![s] = TRUE]
    BY <1>3 DEF SendFails
  <2>2. <<>> \in Seq(Cells) OBVIOUS
  <2>3. data'[s] = <<>> /\ data'[Peer(s)] = data[Peer(s)] /\ data' \in [Sides -> Seq(Cells)]
    BY <1>1, <2>1, <2>2 DEF Lines
  <2>4. In(s)' = wire[s] BY <1>1, <2>1, <2>3, CatEmpty DEF In
  <2>5. In(Peer(s))' = In(Peer(s)) BY <2>1, <2>3 DEF In
  <2>6. In(s) = data[s] \o In(s)' BY <2>4 DEF In
  <2>7. Lines' BY <2>1, <2>3 DEF Lines
  <2> QED BY <1>1, <2>1, <2>5, <2>6, <2>7 DEF Dropped
<1> QED BY <1>2, <1>3

\* What is left to read, and what was on its way before or is in the batch.
LEMMA Remaining ==
    ASSUME Lines, Lines', NEW s \in Sides, Ready(s), NEW out \in Seq(Cells), Took(s, out) \/ Dropped(s)
    PROVE  /\ Elems(In(s)') \subseteq Elems(In(s))
           /\ Elems(In(Peer(s))') \subseteq Elems(In(Peer(s))) \cup Elems(out)
           /\ OneToken /\ IsToken(First(s)) =>
                \A c \in Elems(In(s)') \cup Elems(In(Peer(s))) : ~IsToken(c)
           /\ OneToken /\ (Free(out) \/ (IsToken(First(s)) /\ Single(out))) => OneToken'
<1> DEFINE q == In(s)
           p == In(Peer(s))
<1>1. q \in Seq(Cells) /\ p \in Seq(Cells) /\ q # <<>> /\ q[1] = First(s) /\ q' \in Seq(Cells)
      /\ Tail(q) \in Seq(Cells) /\ Peer(s) \in Sides
  <2>1. q' \in Seq(Cells)
    <3>1. data'[s] \in Seq(Cells) /\ wire'[s] \in Seq(Cells) BY DEF Lines
    <3> QED BY <3>1 DEF In
  <2> QED BY <2>1, InIs, TailIs
<1>2. OneToken <=> (Single(q) /\ Free(p)) \/ (Free(q) /\ Single(p))
  BY SidesAre DEF OneToken
<1>3. OneToken' <=> (Single(q') /\ Free(p')) \/ (Free(q') /\ Single(p'))
  BY SidesAre DEF OneToken
<1>4. \A b \in Seq(Cells) : Free(b) <=> \A c \in Elems(b) : ~IsToken(c) BY ElemsAre DEF Free
<1>5. \A b \in Seq(Cells) : Free(b) => Single(b) BY DEF Free, Single
<1>6. CASE Took(s, out)
  <2>1. q' = Tail(q) /\ p' = p \o out BY <1>6 DEF Took
  <2>2. Elems(q') \subseteq Elems(q) BY <1>1, <2>1, ElemsTail
  <2>3. Elems(p') = Elems(p) \cup Elems(out) BY <1>1, <2>1, ElemsCat
  <2>4. /\ Free(q) => Free(q') /\ ~IsToken(First(s))
        /\ Single(q) => Single(q')
        /\ Single(q) /\ IsToken(First(s)) => Free(q')
    BY <1>1, <2>1, TokenTail
  <2>5. /\ Free(p) /\ Free(out) => Free(p')
        /\ Single(p) /\ Free(out) => Single(p')
        /\ Free(p) /\ Single(out) => Single(p')
    BY <1>1, <2>1, TokenCat
  <2>6. OneToken /\ IsToken(First(s)) => Free(q') /\ Free(p) BY <1>2, <2>4
  <2> HIDE DEF q, p
  <2>7. OneToken /\ IsToken(First(s)) => \A c \in Elems(q') \cup Elems(p) : ~IsToken(c)
    BY <1>1, <1>4, <2>6
  <2>8. OneToken /\ (Free(out) \/ (IsToken(First(s)) /\ Single(out))) => OneToken'
    BY <1>2, <1>3, <2>4, <2>5
  <2> QED BY <2>2, <2>3, <2>7, <2>8 DEF q, p
<1>7. CASE Dropped(s)
  <2>1. p' = p BY <1>7 DEF Dropped
  <2>2. PICK d \in Seq(Cells) : d # <<>> /\ q = d \o q' BY <1>7 DEF Dropped
  <2>3. Elems(q') \subseteq Elems(q) BY <1>1, <2>2, ElemsCat
  <2>4. (Free(q) => Free(q')) /\ (Single(q) => Single(q')) BY <1>1, <2>2, TokenCat
  <2>5. ASSUME OneToken, IsToken(First(s)) PROVE Free(q') /\ Free(p)
    <3>1. Single(q) /\ Free(p)
      <4>1. Single(q) => ~Free(q) BY <1>1, TokenTail, <2>5
      <4>2. ~Free(q) BY <1>1, TokenTail, <2>5
      <4> QED BY <1>2, <2>5, <4>2
    <3>2. d[1] = q[1] BY <1>1, <2>2, CatHead
    <3> QED BY <1>1, <2>2, <2>5, <3>1, <3>2, TokenCat
  <2> HIDE DEF q, p
  <2>6. OneToken /\ IsToken(First(s)) => \A c \in Elems(q') \cup Elems(p) : ~IsToken(c)
    BY <1>1, <1>4, <2>5
  <2>7. OneToken /\ (Free(out) \/ (IsToken(First(s)) /\ Single(out))) => OneToken'
    BY <1>2, <1>3, <2>1, <2>4
  <2> QED BY <2>1, <2>3, <2>6, <2>7 DEF q, p
<1> QED BY <1>6, <1>7

\* Chunk sizes go on agreeing when the reader takes a message and the writer adds a
\* batch in its size.
LEMMA ChunkStep ==
    ASSUME Typed, Lines, Lines', ChunkSizes, NEW s \in Sides, Ready(s), NEW out \in Seq(Cells),
           Took(s, out) \/ Dropped(s),
           rsize' = IF First(s).t = "SET_CHUNK_SIZE" THEN [rsize EXCEPT ![s] = WriteSize] ELSE rsize,
           works[s] => Sized(out, wsize[s]) /\ wsize'[s] = EndSize(out, wsize[s]),
           wsize'[Peer(s)] = wsize[Peer(s)]
    PROVE  ChunkSizes'
<1> DEFINE p == Peer(s)
<1>1. /\ In(s) \in Seq(Cells) /\ In(s) # <<>> /\ In(s)[1] = First(s) /\ ~gone[s]
      /\ p \in Sides /\ p # s /\ Peer(p) = s /\ In(p) \in Seq(Cells)
      /\ \A x \in Sides : x = s \/ x = p
  BY InIs, SidesAre
<1>2. /\ rsize'[p] = rsize[p]
      /\ rsize'[s] = IF First(s).t = "SET_CHUNK_SIZE" THEN WriteSize ELSE rsize[s]
  BY <1>1 DEF Typed
<1>3. Sized(In(s), rsize[s]) /\ (works[p] => wsize[p] = EndSize(In(s), rsize[s])) BY <1>1 DEF ChunkSizes
<1>4. ~gone[p] => Sized(In(p), rsize[p]) /\ (works[s] => wsize[s] = EndSize(In(p), rsize[p]))
  BY <1>1 DEF ChunkSizes
<1> HIDE DEF p
<1>5. CASE Took(s, out)
  <2>1. /\ In(s)' = Tail(In(s)) /\ In(p)' = In(p) \o out /\ (out = <<>> \/ works[s])
        /\ UNCHANGED <<works, gone>>
    BY <1>5 DEF Took, p
  <2>2. Sized(In(s)', rsize'[s]) /\ EndSize(In(s)', rsize'[s]) = EndSize(In(s), rsize[s])
    <3>1. rsize'[s] = IF In(s)[1].t = "SET_CHUNK_SIZE" THEN WriteSize ELSE rsize[s] BY <1>1, <1>2
    <3>2. Sized(Tail(In(s)), rsize'[s]) /\ EndSize(Tail(In(s)), rsize'[s]) = EndSize(In(s), rsize[s])
      BY <1>1, <1>3, <3>1, SizedTail
    <3> QED BY <2>1, <3>2
  <2>3. CASE works[s]
    <3>1. ~gone[p] => Sized(In(p)', rsize'[p]) /\ EndSize(In(p)', rsize'[p]) = EndSize(out, wsize[s])
      BY <1>1, <1>2, <1>4, <2>1, <2>3, SizedCat
    <3> QED BY <1>1, <1>3, <2>1, <2>2, <2>3, <3>1 DEF ChunkSizes, p
  <2>4. CASE ~works[s]
    <3>1. In(p)' = In(p) BY <1>1, <2>1, <2>4, CatEmpty
    <3> QED BY <1>1, <1>2, <1>3, <1>4, <2>1, <2>2, <2>4, <3>1 DEF ChunkSizes, p
  <2> QED BY <2>3, <2>4
<1>6. CASE Dropped(s)
  <2>1. /\ ~works[s] /\ In(p)' = In(p) /\ UNCHANGED works /\ gone'[s] /\ gone'[p] = gone[p]
    BY <1>1, <1>6 DEF Dropped, Lines, p
  <2> QED BY <1>1, <1>2, <1>4, <2>1 DEF ChunkSizes
<1> QED BY <1>5, <1>6

\* Acknowledgements go on agreeing when a message is taken and none is sent.
LEMMA AckStep ==
    ASSUME Typed, Typed', Lines, Lines', Acks, NEW s \in Sides, Ready(s), NEW out \in Seq(Cells),
           Took(s, out) \/ Dropped(s),
           \A i \in 1 .. Len(out) : out[i].t # "ACKNOWLEDGEMENT",
           ackSeen'[s] = IF First(s).t = "ACKNOWLEDGEMENT" THEN First(s).v ELSE ackSeen[s],
           ackSeen'[Peer(s)] = ackSeen[Peer(s)], acked' = acked,
           recv'[s] >= recv[s], recv'[Peer(s)] = recv[Peer(s)],
           peerWnd'[Peer(s)] = peerWnd[Peer(s)], stage'[Peer(s)] = stage[Peer(s)],
           peerWnd'[s] # 0 => stage'[s] = 3
    PROVE  Acks'
<1> DEFINE p == Peer(s)
<1>1. /\ In(s) \in Seq(Cells) /\ In(s) # <<>> /\ In(s)[1] = First(s) /\ ~gone[s] /\ busy[s]
      /\ p \in Sides /\ p # s /\ Peer(p) = s /\ In(p) \in Seq(Cells)
      /\ \A x \in Sides : x = s \/ x = p
  BY InIs, SidesAre
<1>2. /\ acked[s] \in Nat /\ recv[s] \in Nat /\ recv'[s] \in Nat /\ acked[s] <= recv[s] /\ acked[p] <= recv[p]
  BY <1>1 DEF Typed, Acks
<1>3. acked'[s] <= recv'[s] /\ acked'[p] <= recv'[p] BY <1>2 DEF p
<1>4. CASE Took(s, out)
  <2>1. /\ In(s)' = Tail(In(s)) /\ In(p)' = In(p) \o out /\ UNCHANGED <<busy, works, gone>>
    BY <1>4 DEF Took
  <2>2. ASSUME works["client"], works["server"]
        PROVE  /\ LastAck(In(p)', ackSeen'[p], acked'[s])
               /\ LastAck(In(s)', ackSeen'[s], acked'[p])
    <3>1. LastAck(In(p), ackSeen[p], acked[s]) /\ LastAck(In(s), ackSeen[s], acked[p])
      BY <1>1, <2>2 DEF Acks
    <3>2. LastAck(In(p)', ackSeen'[p], acked'[s]) BY <1>1, <2>1, <3>1, AckCat
    <3>3. LastAck(In(s)', ackSeen'[s], acked'[p]) BY <1>1, <2>1, <3>1, AckTail
    <3> QED BY <3>2, <3>3
  <2>3. ~busy'[p] /\ peerWnd'[p] # 0 => recv'[p] - acked'[p] < peerWnd'[p] \/ ~works'[p]
    BY <1>1, <2>1 DEF Acks
  <2>4. peerWnd'[p] # 0 => stage'[p] = 3 BY <1>1 DEF Acks
  <2> HIDE DEF p
  <2>5. ASSUME NEW x \in Sides
        PROVE  /\ acked'[x] <= recv'[x]
               /\ peerWnd'[x] # 0 => stage'[x] = 3
               /\ ~busy'[x] /\ peerWnd'[x] # 0 => recv'[x] - acked'[x] < peerWnd'[x] \/ ~works'[x]
               /\ works'["client"] /\ works'["server"] => LastAck(In(Peer(x))', ackSeen'[Peer(x)], acked'[x])
    <3>1. CASE x = s BY <1>1, <1>3, <2>1, <2>2, <3>1 DEF p
    <3>2. CASE x = p BY <1>1, <1>3, <2>1, <2>2, <2>3, <2>4, <3>2
    <3> QED BY <1>1, <3>1, <3>2
  <2> QED BY <2>5 DEF Acks
<1>5. CASE Dropped(s)
  <2>1. /\ ~works[s] /\ UNCHANGED works /\ busy'[p] = busy[p]
    BY <1>1, <1>5 DEF Dropped, Lines
  <2>2. ~(works["client"] /\ works["server"]) BY <2>1, SidesAre
  <2>3. ~busy'[p] /\ peerWnd'[p] # 0 => recv'[p] - acked'[p] < peerWnd'[p] \/ ~works'[p]
    BY <1>1, <2>1 DEF Acks
  <2>4. peerWnd'[p] # 0 => stage'[p] = 3 BY <1>1 DEF Acks
  <2> HIDE DEF p
  <2>5. ASSUME NEW x \in Sides
        PROVE  /\ acked'[x] <= recv'[x]
               /\ peerWnd'[x] # 0 => stage'[x] = 3
               /\ ~busy'[x] /\ peerWnd'[x] # 0 => recv'[x] - acked'[x] < peerWnd'[x] \/ ~works'[x]
    BY <1>1, <1>3, <2>1, <2>3, <2>4
  <2> QED BY <2>1, <2>2, <2>5 DEF Acks
<1> QED BY <1>4, <1>5

\* The word of the start goes on being ahead of media when a message is taken and a
\* batch without media sent.
LEMMA TellStep ==
    ASSUME Lines, Lines', Told, MediaAfter, NEW s \in Sides, Ready(s), NEW out \in Seq(Cells),
           Took(s, out) \/ Dropped(s), role' = role,
           \A i \in 1 .. Len(out) : out[i].t # "media",
           s = "server" => state'["client"] = state["client"],
           s = "client" => \/ state'["client"] = Outcome(role, "start")
                           \/ /\ ~IsStart(First(s))
                              /\ state["client"] = Outcome(role, "start") =>
                                    state'["client"] = Outcome(role, "start"),
           verdict' = "start" => verdict = "start" \/ (s = "server" /\ \E c \in Elems(out) : IsStart(c))
    PROVE  Told' /\ MediaAfter'
<1> DEFINE start == Outcome(role, "start")
<1>0. Outcome(role, "start")' = start BY DEF Outcome
<1>1. /\ In(s) \in Seq(Cells) /\ In(s) # <<>> /\ In(s)[1] = First(s) /\ ~gone[s]
      /\ Peer(s) \in Sides /\ In("client") \in Seq(Cells)
  BY InIs, SidesAre
<1> HIDE DEF start
<1>2. CASE s = "client"
  <2>1. CASE state'["client"] = start BY <1>0, <2>1 DEF Told, MediaAfter
  <2>2. CASE state'["client"] # start
    <3>1. ~IsStart(First(s)) /\ state["client"] # start /\ (verdict' = "start" => verdict = "start")
      BY <1>2, <2>2 DEF start
    <3>2. CASE Took(s, out)
      <4>1. In("client")' = Tail(In("client")) /\ UNCHANGED gone BY <1>2, <3>2 DEF Took
      <4>2. ToldFirst(In("client")) BY <1>1, <1>2, <3>1 DEF MediaAfter, start
      <4>3. ToldFirst(In("client")') BY <1>1, <1>2, <3>1, <4>1, <4>2, ToldTail
      <4>4. Elems(In("client")) = {First(s)} \cup Elems(In("client")') BY <1>1, <1>2, <4>1, ElemsTail
      <4>5. Told'
        <5>1. ASSUME verdict = "start", ~gone["server"] PROVE \E c \in Elems(In("client")') : IsStart(c)
          <6>1. PICK c \in Elems(In("client")) : IsStart(c) BY <1>1, <1>2, <3>1, <5>1 DEF Told, start
          <6>2. c # First(s) BY <3>1, <6>1
          <6> QED BY <4>4, <6>1, <6>2
        <5> QED BY <3>1, <4>1, <5>1 DEF Told
      <4> QED BY <4>3, <4>5 DEF MediaAfter
    <3>3. CASE Dropped(s)
      <4>1. gone'["client"] BY <1>2, <3>3 DEF Dropped, Lines
      <4> QED BY <4>1 DEF Told, MediaAfter
    <3> QED BY <3>2, <3>3
  <2> QED BY <2>1, <2>2
<1>3. CASE s = "server"
  <2>1. state'["client"] = state["client"] BY <1>3
  <2>2. CASE Took(s, out)
    <3>1. In("client")' = In("client") \o out /\ UNCHANGED gone BY <1>3, <2>2, SidesAre DEF Took
    <3>2. Elems(In("client")') = Elems(In("client")) \cup Elems(out) BY <1>1, <3>1, ElemsCat
    <3>3. Told' BY <1>0, <2>1, <3>1, <3>2 DEF Told, start
    <3>4. ToldFirst(In("client")) => ToldFirst(In("client")') BY <1>1, <3>1, ToldCat
    <3> QED BY <1>0, <2>1, <3>1, <3>3, <3>4 DEF MediaAfter, start
  <2>3. CASE Dropped(s)
    <3>1. gone'["server"] /\ gone'["client"] = gone["client"] /\ In("client")' = In("client")
      BY <1>3, <2>3, SidesAre DEF Dropped, Lines
    <3>2. Told' BY <3>1 DEF Told
    <3> QED BY <1>0, <2>1, <3>1, <3>2 DEF MediaAfter, start
  <2> QED BY <2>2, <2>3
<1> QED BY <1>2, <1>3, SidesAre

\* Cells of the handshake read and sent are never more than it has.
LEMMA HsCounts ==
    ASSUME SessionAssumption, Typed, NEW s \in Sides
    PROVE  /\ HsRead(s) \in Nat /\ HsSent(s) \in Nat /\ HsAll \in Nat /\ HsLen \in Nat \ {0}
           /\ HsSent(s) <= HsAll /\ (~gone[s] => (HsRead(s) <= HsAll /\ (HsRead(s) = HsAll <=> stage[s] = 3)))
<1>1. HsLen \in Nat \ {0} BY DEF SessionAssumption
<1>2. stage[s] \in 0 .. 3 /\ cache[s] \in 0 .. HsLen /\ (~gone[s] => cache[s] < HsLen) /\ started \in BOOLEAN
  BY DEF Typed
<1>3. HsRead(s) \in Nat /\ (~gone[s] => (HsRead(s) <= HsAll /\ (HsRead(s) = HsAll <=> stage[s] = 3)))
  BY <1>1, <1>2 DEF HsRead, HsAll
<1>4. HsSent(s) \in Nat /\ HsSent(s) <= HsAll BY <1>1, <1>2 DEF HsSent, HsAll
<1> QED BY <1>1, <1>3, <1>4 DEF HsAll

\* A message is handled after the handshake of its reader.
LEMMA ShakenStep ==
    ASSUME SessionAssumption, Typed, Lines, Lines', Shaking, NEW s \in Sides, Ready(s), stage[s] = 3,
           NEW out \in Seq(Cells), Took(s, out) \/ Dropped(s), UNCHANGED <<started, shake>>,
           \A x \in Sides : state'[x] = "HANDSHAKEING" <=> state[x] = "HANDSHAKEING",
           \A i \in 1 .. Len(out) : out[i].t \notin HsKinds
    PROVE  Shaking' /\ First(s).t \notin HsKinds
<1> DEFINE p == Peer(s)
           sch == scheme["client"]
<1>0. UNCHANGED <<stage, cache, scheme>> BY DEF shake
<1>1. /\ In(s) \in Seq(Cells) /\ In(s) # <<>> /\ In(s)[1] = First(s) /\ ~gone[s]
      /\ p \in Sides /\ p # s /\ Peer(p) = s /\ In(p) \in Seq(Cells)
      /\ \A x \in Sides : x = s \/ x = p
  BY InIs, SidesAre
<1>2. \A x \in Sides : HsRead(x)' = HsRead(x) /\ HsSent(x)' = HsSent(x)
  BY <1>0 DEF HsRead, HsSent
<1>3. started BY <1>1 DEF Shaking
<1>4. HsRead(s) = HsAll /\ HsSent(s) = HsAll /\ HsSent(s) - HsRead(s) = 0 /\ HsAll \in Nat
  <2>1. HsRead(s) = HsAll /\ HsAll \in Nat /\ HsSent(s) \in Nat /\ HsSent(s) <= HsAll
    BY <1>1, HsCounts
  <2>2. HsSent(s) >= HsRead(s) BY <1>1 DEF Shaking
  <2> QED BY <2>1, <2>2
<1>5. HsSent(p) = HsAll BY <1>1, <1>3, SidesAre DEF HsSent
<1>6. HsPart(s, sch, In(s), HsRead(s), 0) BY <1>1, <1>4 DEF Shaking
<1>7. First(s).t \notin HsKinds /\ HsPart(s, sch, Tail(In(s)), HsRead(s), 0)
  BY <1>1, <1>4, <1>6, HsTail
<1>8. ~gone[p] => /\ HsSent(p) >= HsRead(p) /\ HsSent(p) - HsRead(p) \in Nat /\ HsRead(p) \in Nat
                  /\ HsPart(p, sch, In(p), HsRead(p), HsSent(p) - HsRead(p))
  <2>1. HsRead(p) \in Nat /\ HsSent(p) \in Nat BY <1>1, HsCounts
  <2> QED BY <1>1, <2>1 DEF Shaking
<1> HIDE DEF p, sch
<1>9. ASSUME ~gone'[s]
      PROVE  HsPart(s, sch, In(s)', HsRead(s), 0)
  <2>1. ~Dropped(s) BY <1>9 DEF Dropped, Lines
  <2> QED BY <1>7, <2>1 DEF Took
<1>10. ASSUME ~gone'[p]
       PROVE  /\ HsSent(p) >= HsRead(p)
              /\ HsPart(p, sch, In(p)', HsRead(p), HsSent(p) - HsRead(p))
  <2>1. CASE Took(s, out)
    <3>1. ~gone[p] /\ In(p)' = In(p) \o out BY <1>10, <2>1 DEF Took, p
    <3> QED BY <1>1, <1>8, <3>1, HsCat, SMTT(30)
  <2>2. CASE Dropped(s)
    <3>1. ~gone[p] /\ In(p)' = In(p) BY <1>1, <1>10, <2>2 DEF Dropped, Lines, p
    <3> QED BY <1>8, <3>1
  <2> QED BY <2>1, <2>2
<1>11. ASSUME NEW x \in Sides, ~gone'[x]
       PROVE  /\ HsSent(x)' >= HsRead(x)'
              /\ HsPart(x, scheme'["client"], In(x)', HsRead(x)', HsSent(x)' - HsRead(x)')
              /\ HsSent(x)' < HsAll => Len(In(x)') = HsSent(x)' - HsRead(x)'
  <2>1. scheme'["client"] = sch BY <1>0 DEF sch
  <2>2. CASE x = s BY <1>2, <1>4, <1>9, <1>11, <2>1, <2>2
  <2>3. CASE x = p
    <3>1. ~(HsSent(p) < HsAll) BY <1>4, <1>5
    <3> QED BY <1>1, <1>2, <1>10, <1>11, <2>1, <2>3, <3>1
  <2> QED BY <1>1, <2>2, <2>3
<1>12. /\ stage'["server"] >= 2 => scheme'["server"] = scheme'["client"]
       /\ \A x \in Sides : stage'[x] = 3 <=> state'[x] # "HANDSHAKEING"
       /\ started'
  BY <1>0, <1>3 DEF Shaking
<1> QED BY <1>7, <1>11, <1>12 DEF Shaking

-------------------------------------------------------------------------------
(* Messages.                                                                 *)

\* What a handler of a message sends.
Plain(out) == \A i \in 1 .. Len(out) : out[i].t \notin HsKinds \cup {"ACKNOWLEDGEMENT", "media"}
\* One step of Input that sends out, or nothing if the output fails.
Does(s, out) == (out = <<>> /\ Consume(s)) \/ Send(s, out) \/ SendFails(s)

\* What it sends has the size of its channel, and proves what it should.
OfSize(out, w) == \A i \in 1 .. Len(out) : out[i].size = w /\ out[i].t # "SET_CHUNK_SIZE"
FitsFrom(s, out) ==
    \A c \in Elems(out) : FitsBoth(c) /\ (s = "client" => FitsServer(c)) /\ (s = "server" => FitsClient(c))

\* Every conjunct but the types, Progress and Fits, kept by a step that handles one
\* message.
LEMMA MessageStep ==
    ASSUME SessionAssumption, SessionInv, Typed', NEW s \in Sides, Ready(s), stage[s] = 3,
           NEW out \in Seq(Cells), Does(s, out), Plain(out),
           UNCHANGED <<started, role, shake, acked>>, Count(s),
           \A x \in Sides : state'[x] = "HANDSHAKEING" <=> state[x] = "HANDSHAKEING",
           rsize' = IF First(s).t = "SET_CHUNK_SIZE" THEN [rsize EXCEPT ![s] = WriteSize] ELSE rsize,
           works[s] => Sized(out, wsize[s]) /\ wsize'[s] = EndSize(out, wsize[s]),
           wsize'[Peer(s)] = wsize[Peer(s)],
           Free(out) \/ (IsToken(First(s)) /\ Single(out)),
           ackSeen'[s] = IF First(s).t = "ACKNOWLEDGEMENT" THEN First(s).v ELSE ackSeen[s],
           ackSeen'[Peer(s)] = ackSeen[Peer(s)], peerWnd'[Peer(s)] = peerWnd[Peer(s)],
           s = "server" => state'["client"] = state["client"],
           s = "client" => \/ state'["client"] = Outcome(role, "start")
                           \/ /\ ~IsStart(First(s))
                              /\ state["client"] = Outcome(role, "start") =>
                                    state'["client"] = Outcome(role, "start"),
           verdict' = "start" => \/ verdict = "start" \/ (s = "server" /\ \E c \in Elems(out) : IsStart(c))
    PROVE  /\ Lines' /\ Shaking' /\ ChunkSizes' /\ OneToken' /\ Told' /\ MediaAfter' /\ Acks'
           /\ Elems(In(s)') \subseteq Elems(In(s))
           /\ Elems(In(Peer(s))') \subseteq Elems(In(Peer(s))) \cup Elems(out)
           /\ IsToken(First(s)) => \A c \in Elems(In(s)') \cup Elems(In(Peer(s))) : ~IsToken(c)
           /\ gone'["server"] = gone["server"] \/ gone'["server"]
<1>1. Typed /\ Lines /\ Shaking /\ ChunkSizes /\ OneToken /\ Told /\ MediaAfter /\ Acks BY DEF SessionInv
<1>2. Lines' /\ (Took(s, out) \/ Dropped(s)) BY <1>1, Consumes, Sends DEF Does
<1>3. \A i \in 1 .. Len(out) : out[i].t \notin HsKinds /\ out[i].t # "ACKNOWLEDGEMENT" /\ out[i].t # "media"
  BY DEF Plain
<1>4. Shaking' BY <1>1, <1>2, <1>3, ShakenStep
<1>5. ChunkSizes' BY <1>1, <1>2, ChunkStep
<1>6. Acks'
  <2>1. recv'[s] >= recv[s] /\ recv'[Peer(s)] = recv[Peer(s)]
    <3>1. recv' = [recv EXCEPT ![s] = @ + 1] BY DEF Count
    <3>2. recv \in [Sides -> Nat] BY <1>1 DEF Typed
    <3>3. Peer(s) # s /\ Peer(s) \in Sides BY SidesAre
    <3>4. recv'[s] = recv[s] + 1 /\ recv[s] \in Nat BY <3>1, <3>2
    <3>5. recv'[Peer(s)] = recv[Peer(s)] BY <3>1, <3>2, <3>3
    <3> QED BY <3>4, <3>5
  <2>2. stage' = stage BY DEF shake
  <2> QED BY <1>1, <1>2, <1>3, <2>1, <2>2, AckStep
<1>7. Told' /\ MediaAfter' BY <1>1, <1>2, <1>3, TellStep
<1>8. gone'["server"] = gone["server"] \/ gone'["server"]
  BY <1>1, <1>2, SidesAre DEF Took, Dropped, Lines
<1> QED BY <1>1, <1>2, <1>4, <1>5, <1>6, <1>7, <1>8, Remaining

\* The message being handled proves what any of its kind does.
LEMMA FirstFits ==
    ASSUME SessionInv, NEW s \in Sides, Ready(s)
    PROVE  /\ FitsBoth(First(s))
           /\ s = "server" => FitsServer(First(s))
           /\ s = "client" => FitsClient(First(s))
  BY InIs, SidesAre DEF SessionInv, Fits

\* Messages that leave the session where it is.
LEMMA QuietStep ==
    ASSUME SessionAssumption, SessionInv, Typed', NEW s \in Sides, Ready(s), stage[s] = 3,
           NEW out \in Seq(Cells), Does(s, out), Plain(out),
           UNCHANGED <<session, shake, wsize, acked>>, Count(s), s = "client" => ~IsStart(First(s)),
           rsize' = IF First(s).t = "SET_CHUNK_SIZE" THEN [rsize EXCEPT ![s] = WriteSize] ELSE rsize,
           OfSize(out, wsize[s]), FitsFrom(s, out),
           Free(out) \/ (IsToken(First(s)) /\ Single(out)),
           ackSeen'[s] = IF First(s).t = "ACKNOWLEDGEMENT" THEN First(s).v ELSE ackSeen[s],
           ackSeen'[Peer(s)] = ackSeen[Peer(s)], peerWnd'[Peer(s)] = peerWnd[Peer(s)]
    PROVE  SessionInv'
<1>1. UNCHANGED <<role, started, state, pending, last, streamId, written, verdict>>
  BY DEF session
<1>2. Sized(out, wsize[s]) /\ EndSize(out, wsize[s]) = wsize[s] BY SizedBatch DEF OfSize
<1>3. /\ Lines' /\ Shaking' /\ ChunkSizes' /\ OneToken' /\ Told' /\ MediaAfter' /\ Acks'
      /\ Elems(In(s)') \subseteq Elems(In(s))
      /\ Elems(In(Peer(s))') \subseteq Elems(In(Peer(s))) \cup Elems(out)
      /\ gone'["server"] = gone["server"] \/ gone'["server"]
  BY <1>1, <1>2, MessageStep
<1>4. Progress'
  <2>1. Progress /\ Outcome(role, "start")' = Outcome(role, "start")
        /\ Outcome(role, verdict)' = Outcome(role, verdict)
    BY <1>1 DEF SessionInv, Outcome
  <2>2. stage' = stage BY DEF shake
  <2> QED BY <1>1, <1>3, <2>1, <2>2 DEF Progress
<1>5. \A c : (FitsServer(c) => FitsServer(c)') /\ (FitsClient(c) => FitsClient(c)')
  BY <1>1 DEF FitsServer, FitsClient, Connecting, Creating, Asking
<1>6. Fits'
  <2>1. CASE s = "client"
    <3>1. /\ Elems(In("client")') \subseteq Elems(In("client"))
          /\ Elems(In("server")') \subseteq Elems(In("server")) \cup Elems(out)
      BY <1>3, <2>1, SidesAre
    <3> QED BY <1>5, <2>1, <3>1 DEF SessionInv, Fits, FitsFrom, FitsBoth
  <2>2. CASE s = "server"
    <3>1. /\ Elems(In("server")') \subseteq Elems(In("server"))
          /\ Elems(In("client")') \subseteq Elems(In("client")) \cup Elems(out)
      BY <1>3, <2>2, SidesAre
    <3> QED BY <1>5, <2>2, <3>1 DEF SessionInv, Fits, FitsFrom, FitsBoth
  <2> QED BY <2>1, <2>2, SidesAre
<1> QED BY <1>3, <1>4, <1>6 DEF SessionInv

\* Without an answer.
LEMMA NothingSent == <<>> \in Seq(Cells) /\ Plain(<<>>) /\ Free(<<>>) /\ Elems(<<>>) = {} /\ Len(<<>>) = 0
<1>1. <<>> \in Seq(Cells) /\ Len(<<>>) = 0 /\ DOMAIN <<>> = {} OBVIOUS
<1> QED BY <1>1 DEF Plain, Free, Elems

\* Messages that are only taken.
LEMMA ConsumedStep ==
    ASSUME SessionAssumption, SessionInv, Typed', NEW s \in Sides, Ready(s), stage[s] = 3, Consume(s),
           UNCHANGED <<session, shake, wsize, acked>>, Count(s), ~IsStart(First(s)),
           rsize' = IF First(s).t = "SET_CHUNK_SIZE" THEN [rsize EXCEPT ![s] = WriteSize] ELSE rsize,
           ackSeen'[s] = IF First(s).t = "ACKNOWLEDGEMENT" THEN First(s).v ELSE ackSeen[s],
           ackSeen'[Peer(s)] = ackSeen[Peer(s)], peerWnd'[Peer(s)] = peerWnd[Peer(s)]
    PROVE  SessionInv'
<1>1. PICK out \in Seq(Cells) : out = <<>> BY NothingSent
<1>2. Does(s, out) BY <1>1 DEF Does
<1>3. Plain(out) /\ Free(out) BY <1>1, NothingSent
<1>4. OfSize(out, wsize[s]) BY <1>1, NothingSent DEF OfSize
<1>5. FitsFrom(s, out) BY <1>1, NothingSent DEF FitsFrom
<1>6. s = "client" => ~IsStart(First(s)) OBVIOUS
<1>7. Free(out) \/ (IsToken(First(s)) /\ Single(out)) BY <1>3
<1> QED BY <1>2, <1>3, <1>4, <1>5, <1>6, <1>7, QuietStep

\* One lemma for each message both sides handle alike.
LEMMA HandleSetChunkSizeKept ==
    ASSUME SessionAssumption, SessionInv, NEW s \in Sides, HandleSetChunkSize(s)
    PROVE  SessionInv'
<1>1. /\ Ready(s) /\ stage[s] = 3 /\ First(s).t = "SET_CHUNK_SIZE" /\ Count(s) /\ Consume(s)
      /\ rsize' = [rsize EXCEPT ![s] = First(s).v] /\ UNCHANGED <<shake, wsize, peerWnd, acked, ackSeen, session>>
  BY DEF HandleSetChunkSize, Awaits
<1>2. First(s).v = WriteSize BY <1>1, FirstFits DEF FitsBoth
<1>3. ~IsStart(First(s)) BY <1>1 DEF IsStart
<1>4. Typed'
  <2>1. Lines /\ Typed /\ gone' = gone /\ s \in Sides BY <1>1 DEF SessionInv, Consume, ends
  <2> QED BY <1>1, <1>2, <2>1 DEF Typed, shake, session, Count
<1> QED BY <1>1, <1>2, <1>3, <1>4, ConsumedStep

LEMMA HandleWndAckSizeKept ==
    ASSUME SessionAssumption, SessionInv, NEW s \in Sides, HandleWndAckSize(s)
    PROVE  SessionInv'
<1>1. /\ Ready(s) /\ stage[s] = 3 /\ First(s).t = "WND_ACK_SIZE" /\ Count(s) /\ Consume(s)
      /\ peerWnd' = [peerWnd EXCEPT ![s] = First(s).v] /\ UNCHANGED <<shake, wsize, rsize, acked, ackSeen, session>>
  BY DEF HandleWndAckSize, Awaits, chunks
<1>2. First(s).v = WndAck BY <1>1, FirstFits DEF FitsBoth
<1>3. ~IsStart(First(s)) BY <1>1 DEF IsStart
<1>4. Typed' /\ peerWnd'[Peer(s)] = peerWnd[Peer(s)]
  <2>1. Lines /\ Typed /\ gone' = gone /\ Peer(s) # s /\ Peer(s) \in Sides
    BY <1>1, InIs DEF SessionInv, Consume, ends
  <2> QED BY <1>1, <1>2, <2>1 DEF Typed, shake, session, Count
<1> QED BY <1>1, <1>3, <1>4, ConsumedStep

LEMMA HandleAckKept ==
    ASSUME SessionAssumption, SessionInv, NEW s \in Sides, HandleAck(s)
    PROVE  SessionInv'
<1>1. /\ Ready(s) /\ stage[s] = 3 /\ First(s).t = "ACKNOWLEDGEMENT" /\ Count(s) /\ Consume(s)
      /\ ackSeen' = [ackSeen EXCEPT ![s] = First(s).v] /\ UNCHANGED <<shake, wsize, rsize, acked, peerWnd, session>>
  BY DEF HandleAck, Awaits, chunks
<1>2. First(s).v \in Nat BY <1>1, FirstFits DEF FitsBoth
<1>3. ~IsStart(First(s)) BY <1>1 DEF IsStart
<1>4. Typed' /\ ackSeen'[Peer(s)] = ackSeen[Peer(s)] /\ ackSeen'[s] = First(s).v
  <2>1. Lines /\ Typed /\ gone' = gone /\ Peer(s) # s /\ Peer(s) \in Sides
    BY <1>1, InIs DEF SessionInv, Consume, ends
  <2> QED BY <1>1, <1>2, <2>1 DEF Typed, shake, session, Count
<1> QED BY <1>1, <1>3, <1>4, ConsumedStep

LEMMA HandleOtherKept ==
    ASSUME SessionAssumption, SessionInv, NEW s \in Sides, HandleOther(s)
    PROVE  SessionInv'
<1>1. /\ Ready(s) /\ stage[s] = 3 /\ First(s).t \in Passed /\ Count(s) /\ Consume(s)
      /\ UNCHANGED <<shake, wsize, rsize, acked, ackSeen, peerWnd, session>>
  BY DEF HandleOther, Awaits, chunks
<1>2. First(s).t \notin {"SET_CHUNK_SIZE", "ACKNOWLEDGEMENT", "onStatus"} BY <1>1 DEF Passed
<1>3. ~IsStart(First(s)) BY <1>2 DEF IsStart
<1>4. Typed'
  <2>1. Lines /\ Typed /\ gone' = gone BY <1>1, InIs DEF SessionInv, Consume, ends
  <2> QED BY <1>1, <2>1 DEF Typed, shake, session, Count
<1> QED BY <1>1, <1>2, <1>3, <1>4, ConsumedStep

LEMMA IgnoreResultKept ==
    ASSUME SessionAssumption, SessionInv, IgnoreResult
    PROVE  SessionInv'
<1> DEFINE s == "client"
<1>1. /\ Ready(s) /\ stage[s] = 3 /\ First(s).t = "_result" /\ Count(s) /\ Consume(s)
      /\ UNCHANGED <<shake, wsize, rsize, acked, ackSeen, peerWnd, session>>
  BY DEF IgnoreResult, Awaits, chunks
<1>3. ~IsStart(First(s)) BY <1>1 DEF IsStart
<1>4. Typed'
  <2>1. Lines /\ Typed /\ gone' = gone BY <1>1, InIs DEF SessionInv, Consume, ends
  <2> QED BY <1>1, <2>1, SidesAre DEF Typed, shake, session, Count
<1> QED BY <1>1, <1>3, <1>4, SidesAre, ConsumedStep

\* Batches, cell by cell.
LEMMA Batch1 ==
    ASSUME NEW a \in Cells
    PROVE  <<a>> \in Seq(Cells) /\ Len(<<a>>) = 1 /\ <<a>>[1] = a /\ Elems(<<a>>) = {a}
<1>1. <<a>> \in Seq(Cells) /\ Len(<<a>>) = 1 /\ <<a>>[1] = a OBVIOUS
<1>2. \A c : c \in Elems(<<a>>) <=> c = a
  <2>1. 1 \in 1 .. 1 /\ \A i \in 1 .. 1 : i = 1 OBVIOUS
  <2> QED BY <1>1, <2>1, ElemsAre
<1> QED BY <1>1, <1>2

LEMMA Batch2 ==
    ASSUME NEW a \in Cells, NEW b \in Cells
    PROVE  /\ <<a, b>> \in Seq(Cells) /\ Len(<<a, b>>) = 2
           /\ <<a, b>>[1] = a /\ <<a, b>>[2] = b /\ Elems(<<a, b>>) = {a, b}
<1>1. /\ <<a, b>> \in Seq(Cells) /\ Len(<<a, b>>) = 2 /\ <<a, b>>[1] = a /\ <<a, b>>[2] = b
  OBVIOUS
<1>2. \A c : c \in Elems(<<a, b>>) <=> c \in {a, b}
  <2>1. \A i \in 1 .. 2 : i = 1 \/ i = 2 OBVIOUS
  <2>2. 1 \in 1 .. 2 /\ 2 \in 1 .. 2 OBVIOUS
  <2> QED BY <1>1, <2>1, <2>2, ElemsAre, ZenonT(30)
<1> QED BY <1>1, <1>2

LEMMA Batch3 ==
    ASSUME NEW a \in Cells, NEW b \in Cells, NEW c \in Cells
    PROVE  /\ <<a, b, c>> \in Seq(Cells) /\ Len(<<a, b, c>>) = 3
           /\ <<a, b, c>>[1] = a /\ <<a, b, c>>[2] = b /\ <<a, b, c>>[3] = c
           /\ Elems(<<a, b, c>>) = {a, b, c}
<1>1. /\ <<a, b, c>> \in Seq(Cells) /\ Len(<<a, b, c>>) = 3
      /\ <<a, b, c>>[1] = a /\ <<a, b, c>>[2] = b /\ <<a, b, c>>[3] = c
  OBVIOUS
<1>2. \A x : x \in Elems(<<a, b, c>>) <=> x \in {a, b, c}
  <2>1. \A i \in 1 .. 3 : i = 1 \/ i = 2 \/ i = 3 OBVIOUS
  <2>2. 1 \in 1 .. 3 /\ 2 \in 1 .. 3 /\ 3 \in 1 .. 3 OBVIOUS
  <2> QED BY <1>1, <2>1, <2>2, ElemsAre, ZenonT(30)
<1> QED BY <1>1, <1>2

LEMMA Batch4 ==
    ASSUME NEW a \in Cells, NEW b \in Cells, NEW c \in Cells, NEW d \in Cells
    PROVE  /\ <<a, b, c, d>> \in Seq(Cells) /\ Len(<<a, b, c, d>>) = 4
           /\ <<a, b, c, d>>[1] = a /\ <<a, b, c, d>>[2] = b /\ <<a, b, c, d>>[3] = c
           /\ <<a, b, c, d>>[4] = d /\ Elems(<<a, b, c, d>>) = {a, b, c, d}
<1>1. /\ <<a, b, c, d>> \in Seq(Cells) /\ Len(<<a, b, c, d>>) = 4
      /\ <<a, b, c, d>>[1] = a /\ <<a, b, c, d>>[2] = b /\ <<a, b, c, d>>[3] = c
      /\ <<a, b, c, d>>[4] = d
  OBVIOUS
<1>2. ASSUME NEW x \in Elems(<<a, b, c, d>>) PROVE x \in {a, b, c, d}
  <2>1. PICK i \in 1 .. 4 : x = <<a, b, c, d>>[i] BY <1>1, <1>2, ElemsAre, ZenonT(30)
  <2>2. i = 1 \/ i = 2 \/ i = 3 \/ i = 4 OBVIOUS
  <2> QED BY <1>1, <2>1, <2>2
<1>3. ASSUME NEW x \in {a, b, c, d} PROVE x \in Elems(<<a, b, c, d>>)
  <2>1. 1 \in 1 .. 4 /\ 2 \in 1 .. 4 /\ 3 \in 1 .. 4 /\ 4 \in 1 .. 4 OBVIOUS
  <2>2. \E i \in 1 .. 4 : x = <<a, b, c, d>>[i] BY <1>1, <1>3, <2>1
  <2> QED BY <1>1, <2>2, ElemsAre
<1> QED BY <1>1, <1>2, <1>3

\* Cells, sizes, values, kinds and results are of their types.
LEMMA CellIs ==
    ASSUME NEW t \in Kinds, NEW size \in Nat, NEW v \in Values
    PROVE  /\ Cell(t, size, v) \in Cells
           /\ Cell(t, size, v).t = t /\ Cell(t, size, v).size = size /\ Cell(t, size, v).v = v
  BY DEF Cell, Cells

LEMMA SizesAre ==
    ASSUME SessionAssumption, Typed, NEW s \in Sides
    PROVE  /\ wsize[s] \in Nat /\ WriteSize \in Nat /\ FixSize \in Nat /\ WndAck \in Nat
           /\ wsize' = [wsize EXCEPT ![s] = WriteSize] =>
                wsize'[s] = WriteSize /\ wsize'[Peer(s)] = wsize[Peer(s)]
<1>1. Peer(s) # s /\ Peer(s) \in Sides BY SidesAre
<1> QED BY <1>1 DEF Typed, SessionAssumption

LEMMA ValuesAre ==
    /\ Nat \subseteq Values
    /\ Words \subseteq Values
    /\ \A tid \in 0 .. 3, sid \in {0, 1} : [tid |-> tid, sid |-> sid] \in Values
<1>1. Nat \subseteq Values BY DEF Values
<1>2. Words \subseteq Values BY DEF Values
<1>4. ASSUME NEW tid \in 0 .. 3, NEW sid \in {0, 1} PROVE [tid |-> tid, sid |-> sid] \in Values
  <2>1. [tid |-> tid, sid |-> sid] \in [tid : 0 .. 3, sid : {0, 1}] OBVIOUS
  <2> QED BY <2>1 DEF Values
<1> QED BY <1>1, <1>2, <1>4

LEMMA KindsAre ==
    {"c0", "c1", "c2", "s0", "s1", "s2", "SET_PEER_BW", "USER_CONTROL", "releaseStream", "FCPublish",
     "getStreamLength", "media", "connect", "createStream", "publish", "play", "_result", "_error",
     "onStatus", "SET_CHUNK_SIZE", "WND_ACK_SIZE", "ACKNOWLEDGEMENT"} \subseteq Kinds
  BY DEF Kinds, HsKinds, Passed

LEMMA ResultIs ==
    ASSUME NEW size \in Nat, NEW tid \in 0 .. 3, NEW sid \in {0, 1}
    PROVE  LET a == Cell("_result", size, [tid |-> tid, sid |-> sid]) IN
           a \in Cells /\ a.t = "_result" /\ a.size = size /\ a.v = [tid |-> tid, sid |-> sid]
<1>1. PICK v \in Values : v = [tid |-> tid, sid |-> sid] BY ValuesAre
<1>2. PICK a : a = Cell("_result", size, v) OBVIOUS
<1>3. a \in Cells /\ a.t = "_result" /\ a.size = size /\ a.v = v BY <1>2, CellIs, KindsAre
<1> QED BY <1>1, <1>2, <1>3

\* The server answers createStream while the client waits for it.
LEMMA HandleCreateStreamKept ==
    ASSUME SessionAssumption, SessionInv, HandleCreateStream
    PROVE  SessionInv'
<1> DEFINE s   == "server"
           a   == Result(First(s).v)
           out == <<a>>
<1>0. Typed /\ Lines /\ s \in Sides BY SidesAre DEF SessionInv
<1>1. /\ Ready(s) /\ stage[s] = 3 /\ First(s).t = "createStream" /\ Count(s)
      /\ Send(s, out) \/ SendFails(s)
      /\ UNCHANGED <<shake, wsize, rsize, acked, ackSeen, peerWnd, session>>
  BY DEF HandleCreateStream, Awaits, chunks
<1>2. Creating /\ First(s).v = 2 BY <1>0, <1>1, FirstFits DEF FitsServer
<1>3. /\ a \in Cells /\ a.t = "_result" /\ a.size = wsize[s] /\ a.v = [tid |-> 2, sid |-> 1]
  <2>1. a = Cell("_result", wsize[s], [tid |-> 2, sid |-> 1]) BY <1>2 DEF Result, ServerCmd, ServerStreamId
  <2>2. 2 \in 0 .. 3 /\ 1 \in {0, 1} OBVIOUS
  <2>3. [tid |-> 2, sid |-> 1] \in Values BY <2>2, ValuesAre
  <2> HIDE DEF a
  <2> QED BY <1>0, <2>1, <2>3, CellIs, SizesAre, KindsAre
<1> HIDE DEF a
<1>4. out \in Seq(Cells) /\ Len(out) = 1 /\ out[1] = a /\ Elems(out) = {a} BY <1>3, Batch1
<1> HIDE DEF out, s
<1>5. \A i \in 1 .. Len(out) : out[i] = a BY <1>4
<1>6. Plain(out) /\ OfSize(out, wsize[s]) BY <1>3, <1>5 DEF Plain, OfSize, HsKinds
<1>7. IsToken(First(s)) /\ Single(out) BY <1>1, <1>4 DEF IsToken, Single
<1>8. FitsFrom(s, out)
  <2>1. a.v \in [tid : 0 .. 3, sid : {0, 1}] /\ a.v.tid = 2 /\ a.v.sid = ServerStreamId
    BY <1>3 DEF ServerStreamId
  <2>2. FitsClient(a) /\ FitsBoth(a) BY <1>2, <1>3, <2>1 DEF FitsClient, FitsBoth
  <2> QED BY <1>4, <2>2 DEF FitsFrom, s
<1>9. Typed'
  <2>1. gone[s] = FALSE BY <1>0, <1>1, InIs DEF Lines
  <2>2. \A x \in Sides : gone[x] => gone'[x]
    BY <1>0, <1>1 DEF Send, SendFails, ends, Lines
  <2> QED BY <1>0, <1>1, <2>2 DEF Typed, shake, session, Count
<1>10. Does(s, out) BY <1>1 DEF Does
<1>11. s # "client" BY DEF s
<1> QED BY <1>0, <1>1, <1>4, <1>6, <1>7, <1>8, <1>9, <1>10, <1>11, QuietStep

\* Another server answers what this one ignores: the client ignores the answer, its id
\* being 0 or 3.
LEMMA ForeignAnswerKept ==
    ASSUME SessionAssumption, SessionInv, ForeignAnswer
    PROVE  SessionInv'
<1> DEFINE s   == "server"
           a   == Cell("_result", wsize[s], [tid |-> First(s).v, sid |-> 0])
           out == <<a>>
<1>0. Typed /\ Lines /\ s \in Sides BY SidesAre DEF SessionInv
<1>1. /\ Ready(s) /\ stage[s] = 3 /\ First(s).t \in {"releaseStream", "FCPublish", "getStreamLength"}
      /\ Count(s) /\ Send(s, out)
      /\ UNCHANGED <<shake, wsize, rsize, acked, ackSeen, peerWnd, session>>
  BY DEF ForeignAnswer, Awaits, chunks
<1>2. \/ First(s).v = 0 /\ last.method # "CONNECT"
      \/ First(s).v = 3 /\ last.method = "GET_STREAM_LENGTH"
  BY <1>0, <1>1, FirstFits DEF FitsServer
<1>3. /\ a \in Cells /\ a.t = "_result" /\ a.size = wsize[s] /\ a.v = [tid |-> First(s).v, sid |-> 0]
  <2>1. First(s).v \in 0 .. 3 /\ 0 \in {0, 1} BY <1>2
  <2>2. [tid |-> First(s).v, sid |-> 0] \in Values BY <2>1, ValuesAre
  <2> QED BY <1>0, <2>2, CellIs, SizesAre, KindsAre
<1> HIDE DEF a
<1>4. out \in Seq(Cells) /\ Len(out) = 1 /\ out[1] = a /\ Elems(out) = {a} BY <1>3, Batch1
<1> HIDE DEF out, s
<1>5. \A i \in 1 .. Len(out) : out[i] = a BY <1>4
<1>6. Plain(out) /\ OfSize(out, wsize[s]) BY <1>3, <1>5 DEF Plain, OfSize, HsKinds
<1>7. Free(out) BY <1>2, <1>3, <1>5 DEF IsToken, Free
<1>8. FitsFrom(s, out)
  <2>1. a.v \in [tid : 0 .. 3, sid : {0, 1}] /\ a.v.tid \in {0, 3}
        /\ (a.v.tid = 0 => last.method # "CONNECT") /\ (a.v.tid = 3 => last.method = "GET_STREAM_LENGTH")
    BY <1>2, <1>3
  <2>2. FitsClient(a) /\ FitsBoth(a) BY <1>3, <2>1 DEF FitsClient, FitsBoth
  <2> QED BY <1>4, <2>2 DEF FitsFrom, s
<1>9. Typed'
  <2>1. UNCHANGED gone BY <1>1 DEF Send, ends
  <2> QED BY <1>0, <1>1, <2>1 DEF Typed, shake, session, Count
<1>10. Does(s, out) BY <1>1 DEF Does
<1>11. s # "client" BY DEF s
<1>12. First(s).t \notin {"SET_CHUNK_SIZE", "ACKNOWLEDGEMENT"} BY <1>1
<1> QED BY <1>0, <1>1, <1>4, <1>6, <1>7, <1>8, <1>9, <1>10, <1>11, <1>12, QuietStep

\* What the variables that a step of Input leaves alone do not disturb.
LEMMA GoneGrows ==
    ASSUME Lines, NEW s \in Sides, Ready(s), NEW out, Does(s, out)
    PROVE  \A x \in Sides : gone[x] => gone'[x]
<1>1. ASSUME Consume(s) PROVE UNCHANGED gone BY <1>1 DEF Consume, ends
<1>2. ASSUME Send(s, out) PROVE UNCHANGED gone BY <1>2 DEF Send, ends
<1>3. ASSUME SendFails(s) PROVE gone' = [gone EXCEPT ![s] = TRUE] BY <1>3 DEF SendFails
<1> QED BY <1>1, <1>2, <1>3 DEF Does, Lines

\* The state an answer leads to, for each role and answer.
LEMMA OutcomesAre ==
    ASSUME NEW r \in {"publish", "play"}, NEW a \in {"start", "error", "other"}
    PROVE  /\ Outcome(r, a) \in Started \cup Failed
           /\ Outcome(r, a) \in Started <=> a = "start"
           /\ Outcome("publish", "start") = "PUBLISH_START" /\ Outcome("play", "start") = "PLAY_START"
           /\ Outcome(r, a) # "none" /\ Outcome(r, a) \notin Stages
  BY DEF Outcome, Started, Failed, Stages

\* The server changes its chunk size in the middle of its answer to connect.
LEMMA HandleConnectKept ==
    ASSUME SessionAssumption, SessionInv, HandleConnect
    PROVE  SessionInv'
<1> DEFINE s   == "server"
           a   == Cell("SET_CHUNK_SIZE", wsize[s], WriteSize)
           b   == Cell("WND_ACK_SIZE", WriteSize, WndAck)
           c   == Cell("SET_PEER_BW", WriteSize, WndAck)
           d   == Cell("_result", WriteSize, [tid |-> 1, sid |-> 0])
           out == <<a, b, c, d>>
<1>0. Typed /\ Lines /\ Shaking /\ Progress /\ Fits /\ s \in Sides /\ Peer(s) = "client"
  BY SidesAre DEF SessionInv
<1>1. /\ Ready(s) /\ stage[s] = 3 /\ First(s).t = "connect" /\ Count(s)
      /\ state' = [state EXCEPT ![s] = "CONNECTING"] /\ wsize' = [wsize EXCEPT ![s] = WriteSize]
      /\ UNCHANGED <<shake, rsize, acked, ackSeen, peerWnd, role, started, pending, last, streamId,
                     written, verdict>>
  BY DEF HandleConnect, Awaits, Announce, ChangeState
<1>2. wsize'[s] = WriteSize /\ wsize'["client"] = wsize["client"] /\ WriteSize \in Nat /\ WndAck \in Nat
      /\ wsize[s] \in Nat
  BY <1>0, <1>1, SizesAre
<1>3. Does(s, out)
  <2>1. Behind(s, "WND_ACK_SIZE", WndAck) = b /\ Behind(s, "SET_PEER_BW", WndAck) = c
        /\ Behind(s, "_result", [tid |-> 1, sid |-> 0]) = d /\ ServerCmd("SET_CHUNK_SIZE", WriteSize) = a
    BY <1>2 DEF Behind, ServerCmd
  <2> QED BY <2>1 DEF HandleConnect, Does
<1>4. Connecting BY <1>0, <1>1, FirstFits DEF FitsServer
<1>5. /\ a \in Cells /\ a.t = "SET_CHUNK_SIZE" /\ a.size = wsize[s] /\ a.v = WriteSize
      /\ b \in Cells /\ b.t = "WND_ACK_SIZE" /\ b.size = WriteSize /\ b.v = WndAck
      /\ c \in Cells /\ c.t = "SET_PEER_BW" /\ c.size = WriteSize
      /\ d \in Cells /\ d.t = "_result" /\ d.size = WriteSize /\ d.v = [tid |-> 1, sid |-> 0]
  <2>1. [tid |-> 1, sid |-> 0] \in Values /\ WriteSize \in Values /\ WndAck \in Values
    <3>1. 1 \in 0 .. 3 /\ 0 \in {0, 1} OBVIOUS
    <3> QED BY <1>2, <3>1, ValuesAre
  <2>2. a \in Cells /\ a.t = "SET_CHUNK_SIZE" /\ a.size = wsize[s] /\ a.v = WriteSize
    BY <1>2, <2>1, CellIs, KindsAre, SMTT(30)
  <2>3. b \in Cells /\ b.t = "WND_ACK_SIZE" /\ b.size = WriteSize /\ b.v = WndAck
    BY <1>2, <2>1, CellIs, KindsAre
  <2>4. c \in Cells /\ c.t = "SET_PEER_BW" /\ c.size = WriteSize
    BY <1>2, <2>1, CellIs, KindsAre
  <2>5. d \in Cells /\ d.t = "_result" /\ d.size = WriteSize /\ d.v = [tid |-> 1, sid |-> 0]
    BY <1>2, ResultIs
  <2> QED BY <2>2, <2>3, <2>4, <2>5
<1> HIDE DEF a, b, c, d
<1>6. /\ out \in Seq(Cells) /\ Len(out) = 4 /\ out[1] = a /\ out[2] = b /\ out[3] = c /\ out[4] = d
      /\ Elems(out) = {a, b, c, d}
  BY <1>5, Batch4
<1> HIDE DEF out
<1>7. \A i \in 1 .. Len(out) : \/ i = 1 /\ out[i] = a
                               \/ i \in 2 .. 4 /\ out[i] \in {b, c}
                               \/ i = 4 /\ out[i] = d
  BY <1>6
<1>8. Plain(out) BY <1>5, <1>7 DEF Plain, HsKinds
<1>9. IsToken(First(s)) /\ Single(out)
  <2>1. \A i \in 1 .. Len(out) : IsToken(out[i]) => i = 4 BY <1>5, <1>7 DEF IsToken
  <2> QED BY <1>1, <2>1 DEF IsToken, Single
<1>10. Sized(out, wsize[s]) /\ EndSize(out, wsize[s]) = WriteSize
  <2>1. \A i \in 2 .. Len(out) : out[i].size = WriteSize BY <1>5, <1>6, <1>7
  <2>2. out # <<>> BY <1>6, NothingSent
  <2> QED BY <1>5, <1>6, <2>1, <2>2, SizedBatch
<1>11. /\ \A x \in Sides : state'[x] = "HANDSHAKEING" <=> state[x] = "HANDSHAKEING"
       /\ state'["client"] = state["client"] /\ state'[s] = "CONNECTING" /\ state[s] \notin Started
  <2>1. state[s] # "HANDSHAKEING" BY <1>0, <1>1 DEF Shaking
  <2>2. state' = [state EXCEPT ![s] = "CONNECTING"] /\ state \in [Sides -> Stages \cup Started \cup Failed]
    BY <1>0, <1>1 DEF Typed
  <2>3. state[s] \notin Started BY <1>0, <1>4 DEF Progress, Connecting
  <2> QED BY <2>1, <2>2, <2>3, SidesAre
<1>12. Typed'
  <2>1. \A x \in Sides : gone[x] => gone'[x] BY <1>0, <1>1, <1>3, GoneGrows
  <2> QED BY <1>0, <1>1, <2>1 DEF Typed, shake, Count, Stages
<1>13. s # "client" BY DEF s
<1>14. /\ Lines' /\ Shaking' /\ ChunkSizes' /\ OneToken' /\ Told' /\ MediaAfter' /\ Acks'
       /\ Elems(In(s)') \subseteq Elems(In(s))
       /\ Elems(In("client")') \subseteq Elems(In("client")) \cup Elems(out)
       /\ \A x \in Elems(In(s)') \cup Elems(In("client")) : ~IsToken(x)
  BY <1>0, <1>1, <1>2, <1>3, <1>6, <1>8, <1>9, <1>10, <1>11, <1>12, <1>13, MessageStep
<1>15. Progress'
  <2>1. stage' = stage /\ pending = "none" BY <1>1 DEF shake, Ready, s
  <2>2. state'["client"] = state["client"] /\ state'["server"] = "CONNECTING" BY <1>11 DEF s
  <2>3. Outcome(role, "start")' = Outcome(role, "start") BY <1>1 DEF Outcome
  <2> QED BY <1>0, <1>1, <1>4, <2>1, <2>2, <2>3 DEF Progress, Connecting, Started
<1>16. Fits'
  <2>1. ASSUME NEW x \in Elems(In("server")') PROVE FitsServer(x)' /\ FitsBoth(x)'
    <3>1. FitsServer(x) /\ FitsBoth(x) BY <1>0, <1>14, <2>1 DEF Fits, s
    <3> QED BY <1>1, <1>11, <3>1, SidesAre DEF FitsServer, FitsBoth, Connecting, Creating, Asking
  <2>2. ASSUME NEW x \in Elems(In("client")') PROVE FitsClient(x)' /\ FitsBoth(x)'
    <3>1. CASE x \in Elems(In("client"))
      <4>1. FitsClient(x) /\ FitsBoth(x) /\ ~IsToken(x) BY <1>0, <1>14, <3>1 DEF Fits
      <4>2. x.t # "media" BY <1>11, <4>1, SidesAre DEF FitsClient, Started, s
      <4> QED BY <1>1, <4>1, <4>2 DEF FitsClient, FitsBoth, Connecting, Creating, IsToken
    <3>2. CASE x \in Elems(out)
      <4>1. x \in {a, b, c, d} BY <1>6, <3>2
      <4>2. FitsBoth(x) BY <1>5, <4>1 DEF FitsBoth
      <4>3. x.t = "_result" => /\ x.v \in [tid : 0 .. 3, sid : {0, 1}] /\ x.v.tid = 1
        BY <1>5, <4>1
      <4>4. x.t \in {"SET_CHUNK_SIZE", "WND_ACK_SIZE", "SET_PEER_BW", "_result"} BY <1>5, <4>1
      <4>5. Connecting' BY <1>1, <1>4 DEF Connecting
      <4> QED BY <1>2, <4>2, <4>3, <4>4, <4>5 DEF FitsClient, FitsBoth, s
    <3> QED BY <1>14, <2>2, <3>1, <3>2
  <2> QED BY <2>1, <2>2 DEF Fits
<1> QED BY <1>12, <1>14, <1>15, <1>16 DEF SessionInv

\* Answers that carry the verdict v of the application.
Tells(out, v) ==
    /\ \A c \in Elems(out) : /\ c.t \in {"USER_CONTROL", "onStatus", "_error"}
                             /\ c.t = "onStatus" => c.v = v \/ (c.v = "reset" /\ v = "start")
                             /\ c.t = "_error" => v = "error"
    /\ v = "start" => \E c \in Elems(out) : IsStart(c)

\* The application's answer: the word goes out with it, or the server gives up.
LEMMA VerdictStep ==
    ASSUME SessionAssumption, SessionInv, Ready("server"), stage["server"] = 3, IsToken(First("server")),
           verdict = "none", verdict' \in {"start", "error", "other"}, NEW out \in Seq(Cells),
           Does("server", out), Count("server"), OfSize(out, wsize["server"]), Tells(out, verdict'),
           verdict' = "start" => /\ streamId = ServerStreamId
                                 /\ pending' = Outcome(role, "start") \/ SendFails("server"),
           pending' = Outcome(role, verdict') \/ pending' = "none",
           UNCHANGED <<shake, chunks, peerWnd, acked, ackSeen, role, started, state, last, streamId, written>>
    PROVE  SessionInv'
<1>0. /\ Typed /\ Lines /\ Shaking /\ Progress /\ Fits /\ "server" \in Sides /\ "client" \in Sides
      /\ Peer("server") = "client" /\ "server" # "client"
  BY SidesAre DEF SessionInv
<1>1. UNCHANGED <<stage, wsize, rsize>> BY DEF shake, chunks
<1>2. \A i \in 1 .. Len(out) : out[i] \in Elems(out) BY ElemsAre
<1>3. /\ \A i \in 1 .. Len(out) : out[i].t \in {"USER_CONTROL", "onStatus", "_error"}
      /\ verdict' = "start" => \E c \in Elems(out) : IsStart(c)
  BY <1>2 DEF Tells
<1>4. Plain(out) /\ Free(out) BY <1>3 DEF Plain, Free, IsToken, HsKinds
<1>5. Sized(out, wsize["server"]) /\ EndSize(out, wsize["server"]) = wsize["server"]
  BY SizedBatch DEF OfSize
<1>6. Typed'
  <2>1. \A x \in Sides : gone[x] => gone'[x] BY <1>0, GoneGrows
  <2>2. pending' \in {"none"} \cup Started \cup Failed
    <3>1. role \in {"publish", "play"} BY <1>0 DEF Typed
    <3> QED BY <3>1, OutcomesAre
  <2>3. recv' \in [Sides -> Nat] BY <1>0 DEF Typed, Count
  <2> QED BY <1>0, <2>1, <2>2, <2>3 DEF Typed, shake, chunks
<1>7. First("server").t \notin {"SET_CHUNK_SIZE", "ACKNOWLEDGEMENT"} BY DEF IsToken
<1>8. /\ Lines' /\ Shaking' /\ ChunkSizes' /\ OneToken' /\ Told' /\ MediaAfter' /\ Acks'
      /\ Elems(In("server")') \subseteq Elems(In("server"))
      /\ Elems(In("client")') \subseteq Elems(In("client")) \cup Elems(out)
      /\ \A x \in Elems(In("server")') \cup Elems(In("client")) : ~IsToken(x)
  BY <1>0, <1>1, <1>3, <1>4, <1>5, <1>6, <1>7, MessageStep
<1>9. Progress'
  <2>1. /\ Outcome(role, "start")' = Outcome(role, "start")
        /\ Outcome(role, verdict)' = Outcome(role, verdict')
    BY DEF Outcome
  <2>2. SendFails("server") => gone'["server"]
    BY <1>0 DEF SendFails, Lines
  <2>3. state["server"] \notin Started /\ state["client"] \notin Started BY <1>0 DEF Progress
  <2>4. last.tid # 0
    <3>1. FitsServer(First("server")) BY <1>0, FirstFits
    <3>2. Connecting \/ last.method # "CONNECT"
      BY <1>0, <3>1 DEF FitsServer, IsToken, Creating, Asking, Progress, ServerStreamId
    <3> QED BY <1>0, <3>2 DEF Connecting, Progress
  <2> QED BY <1>0, <1>1, <2>1, <2>2, <2>3, <2>4 DEF Progress
<1>10. Fits'
  <2>1. ASSUME NEW x \in Elems(In("server")') PROVE FitsServer(x)' /\ FitsBoth(x)'
    <3>1. FitsServer(x) /\ FitsBoth(x) /\ ~IsToken(x) BY <1>0, <1>8, <2>1 DEF Fits
    <3> QED BY <3>1 DEF FitsServer, FitsBoth, IsToken
  <2>2. ASSUME NEW x \in Elems(In("client")') PROVE FitsClient(x)' /\ FitsBoth(x)'
    <3>1. CASE x \in Elems(In("client"))
      <4>1. FitsClient(x) /\ FitsBoth(x) /\ ~IsToken(x) BY <1>0, <1>8, <3>1 DEF Fits
      <4>2. x.t \notin {"onStatus", "_error"} BY <4>1 DEF FitsClient
      <4> QED BY <1>1, <4>1, <4>2 DEF FitsClient, FitsBoth, IsToken
    <3>2. CASE x \in Elems(out)
      <4>1. /\ x.t \in {"USER_CONTROL", "onStatus", "_error"}
            /\ x.t = "onStatus" => x.v = verdict' \/ (x.v = "reset" /\ verdict' = "start")
            /\ x.t = "_error" => verdict' = "error"
        BY <3>2 DEF Tells
      <4> QED BY <4>1 DEF FitsClient, FitsBoth
    <3> QED BY <1>8, <2>2, <3>1, <3>2
  <2> QED BY <2>1, <2>2 DEF Fits
<1> QED BY <1>6, <1>8, <1>9, <1>10 DEF SessionInv

\* Another server refuses the connection.
LEMMA ForeignRefusalKept ==
    ASSUME SessionAssumption, SessionInv, ForeignRefusal
    PROVE  SessionInv'
<1> DEFINE a   == Cell("_error", wsize["server"], 1)
           out == <<a>>
<1>0. Typed /\ Lines /\ "server" \in Sides BY SidesAre DEF SessionInv
<1>1. /\ Ready("server") /\ stage["server"] = 3 /\ First("server").t = "connect" /\ Count("server")
      /\ verdict' = "error" /\ pending' = pending /\ Send("server", out)
      /\ UNCHANGED <<shake, chunks, peerWnd, acked, ackSeen, role, started, state, last, streamId, written>>
  BY DEF ForeignRefusal, Awaits, ServerCmd
<1>2. Connecting BY <1>0, <1>1, FirstFits DEF FitsServer
<1>3. a \in Cells /\ a.t = "_error" /\ a.size = wsize["server"]
  <2>1. 1 \in Values BY ValuesAre
  <2> QED BY <1>0, <2>1, CellIs, KindsAre, SizesAre
<1> HIDE DEF a
<1>4. out \in Seq(Cells) /\ Len(out) = 1 /\ out[1] = a /\ Elems(out) = {a} BY <1>3, Batch1
<1> HIDE DEF out
<1>5. OfSize(out, wsize["server"])
  <2>1. \A i \in 1 .. Len(out) : out[i] = a BY <1>4
  <2> QED BY <1>3, <2>1 DEF OfSize
<1>6. Tells(out, verdict') BY <1>1, <1>3, <1>4 DEF Tells
<1>7. Does("server", out) BY <1>1 DEF Does
<1>8. IsToken(First("server")) /\ verdict = "none" /\ pending' = "none"
  BY <1>1, <1>2 DEF IsToken, Connecting, Ready
<1> QED BY <1>1, <1>4, <1>5, <1>6, <1>7, <1>8, VerdictStep

\* The application is asked for a publisher, or for a player.
LEMMA HandlePublishKept ==
    ASSUME SessionAssumption, SessionInv, HandlePublish
    PROVE  SessionInv'
<1>0. Typed /\ Lines /\ Progress /\ "server" \in Sides BY SidesAre DEF SessionInv
<1>1. PICK answer \in Verdicts :
         /\ verdict' = answer
         /\ \/ /\ Send("server", <<ServerCmd("onStatus", answer)>>)
               /\ pending' = Outcome("publish", answer)
            \/ SendFails("server") /\ UNCHANGED pending
  BY DEF HandlePublish
<1>2. /\ Ready("server") /\ stage["server"] = 3 /\ First("server").t = "publish" /\ Count("server")
      /\ UNCHANGED <<shake, chunks, peerWnd, acked, ackSeen, role, started, state, last, streamId, written>>
  BY DEF HandlePublish, Awaits
<1>3. Asking /\ role = "publish" BY <1>0, <1>2, FirstFits DEF FitsServer
<1>4. answer \in {"start", "error", "other"} BY DEF SessionAssumption
<1> DEFINE a   == Cell("onStatus", wsize["server"], answer)
           out == <<a>>
<1>5. a \in Cells /\ a.t = "onStatus" /\ a.size = wsize["server"] /\ a.v = answer
  <2>1. answer \in Values BY <1>4, ValuesAre DEF Words
  <2> QED BY <1>0, <2>1, CellIs, KindsAre, SizesAre
<1>6. Does("server", out) BY <1>1 DEF Does, ServerCmd
<1> HIDE DEF a
<1>7. out \in Seq(Cells) /\ Len(out) = 1 /\ out[1] = a /\ Elems(out) = {a} BY <1>5, Batch1
<1> HIDE DEF out
<1>8. OfSize(out, wsize["server"])
  <2>1. \A i \in 1 .. Len(out) : out[i] = a BY <1>7
  <2> QED BY <1>5, <2>1 DEF OfSize
<1>9. Tells(out, verdict') BY <1>1, <1>5, <1>7 DEF Tells, IsStart
<1>10. IsToken(First("server")) /\ verdict = "none" /\ pending = "none" /\ streamId = ServerStreamId
  BY <1>2, <1>3 DEF IsToken, Asking, Ready
<1>11. /\ pending' = Outcome(role, verdict') \/ pending' = "none"
       /\ verdict' = "start" => pending' = Outcome(role, "start") \/ SendFails("server")
  BY <1>1, <1>3, <1>10
<1> QED BY <1>1, <1>2, <1>4, <1>6, <1>7, <1>8, <1>9, <1>10, <1>11, VerdictStep

LEMMA HandlePlayKept ==
    ASSUME SessionAssumption, SessionInv, HandlePlay
    PROVE  SessionInv'
<1>0. Typed /\ Lines /\ Progress /\ "server" \in Sides BY SidesAre DEF SessionInv
<1>1. PICK answer \in Verdicts :
         /\ verdict' = answer
         /\ \/ /\ Send("server", PlayAnswer(answer))
               /\ pending' = Outcome("play", answer)
            \/ SendFails("server") /\ UNCHANGED pending
  BY DEF HandlePlay
<1>2. /\ Ready("server") /\ stage["server"] = 3 /\ First("server").t = "play" /\ Count("server")
      /\ UNCHANGED <<shake, chunks, peerWnd, acked, ackSeen, role, started, state, last, streamId, written>>
  BY DEF HandlePlay, Awaits
<1>3. Asking /\ role = "play" BY <1>0, <1>2, FirstFits DEF FitsServer
<1>4. answer \in {"start", "error", "other"} BY DEF SessionAssumption
<1> DEFINE a   == Cell("onStatus", wsize["server"], answer)
           b   == Cell("USER_CONTROL", wsize["server"], ServerStreamId)
           c   == Cell("onStatus", wsize["server"], "reset")
           out == PlayAnswer(answer)
<1>5. /\ a \in Cells /\ a.t = "onStatus" /\ a.size = wsize["server"] /\ a.v = answer
      /\ b \in Cells /\ b.t = "USER_CONTROL" /\ b.size = wsize["server"]
      /\ c \in Cells /\ c.t = "onStatus" /\ c.size = wsize["server"] /\ c.v = "reset"
  <2>1. answer \in Values /\ "reset" \in Values /\ ServerStreamId \in Values
    <3>1. {answer, "reset"} \subseteq Words BY <1>4 DEF Words
    <3>2. ServerStreamId \in Nat BY DEF ServerStreamId
    <3> QED BY <3>1, <3>2, ValuesAre
  <2>2. wsize["server"] \in Nat BY <1>0, SizesAre
  <2>3. a \in Cells /\ a.t = "onStatus" /\ a.size = wsize["server"] /\ a.v = answer
    BY <2>1, <2>2, CellIs, KindsAre
  <2>4. b \in Cells /\ b.t = "USER_CONTROL" /\ b.size = wsize["server"]
    BY <2>1, <2>2, CellIs, KindsAre
  <2>5. c \in Cells /\ c.t = "onStatus" /\ c.size = wsize["server"] /\ c.v = "reset"
    BY <2>1, <2>2, CellIs, KindsAre
  <2> QED BY <2>3, <2>4, <2>5
<1>6. Does("server", out) BY <1>1 DEF Does
<1>7. out = IF answer = "start" THEN <<b, c, a>> ELSE <<a>> BY DEF PlayAnswer, ServerCmd
<1> HIDE DEF a, b, c, out
<1>8. /\ out \in Seq(Cells) /\ \A i \in 1 .. Len(out) : out[i] \in {a, b, c}
      /\ Elems(out) = IF answer = "start" THEN {a, b, c} ELSE {a}
  <2>1. CASE answer = "start"
    <3>1. /\ out \in Seq(Cells) /\ Len(out) = 3 /\ out[1] = b /\ out[2] = c /\ out[3] = a
          /\ Elems(out) = {b, c, a}
      BY <1>5, <1>7, <2>1, Batch3
    <3> QED BY <2>1, <3>1
  <2>2. CASE answer # "start"
    <3>1. out \in Seq(Cells) /\ Len(out) = 1 /\ out[1] = a /\ Elems(out) = {a}
      BY <1>5, <1>7, <2>2, Batch1
    <3> QED BY <2>2, <3>1
  <2> QED BY <2>1, <2>2
<1>9. OfSize(out, wsize["server"]) BY <1>5, <1>8 DEF OfSize
<1>10. Tells(out, verdict') BY <1>1, <1>5, <1>8 DEF Tells, IsStart
<1>11. IsToken(First("server")) /\ verdict = "none" /\ pending = "none" /\ streamId = ServerStreamId
  BY <1>2, <1>3 DEF IsToken, Asking, Ready
<1>12. /\ pending' = Outcome(role, verdict') \/ pending' = "none"
       /\ verdict' = "start" => pending' = Outcome(role, "start") \/ SendFails("server")
  BY <1>1, <1>3, <1>11
<1> QED BY <1>1, <1>2, <1>4, <1>6, <1>8, <1>9, <1>10, <1>11, <1>12, VerdictStep


\* What the client's state follows: the verdict, if it is a start or an error.
LEMMA ClientMoves ==
    ASSUME SessionAssumption, SessionInv, Ready("client"), stage["client"] = 3, Consume("client"),
           Count("client"), First("client").t \in {"onStatus", "_error"}, NEW st, ChangeState("client", st),
           st = state["client"] \/ (st = Outcome(role, verdict) /\ verdict \in {"start", "error"}),
           IsStart(First("client")) => st = Outcome(role, "start"),
           UNCHANGED <<shake, chunks, peerWnd, acked, ackSeen, role, started, pending, last, streamId,
                       written, verdict>>
    PROVE  SessionInv'
<1>0. /\ Typed /\ Lines /\ Shaking /\ Progress /\ Fits /\ "server" \in Sides /\ "client" \in Sides
      /\ Peer("client") = "server"
  BY SidesAre DEF SessionInv
<1>1. UNCHANGED <<stage, cache, scheme, wsize, rsize>> BY DEF shake, chunks
<1>2. role \in {"publish", "play"} BY <1>0 DEF Typed
<1>3. /\ state'["client"] = st /\ state'["server"] = state["server"]
      /\ state' = [state EXCEPT !["client"] = st]
  BY <1>0 DEF Typed, ChangeState
<1>4. st \in Stages \cup Started \cup Failed /\ st # "HANDSHAKEING"
  <2>1. state["client"] # "HANDSHAKEING" BY <1>0 DEF Shaking
  <2>2. state["client"] \in Stages \cup Started \cup Failed BY <1>0 DEF Typed
  <2>3. "HANDSHAKEING" \in Stages BY DEF Stages
  <2> QED BY <1>2, <2>1, <2>2, <2>3, OutcomesAre
<1>5. state["client"] \in Started => st = state["client"]
  <2>1. state["client"] \in Started => verdict = "start" /\ state["client"] = Outcome(role, "start")
    BY <1>0 DEF Progress
  <2> QED BY <2>1
<1>6. st \in Started => verdict = "start" /\ st = Outcome(role, "start")
  <2>1. state["client"] \in Started => verdict = "start" /\ state["client"] = Outcome(role, "start")
    BY <1>0 DEF Progress
  <2>2. Outcome(role, "error") \notin Started BY <1>2, OutcomesAre
  <2> QED BY <2>1, <2>2
<1>7. Typed'
  <2>1. gone' = gone BY DEF Consume, ends
  <2>2. recv' \in [Sides -> Nat] BY <1>0 DEF Typed, Count
  <2>3. state' \in [Sides -> Stages \cup Started \cup Failed] BY <1>0, <1>3, <1>4 DEF Typed
  <2> QED BY <1>0, <1>1, <2>1, <2>2, <2>3 DEF Typed
<1>8. PICK out \in Seq(Cells) : out = <<>> BY NothingSent
<1>9. Does("client", out) /\ Plain(out) /\ Free(out) /\ Elems(out) = {} /\ OfSize(out, wsize["client"])
  BY <1>8, NothingSent DEF Does, OfSize
<1>10. Sized(out, wsize["client"]) /\ EndSize(out, wsize["client"]) = wsize["client"]
  BY <1>9, SizedBatch DEF OfSize
<1>11. \A x \in Sides : state'[x] = "HANDSHAKEING" <=> state[x] = "HANDSHAKEING"
  <2>1. state["client"] # "HANDSHAKEING" BY <1>0 DEF Shaking
  <2> QED BY <1>3, <1>4, <2>1, SidesAre
<1>12. \/ state'["client"] = Outcome(role, "start")
       \/ /\ ~IsStart(First("client"))
          /\ state["client"] = Outcome(role, "start") => state'["client"] = Outcome(role, "start")
  <2>1. Outcome(role, "start") \in Started BY <1>2, OutcomesAre
  <2> QED BY <1>3, <1>5, <2>1
<1>13. First("client").t \notin {"SET_CHUNK_SIZE", "ACKNOWLEDGEMENT"} /\ "client" # "server" OBVIOUS
<1>14. /\ Lines' /\ Shaking' /\ ChunkSizes' /\ OneToken' /\ Told' /\ MediaAfter' /\ Acks'
       /\ Elems(In("client")') \subseteq Elems(In("client"))
       /\ Elems(In("server")') \subseteq Elems(In("server"))
       /\ gone'["server"] = gone["server"] \/ gone'["server"]
  BY <1>0, <1>1, <1>7, <1>9, <1>10, <1>11, <1>12, <1>13, MessageStep
<1>15. Progress'
  <2>1. /\ Outcome(role, "start")' = Outcome(role, "start")
        /\ Outcome(role, verdict)' = Outcome(role, verdict)
    BY DEF Outcome
  <2> QED BY <1>0, <1>1, <1>3, <1>6, <1>14, <2>1 DEF Progress
<1>16. Fits'
  <2>1. ASSUME NEW x \in Elems(In("server")') PROVE FitsServer(x)' /\ FitsBoth(x)'
    <3>1. FitsServer(x) /\ FitsBoth(x) BY <1>0, <1>14, <2>1 DEF Fits
    <3>2. x.t = "media" => state'["client"] = "PUBLISH_START"
      <4>1. "PUBLISH_START" \in Started BY DEF Started
      <4> QED BY <1>3, <1>5, <3>1, <4>1 DEF FitsServer
    <3> QED BY <3>1, <3>2 DEF FitsServer, FitsBoth, Connecting, Creating, Asking
  <2>2. ASSUME NEW x \in Elems(In("client")') PROVE FitsClient(x)' /\ FitsBoth(x)'
    <3>1. FitsClient(x) /\ FitsBoth(x) BY <1>0, <1>14, <2>2 DEF Fits
    <3> QED BY <1>1, <1>3, <3>1 DEF FitsClient, FitsBoth, Connecting, Creating
  <2> QED BY <2>1, <2>2 DEF Fits
<1> QED BY <1>7, <1>14, <1>15, <1>16 DEF SessionInv

\* An error ends what the client wanted; a status does, starts it, or says nothing.
LEMMA HandleErrorKept ==
    ASSUME SessionAssumption, SessionInv, HandleError
    PROVE  SessionInv'
<1>1. /\ Ready("client") /\ stage["client"] = 3 /\ First("client").t = "_error" /\ Count("client")
      /\ Consume("client") /\ ChangeState("client", Outcome(role, "error"))
      /\ UNCHANGED <<shake, chunks, peerWnd, acked, ackSeen, role, started, pending, last, streamId,
                     written, verdict>>
  BY DEF HandleError, Awaits
<1>2. verdict = "error" BY <1>1, SidesAre, FirstFits DEF FitsClient
<1>3. ~IsStart(First("client")) BY <1>1 DEF IsStart
<1> QED BY <1>1, <1>2, <1>3, ClientMoves

LEMMA HandleStatusKept ==
    ASSUME SessionAssumption, SessionInv, HandleStatus
    PROVE  SessionInv'
<1> DEFINE v  == First("client").v
           st == StatusState(v)
<1>1. /\ Ready("client") /\ stage["client"] = 3 /\ First("client").t = "onStatus" /\ Count("client")
      /\ Consume("client") /\ ChangeState("client", st)
      /\ UNCHANGED <<shake, chunks, peerWnd, acked, ackSeen, role, started, pending, last, streamId,
                     written, verdict>>
  BY DEF HandleStatus, Awaits
<1>2. v = verdict \/ v = "reset" BY <1>1, SidesAre, FirstFits DEF FitsClient
<1>3. st = IF v \in {"start", "error"} THEN Outcome(role, v) ELSE state["client"] BY DEF StatusState
<1>4. IsStart(First("client")) => v = "start" BY DEF IsStart
<1> HIDE DEF v, st
<1>5. st = state["client"] \/ (st = Outcome(role, verdict) /\ verdict \in {"start", "error"})
  BY <1>2, <1>3
<1>6. IsStart(First("client")) => st = Outcome(role, "start") BY <1>3, <1>4
<1> QED BY <1>1, <1>5, <1>6, ClientMoves

\* Having connected, the client asks for a stream.
AsksForStream(out) ==
    \A c \in Elems(out) : /\ c.t \in {"SET_CHUNK_SIZE", "WND_ACK_SIZE", "releaseStream", "FCPublish", "createStream"}
                          /\ FitsBoth(c)
                          /\ c.t = "createStream" => c.v = 2
                          /\ c.t \in {"releaseStream", "FCPublish"} => c.v = 0

\* The client goes on to createStream, with the size it wrote SET_CHUNK_SIZE with or
\* behind it.
LEMMA ConnectedStep ==
    ASSUME SessionAssumption, SessionInv, Ready("client"), stage["client"] = 3,
           First("client").t = "_result", First("client").v.tid = last.tid, last.method = "CONNECT",
           last' = [method |-> "CREATE_STREAM", tid |-> 2], Count("client"),
           NEW out \in Seq(Cells), Does("client", out), AsksForStream(out), Single(out),
           Sized(out, wsize["client"]), wsize'["client"] = EndSize(out, wsize["client"]),
           role = "publish" => wsize'["client"] = WriteSize,
           wsize' = [wsize EXCEPT !["client"] = WriteSize] \/ wsize' = wsize,
           UNCHANGED <<shake, rsize, peerWnd, acked, ackSeen, role, started, state, pending,
                       streamId, written, verdict>>
    PROVE  SessionInv'
<1>0. /\ Typed /\ Lines /\ Shaking /\ Progress /\ Fits /\ "server" \in Sides /\ "client" \in Sides
      /\ Peer("client") = "server" /\ "client" # "server"
  BY SidesAre DEF SessionInv
<1>1. UNCHANGED <<stage, cache, scheme>> BY DEF shake
<1>2. First("client").v.tid = 1 /\ Connecting /\ wsize["server"] = WriteSize
  <2>1. FitsClient(First("client")) BY <1>0, FirstFits
  <2>2. last.tid # 0 BY <2>1 DEF FitsClient
  <2>3. last.tid = 1 BY <1>0, <2>2 DEF Progress
  <2> QED BY <2>1, <2>3 DEF FitsClient
<1>3. IsToken(First("client")) BY <1>2 DEF IsToken
<1>4. \A i \in 1 .. Len(out) : out[i] \in Elems(out) BY ElemsAre
<1>5. Plain(out) BY <1>4 DEF Plain, AsksForStream, HsKinds
<1>6. wsize'["server"] = WriteSize /\ wsize'["server"] = wsize["server"]
  BY <1>0, <1>2 DEF Typed
<1>7. Typed'
  <2>1. \A x \in Sides : gone[x] => gone'[x] BY <1>0, GoneGrows
  <2>2. recv' \in [Sides -> Nat] BY <1>0 DEF Typed, Count
  <2>3. wsize' \in [Sides -> {FixSize, WriteSize}] BY <1>0 DEF Typed
  <2>4. last' \in [method : {"CONNECT", "CREATE_STREAM", "GET_STREAM_LENGTH"}, tid : 0 .. 3] OBVIOUS
  <2> QED BY <1>0, <1>1, <2>1, <2>2, <2>3, <2>4 DEF Typed
<1>8. First("client").t \notin {"SET_CHUNK_SIZE", "ACKNOWLEDGEMENT"} /\ ~IsStart(First("client"))
  BY DEF IsStart
<1>9. /\ Lines' /\ Shaking' /\ ChunkSizes' /\ OneToken' /\ Told' /\ MediaAfter' /\ Acks'
      /\ Elems(In("client")') \subseteq Elems(In("client"))
      /\ Elems(In("server")') \subseteq Elems(In("server")) \cup Elems(out)
      /\ \A x \in Elems(In("client")') \cup Elems(In("server")) : ~IsToken(x)
      /\ gone'["server"] = gone["server"] \/ gone'["server"]
  BY <1>0, <1>3, <1>5, <1>6, <1>7, <1>8, MessageStep
<1>10. streamId = 0 /\ verdict = "none" /\ streamId' = 0 /\ verdict' = "none" /\ last'.method = "CREATE_STREAM"
       /\ last'.tid = 2 /\ pending' = "none"
  BY <1>0, <1>2 DEF Progress, Connecting
<1>11. Progress'
  <2>1. state["server"] \notin Started /\ state["client"] \notin Started BY <1>0, <1>10 DEF Progress
  <2> QED BY <1>0, <1>1, <1>6, <1>10, <2>1 DEF Progress
<1>12. Fits'
  <2>1. ASSUME NEW x \in Elems(In("server")') PROVE FitsServer(x)' /\ FitsBoth(x)'
    <3>1. CASE x \in Elems(In("server"))
      <4>1. FitsServer(x) /\ FitsBoth(x) /\ ~IsToken(x) BY <1>0, <1>9, <3>1 DEF Fits
      <4>2. x.t \notin {"releaseStream", "FCPublish", "getStreamLength"} BY <4>1 DEF FitsServer
      <4> QED BY <4>1, <4>2 DEF FitsServer, FitsBoth, IsToken
    <3>2. CASE x \in Elems(out)
      <4>1. /\ x.t \in {"SET_CHUNK_SIZE", "WND_ACK_SIZE", "releaseStream", "FCPublish", "createStream"}
            /\ FitsBoth(x) /\ (x.t = "createStream" => x.v = 2)
            /\ x.t \in {"releaseStream", "FCPublish"} => x.v = 0
        BY <3>2 DEF AsksForStream
      <4>2. Creating' BY <1>10 DEF Creating
      <4> QED BY <1>10, <4>1, <4>2 DEF FitsServer, FitsBoth
    <3> QED BY <1>9, <2>1, <3>1, <3>2
  <2>2. ASSUME NEW x \in Elems(In("client")') PROVE FitsClient(x)' /\ FitsBoth(x)'
    <3>1. FitsClient(x) /\ FitsBoth(x) /\ ~IsToken(x) BY <1>0, <1>9, <2>2 DEF Fits
    <3> QED BY <1>10, <3>1 DEF FitsClient, FitsBoth, IsToken
  <2> QED BY <2>1, <2>2 DEF Fits
<1> QED BY <1>7, <1>9, <1>11, <1>12 DEF SessionInv

\* The answer to connect, for a publisher and for a player.
LEMMA HandleConnectResponseKept ==
    ASSUME SessionAssumption, SessionInv, HandleConnectResponse
    PROVE  SessionInv'
<1> DEFINE s == "client"
<1>0. Typed /\ Lines /\ Shaking /\ Progress /\ Fits /\ s \in Sides
  BY SidesAre DEF SessionInv
<1>1. /\ Ready(s) /\ stage[s] = 3 /\ First(s).t = "_result" /\ First(s).v.tid = last.tid
      /\ last.method = "CONNECT" /\ last' = [method |-> "CREATE_STREAM", tid |-> 2] /\ Count(s)
      /\ UNCHANGED <<shake, rsize, peerWnd, acked, ackSeen, role, started, state, pending,
                     streamId, written, verdict>>
  BY DEF HandleConnectResponse, Answers, Awaits
<1>2. wsize[s] \in Nat /\ WriteSize \in Nat /\ WndAck \in Nat BY <1>0, SizesAre
<1>8. WriteSize \in Nat BY <1>2
<1>6. PICK w : w = wsize[s] OBVIOUS
<1>7. w \in Nat BY <1>2, <1>6
<1>3. WriteSize \in Values /\ WndAck \in Values /\ 0 \in Values /\ 2 \in Values BY <1>2, ValuesAre
<1>4. CASE role = "publish"
  <2> DEFINE a   == Cell("SET_CHUNK_SIZE", w, WriteSize)
             b   == Cell("releaseStream", WriteSize, 0)
             c   == Cell("FCPublish", WriteSize, 0)
             d   == Cell("createStream", WriteSize, 2)
             out == <<a, b, c, d>>
  <2>1. wsize' = [wsize EXCEPT ![s] = WriteSize] BY <1>4 DEF HandleConnectResponse, Announce
  <2>2. wsize'[s] = WriteSize BY <1>0, <2>1, SizesAre
  <2>3. Does(s, out)
    <3>1. /\ Behind(s, "releaseStream", 0) = b /\ Behind(s, "FCPublish", 0) = c
          /\ Behind(s, "createStream", 2) = d /\ ClientCmd("SET_CHUNK_SIZE", WriteSize) = a
      BY <1>6, <2>2 DEF Behind, ClientCmd
    <3> QED BY <1>4, <3>1 DEF HandleConnectResponse, Does
  <2>4. a \in Cells /\ a.t = "SET_CHUNK_SIZE" /\ a.size = w /\ a.v = WriteSize
    BY <1>3, <1>7, CellIs, KindsAre
  <2>5. b \in Cells /\ b.t = "releaseStream" /\ b.size = WriteSize /\ b.v = 0
    BY <1>3, <1>8, CellIs, KindsAre
  <2>6. c \in Cells /\ c.t = "FCPublish" /\ c.size = WriteSize /\ c.v = 0
    BY <1>3, <1>8, CellIs, KindsAre
  <2>7. d \in Cells /\ d.t = "createStream" /\ d.size = WriteSize /\ d.v = 2
    BY <1>3, <1>8, CellIs, KindsAre
  <2> HIDE DEF a, b, c, d
  <2>8. /\ out \in Seq(Cells) /\ Len(out) = 4 /\ out[1] = a /\ out[2] = b /\ out[3] = c /\ out[4] = d
        /\ Elems(out) = {a, b, c, d}
    BY <2>4, <2>5, <2>6, <2>7, Batch4
  <2> HIDE DEF out
  <2>9. AsksForStream(out) BY <2>4, <2>5, <2>6, <2>7, <2>8 DEF AsksForStream, FitsBoth
  <2>10. \A i \in 1 .. Len(out) : i = 1 \/ i = 2 \/ i = 3 \/ i = 4 BY <2>8
  <2>11. Single(out)
    <3>1. \A i \in 1 .. Len(out) : IsToken(out[i]) => i = 4
      BY <2>4, <2>5, <2>6, <2>8, <2>10 DEF IsToken
    <3> QED BY <3>1 DEF Single
  <2>12. Sized(out, w) /\ EndSize(out, w) = WriteSize
    <3>1. \A i \in 2 .. Len(out) : i = 2 \/ i = 3 \/ i = 4 BY <2>8
    <3>2. \A i \in 2 .. Len(out) : out[i].size = WriteSize BY <2>5, <2>6, <2>7, <2>8, <3>1
    <3>3. out # <<>> BY <2>8, NothingSent
    <3> QED BY <2>4, <2>8, <3>2, <3>3, SizedBatch
  <2>13. Sized(out, wsize[s]) /\ wsize'[s] = EndSize(out, wsize[s]) BY <1>6, <2>2, <2>12
  <2> QED BY <1>1, <2>1, <2>2, <2>3, <2>8, <2>9, <2>11, <2>13, ConnectedStep
<1>5. CASE role # "publish"
  <2> DEFINE a   == Cell("WND_ACK_SIZE", w, WndAck)
             d   == Cell("createStream", w, 2)
             out == <<a, d>>
  <2>1. wsize' = wsize BY <1>5 DEF HandleConnectResponse
  <2>2. Does(s, out) BY <1>5, <1>6 DEF HandleConnectResponse, ClientCmd, Does
  <2>3. a \in Cells /\ a.t = "WND_ACK_SIZE" /\ a.size = w /\ a.v = WndAck
    BY <1>3, <1>7, CellIs, KindsAre
  <2>4. d \in Cells /\ d.t = "createStream" /\ d.size = w /\ d.v = 2
    BY <1>3, <1>7, CellIs, KindsAre
  <2> HIDE DEF a, d
  <2>5. /\ out \in Seq(Cells) /\ Len(out) = 2 /\ out[1] = a /\ out[2] = d /\ Elems(out) = {a, d}
    BY <2>3, <2>4, Batch2
  <2> HIDE DEF out
  <2>6. AsksForStream(out) BY <2>3, <2>4, <2>5 DEF AsksForStream, FitsBoth
  <2>7. \A i \in 1 .. Len(out) : i = 1 \/ i = 2 BY <2>5
  <2>8. Single(out)
    <3>1. \A i \in 1 .. Len(out) : IsToken(out[i]) => i = 2 BY <2>3, <2>5, <2>7 DEF IsToken
    <3> QED BY <3>1 DEF Single
  <2>9. Sized(out, w) /\ EndSize(out, w) = w
    <3>1. \A i \in 1 .. Len(out) : out[i].size = w /\ out[i].t # "SET_CHUNK_SIZE"
      BY <2>3, <2>4, <2>5, <2>7
    <3> QED BY <2>5, <3>1, SizedBatch
  <2>10. Sized(out, wsize[s]) /\ wsize'[s] = EndSize(out, wsize[s]) BY <1>6, <2>1, <2>9
  <2> QED BY <1>1, <1>5, <2>1, <2>2, <2>5, <2>6, <2>8, <2>10, ConnectedStep
<1> QED BY <1>4, <1>5

\* With a stream, it asks for what it wants.
AsksToStream(out) ==
    \A c \in Elems(out) : /\ c.t \in {"publish", "play", "getStreamLength"}
                          /\ c.t \in {"publish", "play"} => c.t = role /\ c.v = ServerStreamId
                          /\ c.t = "getStreamLength" => role = "play" /\ c.v = 3

\* The client knows its stream and asks for it.
LEMMA CreatedStep ==
    ASSUME SessionAssumption, SessionInv, Ready("client"), stage["client"] = 3,
           First("client").t = "_result", First("client").v.tid = last.tid, last.method = "CREATE_STREAM",
           streamId' = First("client").v.sid, Count("client"),
           last' = IF role = "publish" THEN last ELSE [method |-> "GET_STREAM_LENGTH", tid |-> 3],
           NEW out \in Seq(Cells), Does("client", out), AsksToStream(out), Single(out),
           OfSize(out, wsize["client"]),
           UNCHANGED <<shake, chunks, peerWnd, acked, ackSeen, role, started, state, pending,
                       written, verdict>>
    PROVE  SessionInv'
<1>0. /\ Typed /\ Lines /\ Shaking /\ Progress /\ Fits /\ "server" \in Sides /\ "client" \in Sides
      /\ Peer("client") = "server" /\ "client" # "server"
  BY SidesAre DEF SessionInv
<1>1. UNCHANGED <<stage, cache, scheme, wsize, rsize>> BY DEF shake, chunks
<1>2. First("client").v.tid = 2 /\ Creating /\ First("client").v.sid = ServerStreamId
  <2>1. FitsClient(First("client")) BY <1>0, FirstFits
  <2>2. last.tid = 2 BY <1>0 DEF Progress
  <2> QED BY <2>1, <2>2 DEF FitsClient
<1>3. IsToken(First("client")) BY <1>2 DEF IsToken
<1>4. \A i \in 1 .. Len(out) : out[i] \in Elems(out) BY ElemsAre
<1>5. Plain(out) BY <1>4 DEF Plain, AsksToStream, HsKinds
<1>6. Sized(out, wsize["client"]) /\ EndSize(out, wsize["client"]) = wsize["client"]
  BY SizedBatch DEF OfSize
<1>7. Typed'
  <2>1. \A x \in Sides : gone[x] => gone'[x] BY <1>0, GoneGrows
  <2>2. recv' \in [Sides -> Nat] BY <1>0 DEF Typed, Count
  <2>3. last' \in [method : {"CONNECT", "CREATE_STREAM", "GET_STREAM_LENGTH"}, tid : 0 .. 3]
    BY <1>0 DEF Typed
  <2>4. streamId' \in {0, ServerStreamId} BY <1>2
  <2> QED BY <1>0, <1>1, <2>1, <2>2, <2>3, <2>4 DEF Typed
<1>8. First("client").t \notin {"SET_CHUNK_SIZE", "ACKNOWLEDGEMENT"} /\ ~IsStart(First("client"))
  BY DEF IsStart
<1>9. /\ Lines' /\ Shaking' /\ ChunkSizes' /\ OneToken' /\ Told' /\ MediaAfter' /\ Acks'
      /\ Elems(In("client")') \subseteq Elems(In("client"))
      /\ Elems(In("server")') \subseteq Elems(In("server")) \cup Elems(out)
      /\ \A x \in Elems(In("client")') \cup Elems(In("server")) : ~IsToken(x)
      /\ gone'["server"] = gone["server"] \/ gone'["server"]
  BY <1>0, <1>1, <1>3, <1>5, <1>6, <1>7, <1>8, MessageStep
<1>10. /\ streamId = 0 /\ verdict = "none" /\ streamId' = ServerStreamId /\ verdict' = "none"
       /\ pending' = "none" /\ last'.method # "CONNECT" /\ role \in {"publish", "play"}
       /\ role = "play" => last'.method = "GET_STREAM_LENGTH"
  BY <1>0, <1>2 DEF Progress, Creating, Typed
<1>11. Progress'
  <2>1. state["server"] \notin Started /\ state["client"] \notin Started BY <1>0, <1>10 DEF Progress
  <2>2. ServerStreamId # 0 BY DEF ServerStreamId
  <2>3. last'.method = "GET_STREAM_LENGTH" => role = "play" BY <1>10
  <2>4. last' \in {[method |-> "CONNECT", tid |-> 0], [method |-> "CONNECT", tid |-> 1],
                   [method |-> "CREATE_STREAM", tid |-> 2], [method |-> "GET_STREAM_LENGTH", tid |-> 3]}
    BY <1>0 DEF Progress
  <2>5. wsize["server"] = WriteSize /\ (role = "publish" => wsize["client"] = WriteSize)
    BY <1>0 DEF Progress
  <2> QED BY <1>0, <1>1, <1>10, <2>1, <2>2, <2>3, <2>4, <2>5 DEF Progress
<1>12. Fits'
  <2>1. ASSUME NEW x \in Elems(In("server")') PROVE FitsServer(x)' /\ FitsBoth(x)'
    <3>1. CASE x \in Elems(In("server"))
      <4>1. FitsServer(x) /\ FitsBoth(x) /\ ~IsToken(x) BY <1>0, <1>9, <3>1 DEF Fits
      <4>2. x.t # "getStreamLength" BY <4>1 DEF FitsServer
      <4> QED BY <1>10, <4>1, <4>2 DEF FitsServer, FitsBoth, IsToken
    <3>2. CASE x \in Elems(out)
      <4>1. /\ x.t \in {"publish", "play", "getStreamLength"}
            /\ x.t \in {"publish", "play"} => x.t = role /\ x.v = ServerStreamId
            /\ x.t = "getStreamLength" => role = "play" /\ x.v = 3
        BY <3>2 DEF AsksToStream
      <4>2. Asking' BY <1>10 DEF Asking
      <4> QED BY <1>10, <4>1, <4>2 DEF FitsServer, FitsBoth
    <3> QED BY <1>9, <2>1, <3>1, <3>2
  <2>2. ASSUME NEW x \in Elems(In("client")') PROVE FitsClient(x)' /\ FitsBoth(x)'
    <3>1. FitsClient(x) /\ FitsBoth(x) /\ ~IsToken(x) BY <1>0, <1>9, <2>2 DEF Fits
    <3>2. x.t = "_result" => x.v.tid \notin {1, 2, 3} BY <3>1 DEF FitsClient, IsToken
    <3> QED BY <1>10, <3>1, <3>2 DEF FitsClient, FitsBoth
  <2> QED BY <2>1, <2>2 DEF Fits
<1> QED BY <1>7, <1>9, <1>11, <1>12 DEF SessionInv

\* The answer to createStream, for a publisher and for a player.
LEMMA HandleCreateStreamResponseKept ==
    ASSUME SessionAssumption, SessionInv, HandleCreateStreamResponse
    PROVE  SessionInv'
<1> DEFINE s == "client"
<1>0. Typed /\ Lines /\ Shaking /\ Progress /\ Fits /\ s \in Sides
  BY SidesAre DEF SessionInv
<1>1. /\ Ready(s) /\ stage[s] = 3 /\ First(s).t = "_result" /\ First(s).v.tid = last.tid
      /\ last.method = "CREATE_STREAM" /\ streamId' = First(s).v.sid /\ Count(s)
      /\ last' = IF role = "publish" THEN last ELSE [method |-> "GET_STREAM_LENGTH", tid |-> 3]
      /\ UNCHANGED <<shake, chunks, peerWnd, acked, ackSeen, role, started, state, pending,
                     written, verdict>>
  BY DEF HandleCreateStreamResponse, Answers, Awaits
<1>2. PICK w : w = wsize[s] OBVIOUS
<1>3. w \in Nat BY <1>0, <1>2, SizesAre
<1>4. First(s).v.sid = ServerStreamId
  <2>1. FitsClient(First(s)) BY <1>0, <1>1, FirstFits
  <2>2. last.tid = 2 BY <1>0, <1>1 DEF Progress
  <2> QED BY <1>1, <2>1, <2>2 DEF FitsClient
<1>5. ServerStreamId \in Values /\ 3 \in Values BY ValuesAre DEF ServerStreamId
<1>6. role \in {"publish", "play"} BY <1>0 DEF Typed
<1>7. CASE role = "publish"
  <2> DEFINE a   == Cell("publish", w, ServerStreamId)
             out == <<a>>
  <2>1. Does(s, out) BY <1>1, <1>2, <1>4, <1>7 DEF HandleCreateStreamResponse, ClientCmd, Does
  <2>2. a \in Cells /\ a.t = "publish" /\ a.size = w /\ a.v = ServerStreamId
    BY <1>3, <1>5, CellIs, KindsAre
  <2> HIDE DEF a
  <2>3. out \in Seq(Cells) /\ Len(out) = 1 /\ out[1] = a /\ Elems(out) = {a} BY <2>2, Batch1
  <2> HIDE DEF out
  <2>4. AsksToStream(out) BY <1>7, <2>2, <2>3 DEF AsksToStream
  <2>5. \A i \in 1 .. Len(out) : i = 1 BY <2>3
  <2>6. Single(out) BY <2>5 DEF Single
  <2>7. OfSize(out, wsize[s]) BY <1>2, <2>2, <2>3, <2>5 DEF OfSize
  <2> QED BY <1>1, <2>1, <2>3, <2>4, <2>6, <2>7, CreatedStep
<1>8. CASE role # "publish"
  <2> DEFINE a   == Cell("getStreamLength", w, 3)
             b   == Cell("play", w, ServerStreamId)
             out == <<a, b>>
  <2>1. Does(s, out) BY <1>1, <1>2, <1>4, <1>8 DEF HandleCreateStreamResponse, ClientCmd, Does
  <2>2. a \in Cells /\ a.t = "getStreamLength" /\ a.size = w /\ a.v = 3
    BY <1>3, <1>5, CellIs, KindsAre
  <2>3. b \in Cells /\ b.t = "play" /\ b.size = w /\ b.v = ServerStreamId
    BY <1>3, <1>5, CellIs, KindsAre
  <2> HIDE DEF a, b
  <2>4. out \in Seq(Cells) /\ Len(out) = 2 /\ out[1] = a /\ out[2] = b /\ Elems(out) = {a, b}
    BY <2>2, <2>3, Batch2
  <2> HIDE DEF out
  <2>5. AsksToStream(out) BY <1>6, <1>8, <2>2, <2>3, <2>4 DEF AsksToStream
  <2>6. \A i \in 1 .. Len(out) : i = 1 \/ i = 2 BY <2>4
  <2>7. Single(out)
    <3>1. \A i \in 1 .. Len(out) : IsToken(out[i]) => i = 2 BY <2>2, <2>4, <2>6 DEF IsToken
    <3> QED BY <3>1 DEF Single
  <2>8. OfSize(out, wsize[s]) BY <1>2, <2>2, <2>3, <2>4, <2>6 DEF OfSize
  <2> QED BY <1>1, <2>1, <2>4, <2>5, <2>7, <2>8, CreatedStep
<1> QED BY <1>7, <1>8

\* The server's state follows its answer.
LEMMA ServerSettlesKept ==
    ASSUME SessionAssumption, SessionInv, ServerSettles
    PROVE  SessionInv'
<1>0. /\ Typed /\ Lines /\ Shaking /\ ChunkSizes /\ OneToken /\ Progress /\ Fits /\ Told
      /\ MediaAfter /\ Acks
  BY DEF SessionInv
<1>1. /\ pending # "none" /\ state' = [state EXCEPT !["server"] = pending] /\ pending' = "none"
      /\ UNCHANGED <<inputs, shake, chunks, flow, ends, role, started, last, streamId, written, verdict>>
  BY DEF ServerSettles, ChangeState
<1>2. UNCHANGED <<wire, data, busy, stage, cache, scheme, wsize, rsize, peerWnd, recv, acked, ackSeen,
                  works, gone>>
  BY <1>1 DEF inputs, shake, chunks, flow, ends
<1>3. /\ state'["server"] = pending /\ state'["client"] = state["client"]
      /\ pending \in Started \cup Failed /\ pending # "HANDSHAKEING"
  <2>1. state'["server"] = pending /\ state'["client"] = state["client"]
    BY <1>0, <1>1, SidesAre DEF Typed
  <2>2. pending \in Started \cup Failed BY <1>0, <1>1 DEF Typed
  <2> QED BY <2>1, <2>2 DEF Started, Failed
<1>4. /\ \A s \in Sides : In(s)' = In(s) /\ HsRead(s)' = HsRead(s) /\ HsSent(s)' = HsSent(s)
      /\ \A r : Outcome(role, r)' = Outcome(role, r)
  BY <1>1, <1>2 DEF In, HsRead, HsSent, Outcome
<1>5. /\ verdict # "none" /\ pending = Outcome(role, verdict) /\ stage["server"] = 3
      /\ pending \in Started => verdict = "start"
  <2>1. role \in {"publish", "play"} /\ verdict \in {"none", "start", "error", "other"}
    BY <1>0 DEF Typed
  <2>2. verdict # "none" /\ pending = Outcome(role, verdict) /\ stage["server"] = 3
    BY <1>0, <1>1 DEF Progress
  <2> QED BY <2>1, <2>2, OutcomesAre
<1>6. Typed'
  <2>1. state' \in [Sides -> Stages \cup Started \cup Failed] BY <1>0, <1>1, <1>3 DEF Typed
  <2> QED BY <1>0, <1>1, <1>2, <2>1 DEF Typed
<1>7. Lines' BY <1>0, <1>2 DEF Lines
<1>8. Shaking'
  <2>1. \A s \in Sides : stage'[s] = 3 <=> state'[s] # "HANDSHAKEING"
    BY <1>0, <1>2, <1>3, <1>5, SidesAre DEF Shaking
  <2> QED BY <1>0, <1>1, <1>2, <1>4, <2>1 DEF Shaking
<1>9. ChunkSizes' /\ OneToken' /\ Acks'
  <2>1. \A s \in Sides : Peer(s) \in Sides BY SidesAre
  <2> QED BY <1>0, <1>2, <1>4, <2>1, SidesAre DEF ChunkSizes, OneToken, Acks
<1>10. Told' /\ MediaAfter'
  BY <1>0, <1>1, <1>2, <1>3, <1>4, SidesAre DEF Told, MediaAfter
<1>11. Progress'
  BY <1>0, <1>1, <1>2, <1>3, <1>4, <1>5 DEF Progress
<1>12. Fits'
  <2>1. state["server"] = "PLAY_START" => pending = "PLAY_START"
    <3>1. state["server"] = "PLAY_START" => verdict = "start" /\ state["server"] = Outcome(role, "start")
      BY <1>0 DEF Progress, Started
    <3> QED BY <1>5, <3>1
  <2>2. ASSUME NEW x \in Elems(In("server")') PROVE FitsServer(x)' /\ FitsBoth(x)'
    <3>1. FitsServer(x) /\ FitsBoth(x) BY <1>0, <1>4, <2>2, SidesAre DEF Fits
    <3> QED BY <1>1, <1>3, <3>1 DEF FitsServer, FitsBoth, Connecting, Creating, Asking
  <2>3. ASSUME NEW x \in Elems(In("client")') PROVE FitsClient(x)' /\ FitsBoth(x)'
    <3>1. FitsClient(x) /\ FitsBoth(x) BY <1>0, <1>4, <2>3, SidesAre DEF Fits
    <3> QED BY <1>1, <1>2, <1>3, <2>1, <3>1 DEF FitsClient, FitsBoth, Connecting, Creating
  <2> QED BY <2>2, <2>3 DEF Fits
<1> QED BY <1>6, <1>7, <1>8, <1>9, <1>10, <1>11, <1>12 DEF SessionInv

-------------------------------------------------------------------------------
(* The connection and the applications.                                      *)

\* What is under way stays, and no more sides take or send.
LEMMA SameLines ==
    ASSUME SessionInv, Lines', \A s \in Sides : In(s)' = In(s),
           \A s \in Sides : (works'[s] => works[s]) /\ (~busy'[s] => ~busy[s]),
           UNCHANGED <<shake, chunks, flow, gone, session>>
    PROVE  SessionInv'
<1>0. /\ Typed /\ Shaking /\ ChunkSizes /\ OneToken /\ Progress /\ Fits /\ Told
      /\ MediaAfter /\ Acks /\ "client" \in Sides /\ "server" \in Sides /\ \A s \in Sides : Peer(s) \in Sides
  BY SidesAre DEF SessionInv
<1>1. UNCHANGED <<stage, cache, scheme, wsize, rsize, peerWnd, recv, acked, ackSeen, role, started, state,
                  pending, last, streamId, written, verdict>>
  BY DEF shake, chunks, flow, session
<1>2. /\ \A s \in Sides : HsRead(s)' = HsRead(s) /\ HsSent(s)' = HsSent(s)
      /\ \A r : Outcome(role, r)' = Outcome(role, r)
  BY <1>1 DEF HsRead, HsSent, Outcome
<1>3. Typed' BY <1>0, <1>1 DEF Typed
<1>4. Shaking' BY <1>0, <1>1, <1>2 DEF Shaking
<1>5. ChunkSizes' BY <1>0, <1>1 DEF ChunkSizes
<1>6. OneToken' BY <1>0 DEF OneToken
<1>7. Progress' BY <1>0, <1>1, <1>2 DEF Progress
<1>8. Fits'
  <2>1. \A c : (FitsServer(c) => FitsServer(c)') /\ (FitsClient(c) => FitsClient(c)')
    BY <1>1 DEF FitsServer, FitsClient, Connecting, Creating, Asking
  <2> QED BY <1>0, <2>1 DEF Fits, FitsBoth
<1>9. Told' /\ MediaAfter' BY <1>0, <1>1, <1>2 DEF Told, MediaAfter
<1>10. Acks' BY <1>0, <1>1 DEF Acks
<1> QED BY <1>3, <1>4, <1>5, <1>6, <1>7, <1>8, <1>9, <1>10 DEF SessionInv

\* The connection fails.
LEMMA BreakKept ==
    ASSUME SessionInv, NEW s \in Sides, Break(s)
    PROVE  SessionInv'
<1>1. works' = [works EXCEPT ![s] = FALSE] /\ UNCHANGED <<wire, data, busy, gone, shake, chunks, flow, session>>
  BY DEF Break, inputs
<1>2. Lines BY DEF SessionInv
<1>3. works \in [Sides -> BOOLEAN] BY <1>2 DEF Lines
<1>4. works' \in [Sides -> BOOLEAN] /\ \A x \in Sides : works'[x] => works[x] BY <1>1, <1>3
<1>5. Lines' BY <1>1, <1>2, <1>4 DEF Lines
<1>6. \A x \in Sides : In(x)' = In(x) BY <1>1 DEF In
<1> QED BY <1>1, <1>4, <1>5, <1>6, SameLines

\* The application gives some of what arrived to Input.
LEMMA InputKept ==
    ASSUME SessionInv, NEW s \in Sides, Input(s)
    PROVE  SessionInv'
<1>1. Lines BY DEF SessionInv
<1>2. PICK n \in 1 .. Len(wire[s]) : /\ data' = [data EXCEPT ![s] = SubSeq(wire[s], 1, n)]
                                     /\ wire' = [wire EXCEPT ![s] = SubSeq(@, n + 1, Len(@))]
  BY DEF Input
<1>3. /\ busy' = [busy EXCEPT ![s] = TRUE] /\ ~busy[s] /\ ~gone[s]
      /\ UNCHANGED <<shake, chunks, flow, works, gone, session>>
  BY DEF Input, ends
<1>4. PICK w : w = wire[s] OBVIOUS
<1>5. w \in Seq(Cells) /\ Len(w) \in Nat /\ n \in 1 .. Len(w) BY <1>1, <1>4 DEF Lines
<1>6. PICK a, b : a = SubSeq(w, 1, n) /\ b = SubSeq(w, n + 1, Len(w)) OBVIOUS
<1>7. a \in Seq(Cells) /\ b \in Seq(Cells)
  <2>1. \A i \in 1 .. Len(w) : w[i] \in Cells BY <1>5
  <2>2. (\A i \in 1 .. n : w[i] \in Cells) /\ (\A i \in (n + 1) .. Len(w) : w[i] \in Cells) BY <1>5, <2>1
  <2>3. n \in Int /\ n + 1 \in Int /\ 1 \in Int /\ Len(w) \in Int BY <1>5
  <2>4. a \in Seq(Cells) BY <1>6, <2>2, <2>3, SubSeqProperties
  <2>5. b \in Seq(Cells) BY <1>6, <2>2, <2>3, SubSeqProperties
  <2> QED BY <2>4, <2>5
<1>8. a \o b = w
  <2>1. 1 \in 1 .. Len(w) + 1 /\ n \in (1 - 1) .. Len(w) /\ Len(w) \in n .. Len(w) BY <1>5
  <2>2. SubSeq(w, 1, n) \o SubSeq(w, n + 1, Len(w)) = SubSeq(w, 1, Len(w))
    BY <1>5, <2>1, ConcatAdjacentSubSeq
  <2> QED BY <1>5, <1>6, <2>2, SubSeqFull
<1>9. In(s) = w BY <1>1, <1>3, <1>4, <1>5, CatEmpty DEF In, Lines
<1>10. data'[s] = a /\ wire'[s] = b BY <1>1, <1>2, <1>4, <1>6 DEF Lines
<1>11. \A x \in Sides : In(x)' = In(x)
  <2>1. In(s)' = In(s) BY <1>8, <1>9, <1>10 DEF In
  <2>2. \A x \in Sides : x # s => In(x)' = In(x) BY <1>1, <1>2 DEF In, Lines
  <2> QED BY <2>1, <2>2
<1>12. Lines'
  <2>1. data' \in [Sides -> Seq(Cells)] /\ wire' \in [Sides -> Seq(Cells)]
    <3>1. data' = [data EXCEPT ![s] = a] /\ wire' = [wire EXCEPT ![s] = b] BY <1>1, <1>2, <1>4, <1>6 DEF Lines
    <3> QED BY <1>1, <1>7, <3>1 DEF Lines
  <2>2. \A x \in Sides : x # s => data'[x] = data[x] /\ busy'[x] = busy[x] BY <1>1, <1>2, <1>3 DEF Lines
  <2>3. busy'[s] /\ busy' \in [Sides -> BOOLEAN] BY <1>1, <1>3 DEF Lines
  <2> QED BY <1>1, <1>3, <2>1, <2>2, <2>3 DEF Lines
<1>13. \A x \in Sides : (works'[x] => works[x]) /\ (~busy'[x] => ~busy[x]) BY <1>1, <1>3 DEF Lines
<1> QED BY <1>3, <1>11, <1>12, <1>13, SameLines

\* A batch sent outside the handlers, by a side that is past its handshake.
LEMMA AddsTo ==
    ASSUME Lines, NEW s \in Sides, NEW out \in Seq(Cells), UNCHANGED data,
           wire' = [wire EXCEPT ![Peer(s)] = @ \o out] \/ (out = <<>> /\ UNCHANGED wire)
    PROVE  /\ In(Peer(s))' = In(Peer(s)) \o out /\ In(s)' = In(s)
           /\ wire' \in [Sides -> Seq(Cells)] /\ data' \in [Sides -> Seq(Cells)]
<1> DEFINE p == Peer(s)
<1>1. /\ p \in Sides /\ p # s /\ wire[p] \in Seq(Cells) /\ data[p] \in Seq(Cells)
      /\ wire \in [Sides -> Seq(Cells)] /\ data \in [Sides -> Seq(Cells)]
  BY InIs DEF Lines
<1> HIDE DEF p
<1>2. wire[p] \o out \in Seq(Cells) /\ data[p] \o wire[p] \in Seq(Cells) BY <1>1
<1>3. /\ wire'[p] = wire[p] \o out /\ wire'[s] = wire[s] /\ wire' \in [Sides -> Seq(Cells)]
  <2>1. CASE wire' = [wire EXCEPT ![p] = @ \o out] BY <1>1, <1>2, <2>1
  <2>2. CASE out = <<>> /\ UNCHANGED wire BY <1>1, <2>2, CatEmpty
  <2> QED BY <2>1, <2>2 DEF p
<1>4. data[p] \o (wire[p] \o out) = (data[p] \o wire[p]) \o out BY <1>1, CatAssoc
<1> QED BY <1>1, <1>3, <1>4 DEF In, p

\* Every conjunct but the types and Acks, kept when a batch that moves nothing on is
\* added.
LEMMA AppendStep ==
    ASSUME SessionAssumption, SessionInv, Typed', Lines', NEW s \in Sides, NEW out \in Seq(Cells),
           In(Peer(s))' = In(Peer(s)) \o out, In(s)' = In(s),
           out = <<>> \/ (stage[s] = 3 /\ works[s]),
           \A x \in Sides : gone[x] => gone'[x], works' = works,
           \A i \in 1 .. Len(out) : out[i].t \notin HsKinds,
           OfSize(out, wsize[s]), Free(out), FitsFrom(s, out),
           s = "server" => \/ \A i \in 1 .. Len(out) : out[i].t # "media"
                           \/ state["client"] = Outcome(role, "start") \/ gone["client"]
                           \/ \E c \in Elems(In("client")) : IsStart(c),
           UNCHANGED <<shake, chunks, role, started, state, pending, last, streamId, verdict>>
    PROVE  /\ Shaking' /\ ChunkSizes' /\ OneToken' /\ Progress' /\ Fits' /\ Told' /\ MediaAfter'
<1> DEFINE p   == Peer(s)
           sch == scheme["client"]
<1>0. /\ Typed /\ Lines /\ Shaking /\ ChunkSizes /\ OneToken /\ Progress /\ Fits /\ Told /\ MediaAfter
      /\ p \in Sides /\ p # s /\ Peer(p) = s /\ In(s) \in Seq(Cells) /\ In(p) \in Seq(Cells)
      /\ "client" \in Sides /\ "server" \in Sides
      /\ \A x \in Sides : x = s \/ x = p
  BY InIs, SidesAre DEF SessionInv
<1>1. UNCHANGED <<stage, cache, scheme, wsize, rsize>> BY DEF shake, chunks
<1>2. /\ \A x \in Sides : HsRead(x)' = HsRead(x) /\ HsSent(x)' = HsSent(x)
      /\ \A r : Outcome(role, r)' = Outcome(role, r)
  BY <1>1 DEF HsRead, HsSent, Outcome
<1>3. Elems(In(p)') = Elems(In(p)) \cup Elems(out) BY <1>0, ElemsCat
<1> HIDE DEF p, sch
<1>4. CASE out = <<>>
  <2>1. \A x \in Sides : In(x)' = In(x) BY <1>0, <1>4, CatEmpty DEF p
  <2>2. Shaking' BY <1>0, <1>1, <1>2, <2>1 DEF Shaking
  <2>3. ChunkSizes' BY <1>0, <1>1, <2>1, SidesAre DEF ChunkSizes
  <2>4. OneToken' BY <1>0, <2>1 DEF OneToken
  <2>5. Told' /\ MediaAfter' BY <1>0, <1>1, <1>2, <2>1 DEF Told, MediaAfter
  <2>6. Progress' BY <1>0, <1>1, <1>2 DEF Progress
  <2>7. Fits'
    <3>1. \A c : (FitsServer(c) => FitsServer(c)') /\ (FitsClient(c) => FitsClient(c)')
      BY <1>1 DEF FitsServer, FitsClient, Connecting, Creating, Asking
    <3> QED BY <1>0, <2>1, <3>1 DEF Fits, FitsBoth
  <2> QED BY <2>2, <2>3, <2>4, <2>5, <2>6, <2>7
<1>5. CASE stage[s] = 3 /\ works[s]
  <2>1. started /\ HsSent(p) = HsAll /\ HsAll \in Nat
    <3>1. started BY <1>0, <1>5 DEF Shaking, Typed
    <3> QED BY <1>0, <1>5, <3>1, SidesAre, HsCounts DEF HsSent
  <2>2. Shaking'
    <3>1. ~gone'[p] => /\ HsSent(p) >= HsRead(p)
                       /\ HsPart(p, sch, In(p)', HsRead(p), HsSent(p) - HsRead(p))
      <4>1. HsRead(p) \in Nat /\ HsSent(p) \in Nat BY <1>0, HsCounts
      <4>2. ~gone[p] => /\ HsSent(p) >= HsRead(p) /\ HsSent(p) - HsRead(p) \in Nat
                        /\ HsPart(p, sch, In(p), HsRead(p), HsSent(p) - HsRead(p))
        BY <1>0, <4>1 DEF Shaking, sch
      <4> QED BY <1>0, <4>1, <4>2, HsCat DEF p
    <3>2. ~gone'[s] => /\ HsSent(s) >= HsRead(s)
                       /\ HsPart(s, sch, In(s)', HsRead(s), HsSent(s) - HsRead(s))
                       /\ HsSent(s) < HsAll => Len(In(s)') = HsSent(s) - HsRead(s)
      BY <1>0 DEF Shaking, sch
    <3>3. ~(HsSent(p) < HsAll) BY <2>1
    <3>4. ASSUME NEW x \in Sides, ~gone'[x]
          PROVE  /\ HsSent(x)' >= HsRead(x)'
                 /\ HsPart(x, scheme'["client"], In(x)', HsRead(x)', HsSent(x)' - HsRead(x)')
                 /\ HsSent(x)' < HsAll => Len(In(x)') = HsSent(x)' - HsRead(x)'
      <4>1. scheme'["client"] = sch BY <1>1 DEF sch
      <4>2. CASE x = s BY <1>0, <1>2, <3>2, <3>4, <4>1, <4>2
      <4>3. CASE x = p BY <1>0, <1>2, <3>1, <3>3, <3>4, <4>1, <4>3
      <4> QED BY <1>0, <4>2, <4>3
    <3> QED BY <1>0, <1>1, <2>1, <3>4 DEF Shaking
  <2>3. ChunkSizes'
    <3>1. Sized(out, wsize[s]) /\ EndSize(out, wsize[s]) = wsize[s] BY SizedBatch DEF OfSize
    <3>2. ~gone[p] => Sized(In(p), rsize[p]) /\ wsize[s] = EndSize(In(p), rsize[p])
      BY <1>0, <1>5 DEF ChunkSizes
    <3>3. ~gone[p] => Sized(In(p)', rsize[p]) /\ EndSize(In(p)', rsize[p]) = wsize[s]
      BY <1>0, <3>1, <3>2, SizedCat DEF p
    <3>4. ~gone[s] => Sized(In(s), rsize[s]) /\ (works[p] => wsize[p] = EndSize(In(s), rsize[s]))
      BY <1>0 DEF ChunkSizes, p
    <3> QED BY <1>0, <1>1, <3>3, <3>4 DEF ChunkSizes, p
  <2>4. OneToken'
    <3>1. /\ Free(In(p)) => Free(In(p)')
          /\ Single(In(p)) => Single(In(p)')
      BY <1>0, TokenCat DEF p
    <3> QED BY <1>0, <3>1, SidesAre DEF OneToken
  <2>5. Progress' BY <1>0, <1>1, <1>2 DEF Progress
  <2>6. Fits'
    <3>1. \A c : (FitsServer(c) => FitsServer(c)') /\ (FitsClient(c) => FitsClient(c)')
      BY <1>1 DEF FitsServer, FitsClient, Connecting, Creating, Asking
    <3>2. CASE s = "client"
      <4>1. /\ Elems(In("client")') = Elems(In("client"))
            /\ Elems(In("server")') = Elems(In("server")) \cup Elems(out)
        BY <1>0, <1>3, <3>2, SidesAre DEF p
      <4> QED BY <1>0, <3>1, <3>2, <4>1 DEF Fits, FitsFrom, FitsBoth
    <3>3. CASE s = "server"
      <4>1. /\ Elems(In("server")') = Elems(In("server"))
            /\ Elems(In("client")') = Elems(In("client")) \cup Elems(out)
        BY <1>0, <1>3, <3>3, SidesAre DEF p
      <4> QED BY <1>0, <3>1, <3>3, <4>1 DEF Fits, FitsFrom, FitsBoth
    <3> QED BY <3>2, <3>3, SidesAre
  <2>7. Told' /\ MediaAfter'
    <3>1. CASE s = "client"
      <4>1. In("client")' = In("client") BY <3>1
      <4> QED BY <1>0, <1>1, <1>2, <4>1 DEF Told, MediaAfter
    <3>2. CASE s = "server"
      <4>1. In("client")' = In("client") \o out /\ In("client") \in Seq(Cells)
        BY <1>0, <3>2, SidesAre DEF p
      <4>2. Elems(In("client")') = Elems(In("client")) \cup Elems(out) BY <4>1, ElemsCat
      <4>3. Told' BY <1>0, <1>1, <1>2, <4>2 DEF Told
      <4>4. ~gone["client"] =>
               state["client"] = Outcome(role, "start") \/ ToldFirst(In("client")')
        BY <1>0, <3>2, <4>1, ToldCat DEF MediaAfter
      <4> QED BY <1>0, <1>1, <1>2, <4>3, <4>4 DEF MediaAfter
    <3> QED BY <3>1, <3>2, SidesAre
  <2> QED BY <2>2, <2>3, <2>4, <2>5, <2>6, <2>7
<1> QED BY <1>4, <1>5

\* Another goroutine writes media behind the word of the start.
LEMMA WriteTagKept ==
    ASSUME SessionAssumption, SessionInv, NEW s \in Sides, WriteTag(s)
    PROVE  SessionInv'
<1> DEFINE v == IF s = "client" THEN streamId ELSE ServerStreamId
           p == Peer(s)
<1>0. /\ Typed /\ Lines /\ Shaking /\ Progress /\ Fits /\ Told /\ Acks /\ ChunkSizes
      /\ p \in Sides /\ p # s /\ Peer(p) = s /\ In(s) \in Seq(Cells) /\ In(p) \in Seq(Cells)
      /\ \A x \in Sides : x = s \/ x = p
  BY InIs, SidesAre DEF SessionInv
<1>1. /\ state[s] = Streaming(s) /\ works[s] /\ written' = [written EXCEPT ![s] = @ + 1]
      /\ wire' = [wire EXCEPT ![p] = Append(@, Cell("media", WriteSize, v))]
      /\ UNCHANGED <<data, busy, works, gone, shake, chunks, flow, role, started, state, pending,
                     last, streamId, verdict>>
  BY DEF WriteTag, ends
<1>2. UNCHANGED <<stage, cache, scheme, wsize, rsize, peerWnd, recv, acked, ackSeen>>
  BY <1>1 DEF shake, chunks, flow
<1>3. /\ verdict = "start" /\ state[s] = Outcome(role, "start") /\ streamId = ServerStreamId
      /\ v = ServerStreamId /\ last.method # "CONNECT" /\ stage[s] = 3
      /\ s = "client" => role = "publish"
  <2>1. state[s] \in Started BY <1>1 DEF Streaming, Started
  <2>2. verdict = "start" /\ state[s] = Outcome(role, "start") BY <1>0, <2>1, SidesAre DEF Progress
  <2>3. streamId = ServerStreamId /\ streamId # 0 BY <1>0, <2>2 DEF Progress, ServerStreamId
  <2>4. stage[s] = 3 BY <1>0, <2>1 DEF Shaking, Started
  <2>5. s = "client" => role = "publish"
    <3>1. role \in {"publish", "play"} BY <1>0 DEF Typed
    <3> QED BY <1>1, <2>2, <3>1, OutcomesAre DEF Streaming
  <2> QED BY <1>0, <2>2, <2>3, <2>4, <2>5 DEF Progress
<1>4. wsize[s] = WriteSize BY <1>0, <1>3, SidesAre DEF Progress
<1> DEFINE a   == Cell("media", WriteSize, v)
           out == <<a>>
<1>5. a \in Cells /\ a.t = "media" /\ a.size = WriteSize /\ a.v = ServerStreamId
  <2>1. WriteSize \in Nat BY <1>0, SizesAre
  <2>2. v \in Values BY <1>3, ValuesAre DEF ServerStreamId
  <2>3. a \in Cells /\ a.t = "media" /\ a.size = WriteSize /\ a.v = v
    BY <2>1, <2>2, CellIs, KindsAre
  <2> QED BY <1>3, <2>3
<1> HIDE DEF a, v, p
<1>6. out \in Seq(Cells) /\ Len(out) = 1 /\ out[1] = a /\ Elems(out) = {a} BY <1>5, Batch1
<1>7. wire' = [wire EXCEPT ![p] = @ \o out]
  <2>1. wire[p] \in Seq(Cells) /\ wire \in [Sides -> Seq(Cells)] BY <1>0 DEF Lines
  <2>2. Append(wire[p], a) = wire[p] \o out BY <1>5, <2>1, AppendIsConcat
  <2> QED BY <1>1, <2>1, <2>2 DEF a
<1> HIDE DEF out
<1>8. \A i \in 1 .. Len(out) : out[i] = a BY <1>6
<1>9. /\ In(p)' = In(p) \o out /\ In(s)' = In(s)
      /\ wire' \in [Sides -> Seq(Cells)] /\ data' \in [Sides -> Seq(Cells)]
  BY <1>0, <1>1, <1>6, <1>7, AddsTo DEF p
<1>10. Lines' BY <1>0, <1>1, <1>9 DEF Lines
<1>11. Typed'
  <2>1. written' \in [Sides -> Nat] BY <1>0, <1>1 DEF Typed
  <2> QED BY <1>0, <1>1, <1>2, <2>1 DEF Typed
<1>12. (\A i \in 1 .. Len(out) : out[i].t \notin HsKinds) /\ OfSize(out, wsize[s]) /\ Free(out)
  BY <1>4, <1>5, <1>8 DEF HsKinds, OfSize, Free, IsToken
<1>13. FitsFrom(s, out)
  <2>1. s = "client" => FitsServer(a) BY <1>1, <1>5 DEF FitsServer, Streaming
  <2>2. s = "server" => FitsClient(a) BY <1>1, <1>5 DEF FitsClient, Streaming
  <2> QED BY <1>5, <1>6, <2>1, <2>2 DEF FitsFrom, FitsBoth
<1>14. s = "server" => \/ state["client"] = Outcome(role, "start") \/ gone["client"]
                       \/ \E c \in Elems(In("client")) : IsStart(c)
  <2>1. ~gone[s] BY <1>0, <1>1 DEF Lines
  <2> QED BY <1>0, <1>3, <2>1 DEF Told
<1>15. /\ Shaking' /\ ChunkSizes' /\ OneToken' /\ Progress' /\ Fits' /\ Told' /\ MediaAfter'
  BY <1>1, <1>3, <1>6, <1>9, <1>10, <1>11, <1>12, <1>13, <1>14, AppendStep DEF p
<1>16. Acks'
  <2>1. \A i \in 1 .. Len(out) : out[i].t # "ACKNOWLEDGEMENT" BY <1>5, <1>8
  <2>2. works["client"] /\ works["server"] => /\ LastAck(In(p)', ackSeen[p], acked[s])
                                              /\ LastAck(In(s)', ackSeen[s], acked[p])
    <3>1. works["client"] /\ works["server"] => /\ LastAck(In(p), ackSeen[p], acked[s])
                                                /\ LastAck(In(s), ackSeen[s], acked[p])
      BY <1>0 DEF Acks, p
    <3>2. LastAck(In(p), ackSeen[p], acked[s]) => LastAck(In(p) \o out, ackSeen[p], acked[s])
      BY <1>0, <1>6, <2>1, AckCat
    <3> QED BY <1>9, <3>1, <3>2
  <2> QED BY <1>0, <1>1, <1>2, <2>2 DEF Acks, p
<1> QED BY <1>10, <1>11, <1>15, <1>16 DEF SessionInv

\* The end of Input acknowledges a full window.
LEMMA InputEndsKept ==
    ASSUME SessionAssumption, SessionInv, NEW s \in Sides, InputEnds(s)
    PROVE  SessionInv'
<1> DEFINE p == Peer(s)
<1>0. /\ Typed /\ Lines /\ Shaking /\ Progress /\ Fits /\ Told /\ Acks /\ ChunkSizes
      /\ p \in Sides /\ p # s /\ Peer(p) = s /\ In(s) \in Seq(Cells) /\ In(p) \in Seq(Cells)
      /\ \A x \in Sides : x = s \/ x = p
  BY InIs, SidesAre DEF SessionInv
<1>1. /\ busy[s] /\ data[s] = <<>> /\ busy' = [busy EXCEPT ![s] = FALSE]
      /\ acked' = [acked EXCEPT ![s] = IF AckDue(s) THEN recv[s] ELSE @]
      /\ IF AckDue(s) /\ works[s]
         THEN wire' = [wire EXCEPT ![p] = Append(@, Cell("ACKNOWLEDGEMENT", wsize[s], recv[s]))]
         ELSE UNCHANGED wire
      /\ gone' = [gone EXCEPT ![s] = AckDue(s) /\ ~works[s]]
      /\ UNCHANGED <<data, shake, chunks, peerWnd, recv, ackSeen, works, session>>
  BY DEF InputEnds
<1>2. UNCHANGED <<stage, cache, scheme, wsize, rsize, role, started, state, pending, last, streamId,
                  written, verdict>>
  BY <1>1 DEF shake, chunks, session
<1>3. recv[s] \in Nat /\ acked[s] \in Nat /\ acked[s] <= recv[s] /\ wsize[s] \in Nat /\ ~gone[s]
      /\ peerWnd[s] \in {0, WndAck} /\ WndAck \in Nat \ {0}
  <2>1. recv[s] \in Nat /\ acked[s] \in Nat /\ acked[s] <= recv[s] /\ peerWnd[s] \in {0, WndAck}
    BY <1>0 DEF Typed, Acks
  <2>2. wsize[s] \in Nat BY <1>0, SizesAre
  <2>3. ~gone[s] BY <1>0, <1>1 DEF Lines
  <2> QED BY <2>1, <2>2, <2>3 DEF SessionAssumption
<1> DEFINE a == Cell("ACKNOWLEDGEMENT", wsize[s], recv[s])
<1>4. a \in Cells /\ a.t = "ACKNOWLEDGEMENT" /\ a.size = wsize[s] /\ a.v = recv[s]
  <2>1. recv[s] \in Values BY <1>3, ValuesAre
  <2> QED BY <1>3, <2>1, CellIs, KindsAre
<1> HIDE DEF a, p
<1>5. PICK out \in Seq(Cells) : out = IF AckDue(s) /\ works[s] THEN <<a>> ELSE <<>>
  BY <1>4, Batch1, NothingSent
<1>6. /\ \A i \in 1 .. Len(out) : out[i] = a
      /\ out # <<>> => AckDue(s) /\ works[s] /\ Len(out) = 1 /\ out[1] = a
      /\ AckDue(s) /\ works[s] => Len(out) = 1 /\ out[1] = a
  <2>1. CASE AckDue(s) /\ works[s]
    <3>1. Len(out) = 1 /\ out[1] = a BY <1>4, <1>5, <2>1, Batch1
    <3>2. \A i \in 1 .. Len(out) : i = 1 BY <3>1
    <3> QED BY <2>1, <3>1, <3>2
  <2>2. CASE ~(AckDue(s) /\ works[s])
    <3>1. out = <<>> BY <1>5, <2>2
    <3>2. Len(out) = 0 BY <3>1, NothingSent
    <3>3. \A i \in 1 .. Len(out) : FALSE BY <3>2
    <3> QED BY <2>2, <3>1, <3>3
  <2> QED BY <2>1, <2>2
<1>7. wire' = [wire EXCEPT ![p] = @ \o out] \/ (out = <<>> /\ UNCHANGED wire)
  <2>1. CASE AckDue(s) /\ works[s]
    <3>1. wire[p] \in Seq(Cells) /\ wire \in [Sides -> Seq(Cells)] BY <1>0 DEF Lines
    <3>2. Append(wire[p], a) = wire[p] \o <<a>> BY <1>4, <3>1, AppendIsConcat
    <3> QED BY <1>1, <1>5, <2>1, <3>1, <3>2 DEF a
  <2> QED BY <1>1, <1>5, <2>1
<1>8. /\ In(p)' = In(p) \o out /\ In(s)' = In(s)
      /\ wire' \in [Sides -> Seq(Cells)] /\ data' \in [Sides -> Seq(Cells)]
  BY <1>0, <1>1, <1>7, AddsTo DEF p
<1>9. /\ gone' \in [Sides -> BOOLEAN] /\ busy' \in [Sides -> BOOLEAN] /\ ~busy'[s]
      /\ gone'[s] => AckDue(s) /\ ~works[s]
      /\ gone'[p] = gone[p] /\ busy'[p] = busy[p]
      /\ \A x \in Sides : gone[x] => gone'[x]
  <2>1. (AckDue(s) /\ ~works[s]) \in BOOLEAN BY <1>0 DEF Lines
  <2> QED BY <1>0, <1>1, <1>3, <2>1 DEF Lines
<1>10. Lines' BY <1>0, <1>1, <1>8, <1>9 DEF Lines
<1>11. /\ acked' \in [Sides -> Nat] /\ acked'[p] = acked[p]
       /\ acked'[s] = IF AckDue(s) THEN recv[s] ELSE acked[s]
  BY <1>0, <1>1, <1>3 DEF Typed
<1>12. Typed' BY <1>0, <1>1, <1>2, <1>9, <1>11 DEF Typed
<1>13. (\A i \in 1 .. Len(out) : out[i].t \notin HsKinds) /\ OfSize(out, wsize[s]) /\ Free(out)
       /\ \A i \in 1 .. Len(out) : out[i].t # "media"
  BY <1>4, <1>6 DEF HsKinds, OfSize, Free, IsToken
<1>14. FitsFrom(s, out)
  <2>1. \A c \in Elems(out) : c = a BY <1>6, ElemsAre
  <2>2. FitsServer(a) /\ FitsClient(a) /\ FitsBoth(a) BY <1>3, <1>4 DEF FitsServer, FitsClient, FitsBoth
  <2> QED BY <2>1, <2>2 DEF FitsFrom
<1>15. out = <<>> \/ (stage[s] = 3 /\ works[s]) BY <1>6 DEF AckDue
<1>16. /\ Shaking' /\ ChunkSizes' /\ OneToken' /\ Progress' /\ Fits' /\ Told' /\ MediaAfter'
  BY <1>1, <1>2, <1>8, <1>9, <1>10, <1>12, <1>13, <1>14, <1>15, AppendStep DEF p
<1>17. Acks'
  <2>1. works["client"] /\ works["server"] => works[s] /\ /\ LastAck(In(p), ackSeen[p], acked[s])
                                                          /\ LastAck(In(s), ackSeen[s], acked[p])
    BY <1>0, SidesAre DEF Acks, p
  <2>2. works["client"] /\ works["server"] => LastAck(In(p)', ackSeen[p], acked'[s])
    <3>1. CASE AckDue(s) /\ works[s]
      <4>1. LastAck(In(p) \o out, ackSeen[p], out[1].v) BY <1>0, <1>4, <1>6, <3>1, AckCat
      <4> QED BY <1>4, <1>6, <1>8, <1>11, <3>1, <4>1
    <3>2. CASE ~(AckDue(s) /\ works[s])
      <4>1. In(p)' = In(p) BY <1>0, <1>5, <1>8, <3>2, CatEmpty
      <4> QED BY <1>11, <2>1, <3>2, <4>1
    <3> QED BY <3>1, <3>2
  <2>3. acked'[s] <= recv[s] /\ (peerWnd[s] # 0 => recv[s] - acked'[s] < peerWnd[s])
    <3>1. CASE AckDue(s) BY <1>3, <1>11, <3>1
    <3>2. CASE ~AckDue(s)
      <4>1. peerWnd[s] # 0 => stage[s] = 3 BY <1>0 DEF Acks
      <4> QED BY <1>3, <1>11, <3>2, <4>1 DEF AckDue
    <3> QED BY <3>1, <3>2
  <2>4. /\ acked[p] <= recv[p] /\ (\A x \in Sides : peerWnd[x] # 0 => stage[x] = 3)
        /\ ~busy[p] /\ peerWnd[p] # 0 => recv[p] - acked[p] < peerWnd[p] \/ ~works[p]
    BY <1>0 DEF Acks
  <2>5. ASSUME NEW x \in Sides
        PROVE  /\ acked'[x] <= recv'[x]
               /\ peerWnd'[x] # 0 => stage'[x] = 3
               /\ ~busy'[x] /\ peerWnd'[x] # 0 => recv'[x] - acked'[x] < peerWnd'[x] \/ ~works'[x]
               /\ works'["client"] /\ works'["server"] => LastAck(In(Peer(x))', ackSeen'[Peer(x)], acked'[x])
    <3>1. CASE x = s BY <1>1, <1>2, <2>2, <2>3, <2>4, <3>1 DEF p
    <3>2. CASE x = p BY <1>0, <1>1, <1>2, <1>8, <1>9, <1>11, <2>1, <2>4, <3>2
    <3> QED BY <1>0, <3>1, <3>2
  <2> QED BY <2>5 DEF Acks
<1> QED BY <1>10, <1>12, <1>16, <1>17 DEF SessionInv

-------------------------------------------------------------------------------
(* The handshake.                                                            *)

\* The bytes of one part of the handshake.
LEMMA HsAre ==
    ASSUME SessionAssumption, NEW t \in HsKinds, NEW v \in Words
    PROVE  /\ Hs(t, v) \in Seq(Cells) /\ Len(Hs(t, v)) = HsLen
           /\ \A i \in 1 .. HsLen : Hs(t, v)[i].t = t /\ Hs(t, v)[i].v = v
<1>1. HsLen \in Nat BY DEF SessionAssumption
<1>2. t \in Kinds /\ v \in Values /\ 0 \in Nat BY ValuesAre DEF Kinds
<1>3. PICK a : a = Cell(t, 0, v) OBVIOUS
<1>4. a \in Cells /\ a.t = t /\ a.v = v BY <1>2, <1>3, CellIs
<1>5. Hs(t, v) = [i \in 1 .. HsLen |-> a] BY <1>3 DEF Hs
<1>6. [i \in 1 .. HsLen |-> a] \in Seq(Cells) /\ Len([i \in 1 .. HsLen |-> a]) = HsLen
  BY <1>1, <1>4
<1> QED BY <1>4, <1>5, <1>6

\* The next cell is the one the reader waits for.
LEMMA FirstOfHs ==
    ASSUME SessionAssumption, SessionInv, NEW s \in Sides, Ready(s), stage[s] < 3
    PROVE  /\ HsSent(s) > HsRead(s) /\ started
           /\ HsCell(s, scheme["client"], First(s), HsRead(s) + 1) /\ First(s).t \in HsKinds
           /\ HsPart(s, scheme["client"], Tail(In(s)), HsRead(s) + 1, (HsSent(s) - HsRead(s)) - 1)
           /\ stage[s] \in 0 .. 2 /\ state[s] = "HANDSHAKEING"
<1> DEFINE sch == scheme["client"]
           n   == HsSent(s) - HsRead(s)
<1>0. Typed /\ Lines /\ Shaking BY DEF SessionInv
<1>1. In(s) \in Seq(Cells) /\ In(s) # <<>> /\ In(s)[1] = First(s) /\ ~gone[s] BY <1>0, InIs
<1>2. /\ HsRead(s) \in Nat /\ HsSent(s) \in Nat /\ HsAll \in Nat
      /\ HsRead(s) <= HsAll /\ (HsRead(s) = HsAll <=> stage[s] = 3)
  BY <1>0, <1>1, HsCounts
<1>3. HsSent(s) >= HsRead(s) /\ HsPart(s, sch, In(s), HsRead(s), n)
      /\ (HsSent(s) < HsAll => Len(In(s)) = n)
  BY <1>0, <1>1 DEF Shaking
<1>4. HsSent(s) > HsRead(s)
  <2>1. SUFFICES ASSUME HsSent(s) = HsRead(s) PROVE FALSE BY <1>2, <1>3
  <2>2. HsSent(s) < HsAll /\ n = 0 BY <1>2, <2>1
  <2>3. Len(In(s)) = 0 BY <1>3, <2>2
  <2> QED BY <1>1, <2>3
<1>5. n \in Nat /\ n > 0 BY <1>2, <1>4
<1> HIDE DEF sch, n
<1>6. HsCell(s, sch, First(s), HsRead(s) + 1) /\ HsPart(s, sch, Tail(In(s)), HsRead(s) + 1, n - 1)
  BY <1>1, <1>2, <1>3, <1>5, HsTail
<1>7. First(s).t \in HsKinds
  <2>1. \E i \in {1, 2, 3} : First(s).t = Expected(s)[i] BY <1>6 DEF HsCell
  <2> QED BY <2>1 DEF Expected, HsKinds
<1>8. stage[s] \in 0 .. 2 /\ state[s] = "HANDSHAKEING" /\ started
  <2>1. stage[s] \in 0 .. 3 BY <1>0 DEF Typed
  <2> QED BY <1>0, <1>1, <2>1, SMTT(30) DEF Shaking, Typed
<1> QED BY <1>4, <1>6, <1>7, <1>8 DEF sch, n

\* What a step of the handshake does to it.
LEMMA ShakingStep ==
    ASSUME SessionAssumption, SessionInv, Typed', Lines', NEW s \in Sides, Ready(s), stage[s] < 3,
           NEW out \in Seq(Cells), UNCHANGED started, scheme'["client"] = scheme["client"],
           stage'[Peer(s)] = stage[Peer(s)], cache'[Peer(s)] = cache[Peer(s)],
           state'[Peer(s)] = state[Peer(s)], stage'[s] = 3 <=> state'[s] # "HANDSHAKEING",
           stage'["server"] >= 2 => scheme'["server"] = scheme'["client"],
           \/ /\ Took(s, out) /\ HsRead(s)' = HsRead(s) + 1
              /\ \/ out = <<>> /\ HsSent(Peer(s))' = HsSent(Peer(s))
                 \/ /\ HsSent(Peer(s)) < HsAll /\ HsSent(Peer(s))' = HsSent(Peer(s)) + Len(out)
                    /\ \A i \in 1 .. Len(out) :
                          HsCell(Peer(s), scheme["client"], out[i], HsSent(Peer(s)) + i)
                 \/ /\ HsSent(Peer(s)) = HsAll /\ HsSent(Peer(s))' = HsAll
                    /\ \A i \in 1 .. Len(out) : out[i].t \notin HsKinds
           \/ Dropped(s) /\ HsSent(Peer(s))' = HsSent(Peer(s))
    PROVE  Shaking'
<1> DEFINE p   == Peer(s)
           sch == scheme["client"]
           n   == HsSent(p) - HsRead(p)
<1>0. /\ Typed /\ Lines /\ Shaking /\ p \in Sides /\ p # s /\ Peer(p) = s /\ In(s) \in Seq(Cells)
      /\ In(s) # <<>> /\ In(p) \in Seq(Cells) /\ ~gone[s] /\ (\A x \in Sides : x = s \/ x = p)
      /\ "server" \in Sides
  BY InIs, SidesAre DEF SessionInv
<1>1. /\ HsSent(s) > HsRead(s) /\ started
      /\ HsPart(s, sch, Tail(In(s)), HsRead(s) + 1, (HsSent(s) - HsRead(s)) - 1)
  BY FirstOfHs
<1>2. \A x \in Sides : HsRead(x) \in Nat /\ HsSent(x) \in Nat /\ HsAll \in Nat BY HsCounts, <1>0
<1>3. HsSent(s)' = HsSent(s) /\ HsRead(p)' = HsRead(p)
  BY <1>0, SidesAre DEF HsSent, HsRead
<1>4. HsSent(s) < HsAll => Len(In(s)) = HsSent(s) - HsRead(s) BY <1>0 DEF Shaking
<1>5. ~gone[p] => /\ HsSent(p) >= HsRead(p) /\ HsPart(p, sch, In(p), HsRead(p), n)
                  /\ HsSent(p) < HsAll => Len(In(p)) = n
  BY <1>0 DEF Shaking
<1> HIDE DEF p, sch
<1>6. ASSUME ~gone'[s]
      PROVE  /\ HsSent(s)' >= HsRead(s)' /\ HsPart(s, sch, In(s)', HsRead(s)', HsSent(s)' - HsRead(s)')
             /\ HsSent(s)' < HsAll => Len(In(s)') = HsSent(s)' - HsRead(s)'
  <2>1. Took(s, out) /\ HsRead(s)' = HsRead(s) + 1 BY <1>0, <1>6 DEF Dropped, Lines
  <2>2. In(s)' = Tail(In(s)) /\ Len(Tail(In(s))) = Len(In(s)) - 1 BY <1>0, <2>1, TailIs DEF Took
  <2>3. HsSent(s)' - HsRead(s)' = (HsSent(s) - HsRead(s)) - 1 BY <1>0, <1>2, <1>3, <2>1
  <2>4. HsPart(s, sch, In(s)', HsRead(s)', HsSent(s)' - HsRead(s)') BY <1>1, <2>1, <2>2, <2>3
  <2>5. HsSent(s)' >= HsRead(s)' BY <1>0, <1>1, <1>2, <1>3, <2>1
  <2>6. HsSent(s) < HsAll => Len(In(s)') = (HsSent(s) - HsRead(s)) - 1
    BY <1>0, <1>2, <1>4, <2>2
  <2> QED BY <1>3, <2>3, <2>4, <2>5, <2>6
<1>7. ASSUME ~gone'[p]
      PROVE  /\ HsSent(p)' >= HsRead(p) /\ HsPart(p, sch, In(p)', HsRead(p), HsSent(p)' - HsRead(p))
             /\ HsSent(p)' < HsAll => Len(In(p)') = HsSent(p)' - HsRead(p)
  <2>1. ~gone[p] BY <1>0, <1>7 DEF Took, Dropped, Lines
  <2>2. /\ HsSent(p) >= HsRead(p) /\ HsPart(p, sch, In(p), HsRead(p), n)
        /\ (HsSent(p) < HsAll => Len(In(p)) = n) /\ n \in Nat
        /\ HsRead(p) \in Nat /\ HsSent(p) \in Nat /\ HsAll \in Nat
    BY <1>0, <1>2, <1>5, <2>1
  <2>3. CASE Dropped(s) /\ HsSent(p)' = HsSent(p)
    <3>1. In(p)' = In(p) BY <2>3 DEF Dropped, p
    <3> QED BY <2>2, <2>3, <3>1
  <2>4. CASE Took(s, out) /\ out = <<>> /\ HsSent(p)' = HsSent(p)
    <3>1. In(p)' = In(p) BY <1>0, <2>4, CatEmpty DEF Took, p
    <3> QED BY <2>2, <2>4, <3>1
  <2>5. CASE /\ Took(s, out) /\ HsSent(p) < HsAll /\ HsSent(p)' = HsSent(p) + Len(out)
             /\ \A i \in 1 .. Len(out) : HsCell(p, sch, out[i], HsSent(p) + i)
    <3>1. In(p)' = In(p) \o out BY <2>5 DEF Took, p
    <3>2. HsRead(p) + n = HsSent(p) /\ Len(out) \in Nat BY <2>2
    <3>3. \A i \in 1 .. Len(out) : HsCell(p, sch, out[i], (HsRead(p) + n) + i) BY <2>5, <3>2
    <3> HIDE DEF n
    <3>4. HsPart(p, sch, In(p) \o out, HsRead(p), n + Len(out)) /\ Len(In(p) \o out) = n + Len(out)
      BY <1>0, <2>2, <2>5, <3>3, HsCat
    <3>5. HsSent(p)' - HsRead(p) = n + Len(out) BY <2>2, <2>5, <3>2 DEF n
    <3>6. HsSent(p)' >= HsRead(p) BY <2>2, <2>5, <3>2
    <3> QED BY <3>1, <3>4, <3>5, <3>6
  <2>6. CASE /\ Took(s, out) /\ HsSent(p) = HsAll /\ HsSent(p)' = HsAll
             /\ \A i \in 1 .. Len(out) : out[i].t \notin HsKinds
    <3>1. In(p)' = In(p) \o out BY <2>6 DEF Took, p
    <3>2. HsPart(p, sch, In(p) \o out, HsRead(p), n) BY <1>0, <2>2, <2>6, HsCat
    <3>3. ~(HsSent(p)' < HsAll) BY <2>2, <2>6
    <3> QED BY <2>2, <2>6, <3>1, <3>2, <3>3
  <2> QED BY <2>3, <2>4, <2>5, <2>6 DEF p, sch
<1>8. ASSUME NEW x \in Sides, ~gone'[x]
      PROVE  /\ HsSent(x)' >= HsRead(x)'
             /\ HsPart(x, scheme'["client"], In(x)', HsRead(x)', HsSent(x)' - HsRead(x)')
             /\ HsSent(x)' < HsAll => Len(In(x)') = HsSent(x)' - HsRead(x)'
  <2>1. scheme'["client"] = sch BY DEF sch
  <2>2. CASE x = s BY <1>6, <1>8, <2>1, <2>2
  <2>3. CASE x = p BY <1>3, <1>7, <1>8, <2>1, <2>3
  <2> QED BY <1>0, <2>2, <2>3
<1>9. \A x \in Sides : stage'[x] = 3 <=> state'[x] # "HANDSHAKEING"
  BY <1>0 DEF Shaking, p
<1> QED BY <1>1, <1>8, <1>9 DEF Shaking

\* What it leaves as it was.
LEMMA HsStep ==
    ASSUME SessionAssumption, SessionInv, Typed', NEW s \in Sides, Ready(s), stage[s] < 3,
           NEW out \in Seq(Cells), Does(s, out), \A i \in 1 .. Len(out) : out[i].t \in HsKinds,
           UNCHANGED <<chunks, flow, role, started, pending, last, streamId, written, verdict>>,
           stage'[Peer(s)] = stage[Peer(s)], state'[Peer(s)] = state[Peer(s)], state'[s] \in Stages
    PROVE  Lines' /\ ChunkSizes' /\ OneToken' /\ Progress' /\ Fits' /\ Told' /\ MediaAfter' /\ Acks'
<1> DEFINE p == Peer(s)
<1>0. /\ Typed /\ Lines /\ Shaking /\ ChunkSizes /\ OneToken /\ Progress /\ Fits /\ Told /\ MediaAfter /\ Acks
      /\ p \in Sides /\ p # s /\ Peer(p) = s /\ In(s) \in Seq(Cells)
      /\ In(p) \in Seq(Cells) /\ (\A x \in Sides : x = s \/ x = p)
      /\ "client" \in Sides /\ "server" \in Sides
  BY InIs, SidesAre DEF SessionInv
<1>1. UNCHANGED <<wsize, rsize, peerWnd, recv, acked, ackSeen>> BY DEF chunks, flow
<1>2. First(s).t \in HsKinds /\ state[s] = "HANDSHAKEING" /\ stage[s] \in 0 .. 2 BY FirstOfHs
<1>3. First(s).t \notin {"SET_CHUNK_SIZE", "ACKNOWLEDGEMENT", "onStatus"} /\ ~IsStart(First(s))
  BY <1>2 DEF HsKinds, IsStart
<1>4. Lines' /\ (Took(s, out) \/ Dropped(s)) BY <1>0, Consumes, Sends DEF Does
<1>5. \A i \in 1 .. Len(out) : out[i].t \notin {"ACKNOWLEDGEMENT", "media"} BY DEF HsKinds
<1>6. Free(out) BY DEF Free, IsToken, HsKinds
<1>7. Sized(out, wsize[s]) /\ EndSize(out, wsize[s]) = wsize[s] BY SizedBatch
<1>8. ChunkSizes' BY <1>0, <1>1, <1>3, <1>4, <1>7, ChunkStep
<1>9. Acks'
  <2>1. peerWnd[s] = 0
    <3>1. stage[s] # 3 BY <1>2
    <3> QED BY <1>0, <3>1 DEF Acks
  <2>2. recv[s] \in Nat BY <1>0 DEF Typed
  <2>3. recv'[s] >= recv[s] BY <1>1, <2>2
  <2> QED BY <1>0, <1>1, <1>3, <1>4, <1>5, <2>1, <2>3, AckStep
<1>10. state[s] \notin Started /\ state'[s] \notin Started
  BY <1>2 DEF Stages, Started
<1>11. Outcome(role, "start") \in Started /\ Outcome(role, "start")' = Outcome(role, "start")
       /\ Outcome(role, verdict)' = Outcome(role, verdict)
  <2>1. role \in {"publish", "play"} BY <1>0 DEF Typed
  <2> QED BY <2>1, OutcomesAre DEF Outcome
<1>12. Told' /\ MediaAfter'
  <2>1. s = "server" => state'["client"] = state["client"] BY SidesAre
  <2>2. s = "client" => ~IsStart(First(s)) /\ state["client"] # Outcome(role, "start") BY <1>3, <1>10, <1>11
  <2> QED BY <1>0, <1>4, <1>5, <2>1, <2>2, TellStep
<1>13. /\ Elems(In(s)') \subseteq Elems(In(s)) /\ Elems(In(p)') \subseteq Elems(In(p)) \cup Elems(out)
       /\ OneToken'
  BY <1>0, <1>4, <1>6, Remaining
<1>14. \A x \in Sides : /\ stage[x] = 3 => stage'[x] = 3
                        /\ state'[x] \in Started => state'[x] = state[x]
                        /\ state[x] \in Started => state'[x] = state[x]
  <2>1. stage[s] # 3 BY <1>2
  <2> QED BY <1>0, <1>10, <2>1
<1>15. Progress'
  <2>1. gone["server"] => gone'["server"] BY <1>0, <1>4 DEF Took, Dropped, Lines
  <2> QED BY <1>0, <1>1, <1>11, <1>14, <2>1 DEF Progress
<1>16. Fits'
  <2>1. \A c : (FitsServer(c) => FitsServer(c)') /\ (FitsClient(c) => FitsClient(c)')
    <3>1. /\ state["client"] = "PUBLISH_START" => state'["client"] = "PUBLISH_START"
          /\ state["server"] = "PLAY_START" => state'["server"] = "PLAY_START"
      BY <1>0, <1>14 DEF Started
    <3> QED BY <1>1, <3>1 DEF FitsServer, FitsClient, Connecting, Creating, Asking
  <2>2. \A c \in Elems(out) : c.t \in HsKinds BY ElemsAre
  <2>3. \A c \in Elems(out) : FitsServer(c)' /\ FitsClient(c)' /\ FitsBoth(c)
    BY <2>2 DEF FitsServer, FitsClient, FitsBoth, HsKinds
  <2>4. /\ Elems(In("server")') \subseteq Elems(In("server")) \cup Elems(out)
        /\ Elems(In("client")') \subseteq Elems(In("client")) \cup Elems(out)
    BY <1>0, <1>13, SidesAre
  <2> QED BY <1>0, <2>1, <2>3, <2>4 DEF Fits, FitsBoth
<1> QED BY <1>4, <1>8, <1>9, <1>12, <1>13, <1>15, <1>16

\* A byte of it that nothing answers.
LEMMA HsConsumed ==
    ASSUME SessionAssumption, SessionInv, Typed', NEW s \in Sides, Ready(s), stage[s] < 3, Consume(s),
           UNCHANGED <<scheme, chunks, flow, role, started, pending, last, streamId, written, verdict>>,
           stage'[Peer(s)] = stage[Peer(s)], cache'[Peer(s)] = cache[Peer(s)],
           state'[Peer(s)] = state[Peer(s)], state'[s] \in Stages,
           stage'[s] = 3 <=> state'[s] # "HANDSHAKEING",
           HsRead(s)' = HsRead(s) + 1, stage'[s] >= 2 <=> stage[s] >= 2
    PROVE  SessionInv'
<1>0. Lines /\ Typed /\ Shaking /\ Peer(s) \in Sides /\ Peer(s) # s /\ (\A x \in Sides : x = s \/ x = Peer(s))
  BY SidesAre DEF SessionInv
<1>1. PICK out \in Seq(Cells) : out = <<>> BY NothingSent
<1>2. Does(s, out) BY <1>1 DEF Does
<1>3. \A i \in 1 .. Len(out) : out[i].t \in HsKinds
  <2>1. Len(out) = 0 BY <1>1, NothingSent
  <2> QED BY <2>1
<1>4. /\ Lines' /\ ChunkSizes' /\ OneToken' /\ Progress' /\ Fits' /\ Told' /\ MediaAfter' /\ Acks'
  BY <1>2, <1>3, HsStep
<1>5. Took(s, out) BY <1>0, <1>1, Consumes
<1>6. HsSent(Peer(s))' = HsSent(Peer(s))
  <2>1. \A x \in Sides : stage[x] \in 0 .. 3 /\ stage'[x] \in 0 .. 3 BY <1>0 DEF Typed
  <2>2. \A x \in Sides : stage'[x] < 2 <=> stage[x] < 2 BY <1>0, <2>1
  <2> QED BY <2>2, SidesAre DEF HsSent
<1>7. stage'["server"] >= 2 => scheme'["server"] = scheme'["client"]
  <2>1. stage'["server"] >= 2 => stage["server"] >= 2 BY <1>0, SidesAre
  <2> QED BY <1>0, <2>1 DEF Shaking
<1>8. Shaking' BY <1>1, <1>4, <1>5, <1>6, <1>7, ShakingStep
<1> QED BY <1>4, <1>8 DEF SessionInv

\* One lemma for each step of the handshake.
LEMMA ReadVersionKept ==
    ASSUME SessionAssumption, SessionInv, NEW s \in Sides, ReadVersion(s)
    PROVE  SessionInv'
<1>0. Typed /\ Lines /\ Peer(s) # s /\ Peer(s) \in Sides BY SidesAre DEF SessionInv
<1>1. /\ Ready(s) /\ stage[s] = 0 /\ stage' = [stage EXCEPT ![s] = 1] /\ Consume(s)
      /\ UNCHANGED <<cache, scheme, chunks, flow, role, started, state, pending, last, streamId, written,
                     verdict>>
  BY DEF ReadVersion, session
<1>2. UNCHANGED <<gone, wsize, rsize, peerWnd, recv, acked, ackSeen>>
  BY <1>1 DEF Consume, ends, chunks, flow
<1>3. stage'[s] = 1 /\ stage'[Peer(s)] = stage[Peer(s)] /\ cache[s] = 0 BY <1>0, <1>1 DEF Typed
<1>4. Typed' BY <1>0, <1>1, <1>2 DEF Typed
<1>5. state[s] = "HANDSHAKEING" BY <1>1, FirstOfHs
<1>6. HsRead(s)' = HsRead(s) + 1 BY <1>1, <1>3 DEF HsRead
<1>7. state'[s] \in Stages BY <1>1, <1>5 DEF Stages
<1> QED BY <1>1, <1>3, <1>4, <1>5, <1>6, <1>7, HsConsumed

LEMMA ReadHandshakeKept ==
    ASSUME SessionAssumption, SessionInv, NEW s \in Sides, ReadHandshake(s)
    PROVE  SessionInv'
<1>0. Typed /\ Lines /\ Peer(s) # s /\ Peer(s) \in Sides BY SidesAre DEF SessionInv
<1>1. /\ Ready(s) /\ stage[s] \in {1, 2} /\ ~Filled(s) /\ cache' = [cache EXCEPT ![s] = @ + 1] /\ Consume(s)
      /\ UNCHANGED <<stage, scheme, chunks, flow, role, started, state, pending, last, streamId, written,
                     verdict>>
  BY DEF ReadHandshake, session
<1>2. UNCHANGED <<gone, wsize, rsize, peerWnd, recv, acked, ackSeen>>
  BY <1>1 DEF Consume, ends, chunks, flow
<1>3. /\ cache'[s] = cache[s] + 1 /\ cache'[Peer(s)] = cache[Peer(s)] /\ cache[s] + 1 < HsLen
      /\ cache[s] \in Nat /\ HsLen \in Nat
  <2>1. cache[s] \in 0 .. HsLen /\ HsLen \in Nat /\ cache[s] + 1 # HsLen
    BY <1>0, <1>1 DEF Typed, Filled, SessionAssumption
  <2>2. cache[s] < HsLen BY <1>0, <1>1, InIs DEF Typed
  <2> QED BY <1>0, <1>1, <2>1, <2>2 DEF Typed
<1>4. Typed'
  <2>1. cache' \in [Sides -> 0 .. HsLen] BY <1>0, <1>1, <1>3 DEF Typed
  <2>2. ASSUME NEW x \in Sides
        PROVE  (~gone[x] => cache'[x] < HsLen) /\ (stage[x] \in {0, 3} => cache'[x] = 0)
    BY <1>0, <1>1, <1>3 DEF Typed
  <2> QED BY <1>0, <1>1, <1>2, <2>1, <2>2 DEF Typed
<1>5. state[s] = "HANDSHAKEING" BY <1>1, FirstOfHs
<1>6. HsRead(s)' = HsRead(s) + 1 BY <1>1, <1>3 DEF HsRead
<1>7. state'[s] \in Stages /\ (stage'[s] = 3 <=> state'[s] # "HANDSHAKEING") BY <1>1, <1>5 DEF Stages
<1>8. stage[s] < 3 BY <1>1
<1> QED BY <1>1, <1>3, <1>4, <1>6, <1>7, <1>8, HsConsumed

LEMMA ServerShakenKept ==
    ASSUME SessionAssumption, SessionInv, ServerShaken
    PROVE  SessionInv'
<1> DEFINE s == "server"
<1>0. Typed /\ Lines /\ s \in Sides /\ Peer(s) # s /\ Peer(s) \in Sides BY SidesAre DEF SessionInv
<1>1. /\ Ready(s) /\ stage[s] = 2 /\ Filled(s) /\ cache' = [cache EXCEPT ![s] = 0] /\ Consume(s)
      /\ stage' = [stage EXCEPT ![s] = 3] /\ state' = [state EXCEPT ![s] = "HANDSHAKE_DONE"]
      /\ UNCHANGED <<scheme, chunks, flow, role, started, pending, last, streamId, written, verdict>>
  BY DEF ServerShaken, ChangeState
<1> HIDE DEF s
<1>2. UNCHANGED <<gone, wsize, rsize, peerWnd, recv, acked, ackSeen>>
  BY <1>1 DEF Consume, ends, chunks, flow
<1>3. /\ cache'[s] = 0 /\ cache'[Peer(s)] = cache[Peer(s)] /\ stage'[s] = 3 /\ stage'[Peer(s)] = stage[Peer(s)]
      /\ state'[s] = "HANDSHAKE_DONE" /\ state'[Peer(s)] = state[Peer(s)]
  BY <1>0, <1>1 DEF Typed
<1>4. Typed'
  <2>1. "HANDSHAKE_DONE" \in Stages /\ HsLen \in Nat \ {0} BY DEF Stages, SessionAssumption
  <2>2. cache' \in [Sides -> 0 .. HsLen] /\ state' \in [Sides -> Stages \cup Started \cup Failed]
    BY <1>0, <1>1, <2>1 DEF Typed
  <2> QED BY <1>0, <1>1, <1>2, <2>1, <2>2 DEF Typed
<1>5. HsRead(s)' = HsRead(s) + 1
  <2>1. cache[s] + 1 = HsLen /\ HsLen \in Nat /\ cache[s] \in Nat
    BY <1>0, <1>1 DEF Filled, Typed, SessionAssumption
  <2> QED BY <1>1, <1>3, <2>1 DEF HsRead, HsAll
<1>6. state'[s] \in Stages /\ (stage'[s] = 3 <=> state'[s] # "HANDSHAKEING") BY <1>3 DEF Stages
<1>7. stage[s] < 3 /\ (stage'[s] >= 2 <=> stage[s] >= 2) BY <1>1, <1>3
<1> QED BY <1>0, <1>1, <1>3, <1>4, <1>5, <1>6, <1>7, HsConsumed

\* A version and a first part, as a side opens with, and a second part after it.
LEMMA OpeningIs ==
    ASSUME SessionAssumption, NEW s \in Sides, NEW v \in Words
    PROVE  LET out == <<Cell(Expected(s)[1], 0, 0)>> \o Hs(Expected(s)[2], v) IN
           /\ out \in Seq(Cells) /\ Len(out) = 1 + HsLen
           /\ \A i \in 1 .. Len(out) : HsCell(s, v, out[i], i) /\ out[i].t \in HsKinds
<1> DEFINE e   == Expected(s)
           a   == Cell(e[1], 0, 0)
           b   == Hs(e[2], v)
<1>1. HsLen \in Nat \ {0} BY DEF SessionAssumption
<1>2. e[1] \in HsKinds /\ e[2] \in HsKinds BY DEF Expected, HsKinds
<1> HIDE DEF e
<1>3. a \in Cells /\ a.t = e[1]
  <2>1. e[1] \in Kinds /\ 0 \in Values /\ 0 \in Nat BY <1>2, ValuesAre DEF Kinds
  <2> QED BY <2>1, CellIs
<1>4. b \in Seq(Cells) /\ Len(b) = HsLen /\ \A i \in 1 .. HsLen : b[i].t = e[2] /\ b[i].v = v
  BY <1>2, HsAre
<1>5. <<a>> \in Seq(Cells) /\ Len(<<a>>) = 1 /\ <<a>>[1] = a BY <1>3, Batch1
<1> HIDE DEF a, b
<1>6. PICK q : q = <<a>> OBVIOUS
<1>7. /\ q \o b \in Seq(Cells) /\ Len(q \o b) = 1 + HsLen
      /\ (q \o b)[1] = a /\ \A i \in 2 .. (1 + HsLen) : (q \o b)[i] = b[i - 1]
  <2>1. /\ q \o b \in Seq(Cells) /\ Len(q \o b) = Len(q) + Len(b)
        /\ \A i \in 1 .. Len(q) : (q \o b)[i] = q[i]
        /\ \A i \in (Len(q) + 1) .. (Len(q) + Len(b)) : (q \o b)[i] = b[i - Len(q)]
    BY <1>4, <1>5, <1>6, CatIs
  <2>2. 1 \in 1 .. 1 /\ Len(q) = 1 /\ Len(b) = HsLen /\ q[1] = a BY <1>4, <1>5, <1>6
  <2> QED BY <2>1, <2>2
<1>8. ASSUME NEW i \in 1 .. (1 + HsLen)
      PROVE  HsCell(s, v, (q \o b)[i], i) /\ (q \o b)[i].t \in HsKinds
  <2>1. CASE i = 1 BY <1>2, <1>3, <1>7, <2>1 DEF HsCell, e
  <2>2. CASE i # 1
    <3>1. i \in 2 .. (1 + HsLen) /\ i - 1 \in 1 .. HsLen /\ i <= 1 + HsLen BY <1>1, <2>2
    <3>2. (q \o b)[i].t = e[2] /\ (q \o b)[i].v = v BY <1>4, <1>7, <3>1
    <3> QED BY <1>2, <2>2, <3>1, <3>2 DEF HsCell, e
  <2> QED BY <2>1, <2>2
<1> QED BY <1>6, <1>7, <1>8 DEF a, b, e

\* The last part of the handshake, as the cells it consists of.
LEMMA ClosingIs ==
    ASSUME SessionAssumption, NEW s \in Sides, NEW v \in Words
    PROVE  LET out == Hs(Expected(s)[3], v) IN
           /\ out \in Seq(Cells) /\ Len(out) = HsLen
           /\ \A i \in 1 .. Len(out) : HsCell(s, v, out[i], (1 + HsLen) + i) /\ out[i].t \in HsKinds
<1> DEFINE e   == Expected(s)
           out == Hs(e[3], v)
<1>1. HsLen \in Nat \ {0} BY DEF SessionAssumption
<1>2. e[3] \in HsKinds BY DEF Expected, HsKinds
<1> HIDE DEF e
<1>3. out \in Seq(Cells) /\ Len(out) = HsLen /\ \A i \in 1 .. HsLen : out[i].t = e[3] /\ out[i].v = v
  BY <1>2, HsAre
<1> HIDE DEF out
<1>4. ASSUME NEW i \in 1 .. HsLen
      PROVE  HsCell(s, v, out[i], (1 + HsLen) + i) /\ out[i].t \in HsKinds
  <2>1. (1 + HsLen) + i # 1 /\ ~((1 + HsLen) + i <= 1 + HsLen) BY <1>1
  <2> QED BY <1>2, <1>3, <2>1 DEF HsCell, e
<1> QED BY <1>3, <1>4 DEF out, e

\* An answer is all of the handshake its reader has not been sent.
LEMMA AnswerIs ==
    ASSUME SessionAssumption, SessionInv, NEW s \in Sides, Ready(s), stage[s] = 1, Filled(s)
    PROVE  /\ First(s).v = scheme["client"] /\ Answer(s) \in Seq(Cells)
           /\ HsSent(Peer(s)) < HsAll /\ HsSent(Peer(s)) + Len(Answer(s)) = HsAll
           /\ \A i \in 1 .. Len(Answer(s)) :
                 /\ HsCell(Peer(s), scheme["client"], Answer(s)[i], HsSent(Peer(s)) + i)
                 /\ Answer(s)[i].t \in HsKinds
<1> DEFINE sch == scheme["client"]
<1>0. Typed /\ HsLen \in Nat \ {0} BY DEF SessionInv, SessionAssumption
<1>1. started /\ HsCell(s, sch, First(s), HsRead(s) + 1) BY FirstOfHs
<1>2. First(s).v = sch
  <2>1. HsRead(s) + 1 # 1
    <3>1. cache[s] \in 0 .. HsLen BY <1>0 DEF Typed
    <3> QED BY <1>0, <3>1 DEF HsRead
  <2> QED BY <1>1, <2>1 DEF HsCell
<1>3. sch \in Words BY <1>0, SidesAre DEF Typed, Words
<1> HIDE DEF sch
<1>4. CASE s = "client"
  <2>1. Answer(s) = Hs("c2", sch) BY <1>4 DEF Answer, sch
  <2>2. Expected("server")[3] = "c2" /\ "server" \in Sides /\ Peer(s) = "server"
    BY <1>4, SidesAre DEF Expected
  <2>3. HsSent("server") = 1 + HsLen BY <1>1, <1>4 DEF HsSent
  <2> HIDE DEF Answer
  <2>4. /\ Answer(s) \in Seq(Cells) /\ Len(Answer(s)) = HsLen
        /\ \A i \in 1 .. Len(Answer(s)) : /\ HsCell("server", sch, Answer(s)[i], (1 + HsLen) + i)
                                          /\ Answer(s)[i].t \in HsKinds
    BY <1>3, <2>1, <2>2, ClosingIs
  <2> QED BY <1>0, <1>2, <2>2, <2>3, <2>4 DEF HsAll, sch
<1>5. CASE s = "server"
  <2> DEFINE q == <<Cell("s0", 0, 0)>> \o Hs("s1", sch)
             b == Hs("s2", sch)
  <2>1. Answer(s) = q \o b BY <1>2, <1>5 DEF Answer, CheckC1
  <2>2. /\ Expected("client")[1] = "s0" /\ Expected("client")[2] = "s1" /\ Expected("client")[3] = "s2"
        /\ "client" \in Sides /\ Peer(s) = "client"
    BY <1>5, SidesAre DEF Expected
  <2>3. HsSent("client") = 0 BY <1>5 DEF HsSent
  <2>4. /\ q \in Seq(Cells) /\ Len(q) = 1 + HsLen
        /\ \A i \in 1 .. Len(q) : HsCell("client", sch, q[i], i) /\ q[i].t \in HsKinds
    BY <1>3, <2>2, OpeningIs
  <2>5. /\ b \in Seq(Cells) /\ Len(b) = HsLen
        /\ \A i \in 1 .. Len(b) : HsCell("client", sch, b[i], (1 + HsLen) + i) /\ b[i].t \in HsKinds
    BY <1>3, <2>2, ClosingIs
  <2> HIDE DEF q, b
  <2>6. /\ q \o b \in Seq(Cells) /\ Len(q \o b) = Len(q) + Len(b)
        /\ \A i \in 1 .. Len(q) : (q \o b)[i] = q[i]
        /\ \A i \in (Len(q) + 1) .. (Len(q) + Len(b)) : (q \o b)[i] = b[i - Len(q)]
    BY <2>4, <2>5, CatIs
  <2>7. Len(q \o b) = HsAll /\ 0 < HsAll BY <1>0, <2>4, <2>5, <2>6 DEF HsAll
  <2>8. ASSUME NEW i \in 1 .. Len(q \o b)
        PROVE  HsCell("client", sch, (q \o b)[i], 0 + i) /\ (q \o b)[i].t \in HsKinds
    <3>1. CASE i <= Len(q)
      <4>1. i \in 1 .. Len(q) /\ 0 + i = i BY <1>0, <2>4, <3>1
      <4> QED BY <2>4, <2>6, <4>1
    <3>2. CASE i > Len(q)
      <4>1. /\ i \in (Len(q) + 1) .. (Len(q) + Len(b)) /\ i - Len(q) \in 1 .. Len(b)
            /\ (1 + HsLen) + (i - Len(q)) = 0 + i
        BY <1>0, <2>4, <2>5, <2>6, <3>2
      <4> QED BY <2>5, <2>6, <4>1
    <3> QED BY <1>0, <2>4, <3>1, <3>2
  <2>9. 0 + Len(q \o b) = HsAll BY <1>0, <2>7 DEF HsAll
  <2> QED BY <1>2, <2>1, <2>2, <2>3, <2>6, <2>7, <2>8, <2>9 DEF sch
<1> QED BY <1>4, <1>5, SidesAre

\* Each side answers the other in its scheme.
LEMMA AnswerHandshakeKept ==
    ASSUME SessionAssumption, SessionInv, NEW s \in Sides, AnswerHandshake(s)
    PROVE  SessionInv'
<1> DEFINE p   == Peer(s)
           sch == scheme["client"]
<1>0. Typed /\ Lines /\ Shaking /\ p # s /\ p \in Sides /\ HsLen \in Nat \ {0}
  BY SidesAre DEF SessionInv, SessionAssumption
<1>1. /\ Ready(s) /\ stage[s] = 1 /\ Filled(s)
      /\ scheme' = [scheme EXCEPT ![s] = IF s = "server" THEN First(s).v ELSE @]
      /\ UNCHANGED <<chunks, flow, role, started, state, pending, last, streamId, written, verdict>>
  BY DEF AnswerHandshake, CheckC1, session
<1>2. PICK out : out = Answer(s) OBVIOUS
<1>3. /\ First(s).v = sch /\ out \in Seq(Cells) /\ HsSent(p) < HsAll /\ HsSent(p) + Len(out) = HsAll
      /\ \A i \in 1 .. Len(out) : HsCell(p, sch, out[i], HsSent(p) + i) /\ out[i].t \in HsKinds
  BY <1>1, <1>2, AnswerIs
<1>4. \/ Send(s, out) /\ stage' = [stage EXCEPT ![s] = 2] /\ cache' = [cache EXCEPT ![s] = 0]
      \/ SendFails(s) /\ cache' = [cache EXCEPT ![s] = HsLen] /\ stage' = stage
  BY <1>2 DEF AnswerHandshake
<1>5. Does(s, out) BY <1>4 DEF Does
<1>6. UNCHANGED <<wsize, rsize, peerWnd, recv, acked, ackSeen>> BY <1>1 DEF chunks, flow
<1>7. /\ scheme'["client"] = sch /\ (s = "server" => scheme'["server"] = sch)
      /\ scheme' \in [Sides -> {"simple", "schema0", "schema1"}]
  BY <1>0, <1>1, <1>3, SidesAre DEF Typed
<1>8. /\ cache'[p] = cache[p] /\ stage'[p] = stage[p] /\ stage'[s] \in {1, 2}
      /\ stage' \in [Sides -> 0 .. 3] /\ cache' \in [Sides -> 0 .. HsLen]
  BY <1>0, <1>1, <1>4 DEF Typed
<1>9. Typed'
  <2>1. ASSUME NEW x \in Sides
        PROVE  /\ ~gone'[x] => cache'[x] < HsLen
               /\ stage'[x] \in {0, 3} => cache'[x] = 0
    <3>1. CASE x = s
      <4>1. ~gone'[s] => cache'[s] < HsLen
        <5>1. CASE Send(s, out) /\ cache' = [cache EXCEPT ![s] = 0] BY <1>0, <5>1 DEF Typed
        <5>2. CASE SendFails(s) BY <1>0, <5>2 DEF SendFails, Lines
        <5> QED BY <1>4, <5>1, <5>2
      <4> QED BY <1>8, <3>1, <4>1
    <3>2. CASE x # s
      <4>1. gone'[x] = gone[x]
        BY <1>0, <1>4, <3>2 DEF Send, SendFails, ends, Lines
      <4>2. cache'[x] = cache[x] /\ stage'[x] = stage[x] BY <1>0, <1>4, <3>2 DEF Typed
      <4> QED BY <1>0, <4>1, <4>2 DEF Typed
    <3> QED BY <3>1, <3>2
  <2> QED BY <1>0, <1>1, <1>6, <1>7, <1>8, <2>1 DEF Typed
<1>10. state[s] = "HANDSHAKEING" /\ started BY <1>1, FirstOfHs
<1> HIDE DEF p, sch
<1>11. /\ Lines' /\ ChunkSizes' /\ OneToken' /\ Progress' /\ Fits' /\ Told' /\ MediaAfter' /\ Acks'
  <2>1. state'[s] \in Stages /\ state'[Peer(s)] = state[Peer(s)] BY <1>1, <1>10 DEF Stages
  <2>2. stage[s] < 3 BY <1>1
  <2> QED BY <1>1, <1>3, <1>5, <1>8, <1>9, <2>1, <2>2, HsStep DEF p
<1>12. stage'["server"] >= 2 => scheme'["server"] = scheme'["client"]
  <2>1. CASE s = "server" BY <1>7, <2>1
  <2>2. CASE s = "client"
    <3>1. stage'["server"] = stage["server"] /\ scheme'["server"] = scheme["server"]
      BY <1>0, <1>1, <1>8, <2>2, SidesAre DEF Typed, p
    <3> QED BY <1>0, <1>7, <3>1 DEF Shaking, sch
  <2> QED BY <2>1, <2>2, SidesAre
<1>13. \/ Took(s, out) /\ HsRead(s)' = HsRead(s) + 1 /\ HsSent(p)' = HsSent(p) + Len(out)
       \/ Dropped(s) /\ HsSent(p)' = HsSent(p)
  <2>1. CASE /\ Send(s, out) /\ stage' = [stage EXCEPT ![s] = 2] /\ cache' = [cache EXCEPT ![s] = 0]
    <3>1. Took(s, out)
      <4>1. works[s] BY <2>1 DEF Send
      <4> QED BY <1>0, <1>1, <1>3, <2>1, <4>1, Sends DEF Dropped
    <3>2. stage'[s] = 2 /\ cache'[s] = 0 BY <1>0, <2>1 DEF Typed
    <3>3. HsRead(s)' = HsRead(s) + 1
      <4>1. cache[s] + 1 = HsLen /\ cache[s] \in Nat BY <1>0, <1>1 DEF Filled, Typed
      <4> QED BY <1>0, <1>1, <3>2, <4>1 DEF HsRead
    <3>4. HsSent(p)' = HsAll
      <4>1. started' BY <1>1, <1>10
      <4> QED BY <1>0, <3>2, <4>1, SidesAre DEF HsSent, p
    <3> QED BY <1>3, <3>1, <3>3, <3>4
  <2>2. CASE SendFails(s) /\ stage' = stage
    <3>1. Dropped(s)
      <4>1. ~works[s] BY <2>2 DEF SendFails
      <4>2. gone' = [gone EXCEPT ![s] = TRUE] /\ ~gone[s] BY <1>0, <1>1, <2>2, InIs DEF SendFails
      <4>3. gone' # gone BY <1>0, <4>2 DEF Lines
      <4> QED BY <1>0, <1>1, <1>3, <2>2, <4>3, Sends DEF Took
    <3>2. HsSent(p)' = HsSent(p) BY <1>1, <2>2 DEF HsSent
    <3> QED BY <3>1, <3>2
  <2> QED BY <1>4, <2>1, <2>2
<1>14. Shaking'
  <2>1. state'[s] = "HANDSHAKEING" /\ state'[p] = state[p] /\ stage'[s] # 3 /\ stage[s] < 3
    BY <1>1, <1>8, <1>10
  <2> QED BY <1>1, <1>3, <1>7, <1>8, <1>9, <1>11, <1>12, <1>13, <2>1, ShakingStep DEF p, sch
<1> QED BY <1>9, <1>11, <1>14 DEF SessionInv

\* The client opens: nothing is under way yet.
LEMMA StartKept ==
    ASSUME SessionAssumption, SessionInv, Start
    PROVE  SessionInv'
<1> DEFINE sch == scheme["client"]
<1>0. /\ Typed /\ Lines /\ Shaking /\ ChunkSizes /\ OneToken /\ Progress /\ Fits /\ Told /\ MediaAfter /\ Acks
      /\ "client" \in Sides /\ "server" \in Sides /\ Peer("client") = "server" /\ Peer("server") = "client"
      /\ HsLen \in Nat \ {0}
  BY SidesAre DEF SessionInv, SessionAssumption
<1>1. /\ ~started /\ works["client"] /\ started' = TRUE
      /\ wire' = [wire EXCEPT !["server"] = (@ \o <<Cell("c0", 0, 0)>>) \o Hs("c1", sch)]
      /\ UNCHANGED <<data, busy, stage, cache, scheme, wsize, rsize, peerWnd, recv, acked, ackSeen, works,
                     gone, role, state, pending, last, streamId, written, verdict>>
  BY DEF Start, shake, chunks, flow, ends
<1>2. PICK out : out = <<Cell("c0", 0, 0)>> \o Hs("c1", sch) OBVIOUS
<1>3. /\ out \in Seq(Cells) /\ Len(out) = 1 + HsLen
      /\ \A i \in 1 .. Len(out) : HsCell("server", sch, out[i], i) /\ out[i].t \in HsKinds
  <2>1. Expected("server")[1] = "c0" /\ Expected("server")[2] = "c1" BY DEF Expected
  <2>2. sch \in Words BY <1>0 DEF Typed, Words
  <2> HIDE DEF sch
  <2> QED BY <1>0, <1>2, <2>1, <2>2, OpeningIs
<1>4. wire' = [wire EXCEPT !["server"] = @ \o out]
  <2>1. <<Cell("c0", 0, 0)>> \in Seq(Cells) /\ Hs("c1", sch) \in Seq(Cells)
    <3>1. "c0" \in Kinds /\ 0 \in Values /\ 0 \in Nat BY KindsAre, ValuesAre
    <3>2. Cell("c0", 0, 0) \in Cells BY <3>1, CellIs
    <3>3. "c1" \in HsKinds /\ sch \in Words BY <1>0 DEF HsKinds, Typed, Words
    <3> HIDE DEF sch
    <3> QED BY <3>2, <3>3, HsAre, Batch1
  <2>2. wire["server"] \in Seq(Cells) BY <1>0 DEF Lines
  <2>3. (wire["server"] \o <<Cell("c0", 0, 0)>>) \o Hs("c1", sch) = wire["server"] \o out
    BY <1>2, <2>1, <2>2, CatAssoc
  <2> QED BY <1>0, <1>1, <2>3 DEF Lines
<1>5. /\ In("server")' = In("server") \o out /\ In("client")' = In("client")
      /\ wire' \in [Sides -> Seq(Cells)] /\ data' \in [Sides -> Seq(Cells)]
  BY <1>0, <1>1, <1>3, <1>4, AddsTo
<1>6. In("server") = <<>> /\ In("client") = <<>> /\ (\A s \in Sides : stage[s] = 0)
  BY <1>0, <1>1 DEF Shaking
<1>16. In("server") \in Seq(Cells) BY <1>0, InIs
<1>7. In("server")' = out BY <1>3, <1>5, <1>6, CatEmpty
<1> HIDE DEF sch
<1>8. Typed' /\ Lines' BY <1>0, <1>1, <1>5 DEF Typed, Lines
<1>9. Shaking'
  <2>1. /\ \A s \in Sides : HsRead(s)' = 0
        /\ HsSent("server")' = 1 + HsLen /\ HsSent("client")' = 0
    <3>1. stage' = stage /\ started' = TRUE /\ stage["client"] = 0 /\ stage["server"] = 0
      BY <1>0, <1>1, <1>6
    <3>2. \A s \in Sides : HsRead(s)' = 0 BY <1>6, <3>1 DEF HsRead
    <3>3. HsSent("server")' = 1 + HsLen BY <3>1 DEF HsSent
    <3>4. HsSent("client")' = 0 BY <3>1 DEF HsSent
    <3> QED BY <3>2, <3>3, <3>4
  <2>2. HsPart("server", sch, out, 0, 1 + HsLen)
    <3>1. \A i \in 1 .. Len(out) : HsCell("server", sch, out[i], 0 + i)
      <4>1. \A i \in 1 .. Len(out) : 0 + i = i BY <1>0, <1>3
      <4> QED BY <1>3, <4>1
    <3>2. \A i \in 1 .. Len(out) : i <= 1 + HsLen BY <1>0, <1>3
    <3> QED BY <1>0, <1>3, <3>1, <3>2 DEF HsPart
  <2>3. HsPart("client", sch, In("client")', 0, 0) /\ Len(In("client")') = 0
    <3>1. Len(<<>>) = 0 OBVIOUS
    <3>2. \A i \in 1 .. 0 : FALSE OBVIOUS
    <3> QED BY <1>5, <1>6, <3>1, <3>2 DEF HsPart
  <2>4. \A s \in Sides : /\ HsSent(s)' >= HsRead(s)'
                         /\ HsPart(s, scheme'["client"], In(s)', HsRead(s)', HsSent(s)' - HsRead(s)')
                         /\ HsSent(s)' < HsAll => Len(In(s)') = HsSent(s)' - HsRead(s)'
    <3>1. (1 + HsLen) - 0 = 1 + HsLen /\ 1 + HsLen >= 0 /\ 0 - 0 = 0 /\ 0 >= 0 BY <1>0
    <3>2. scheme'["client"] = sch BY <1>1 DEF sch
    <3>3. CASE TRUE
      <4>1. /\ HsSent("server")' >= HsRead("server")'
            /\ HsPart("server", scheme'["client"], In("server")', HsRead("server")',
                      HsSent("server")' - HsRead("server")')
            /\ Len(In("server")') = HsSent("server")' - HsRead("server")'
        BY <1>0, <1>3, <1>7, <2>1, <2>2, <3>1, <3>2
      <4>2. /\ HsSent("client")' >= HsRead("client")'
            /\ HsPart("client", scheme'["client"], In("client")', HsRead("client")',
                      HsSent("client")' - HsRead("client")')
            /\ Len(In("client")') = HsSent("client")' - HsRead("client")'
        BY <1>0, <2>1, <2>3, <3>1, <3>2
      <4> QED BY <4>1, <4>2, SidesAre
    <3> QED BY <3>3
  <2> QED BY <1>0, <1>1, <2>4 DEF Shaking
<1>10. ChunkSizes'
  <2>1. Sized(out, wsize["client"]) /\ EndSize(out, wsize["client"]) = wsize["client"]
    BY <1>3, SizedBatch
  <2>2. ~gone["server"] => /\ Sized(In("server")', rsize["server"])
                           /\ wsize["client"] = EndSize(In("server")', rsize["server"])
    <3>1. ~gone["server"] => /\ Sized(In("server"), rsize["server"])
                             /\ wsize["client"] = EndSize(In("server"), rsize["server"])
      BY <1>0, <1>1 DEF ChunkSizes
    <3>2. ASSUME NEW n, Sized(In("server"), n), wsize["client"] = EndSize(In("server"), n)
          PROVE  /\ Sized(In("server") \o out, n)
                 /\ wsize["client"] = EndSize(In("server") \o out, n)
      <4>1. Sized(out, EndSize(In("server"), n)) BY <2>1, <3>2
      <4> QED BY <1>3, <1>16, <2>1, <3>2, <4>1, SizedCat
    <3> QED BY <1>5, <3>1, <3>2
  <2>3. ~gone["client"] => /\ Sized(In("client")', rsize["client"])
                           /\ works["server"] => wsize["server"] = EndSize(In("client")', rsize["client"])
    BY <1>0, <1>5 DEF ChunkSizes
  <2> QED BY <1>0, <1>1, <2>2, <2>3, SidesAre DEF ChunkSizes
<1>11. OneToken'
  <2>1. Free(out) BY <1>3 DEF Free, IsToken, HsKinds
  <2>2. (Free(In("server")) => Free(In("server")')) /\ (Single(In("server")) => Single(In("server")'))
    BY <1>3, <1>5, <1>16, <2>1, TokenCat, ZenonT(30)
  <2> QED BY <1>0, <1>5, <2>2 DEF OneToken
<1>12. Progress' BY <1>0, <1>1 DEF Progress, Outcome
<1>13. Fits'
  <2>1. \A c : (FitsServer(c) => FitsServer(c)') /\ (FitsClient(c) => FitsClient(c)')
    BY <1>1 DEF FitsServer, FitsClient, Connecting, Creating, Asking
  <2>2. \A c \in Elems(out) : c.t \in HsKinds BY <1>3, ElemsAre
  <2>3. \A c \in Elems(out) : FitsServer(c)' /\ FitsBoth(c)
    BY <2>2 DEF FitsServer, FitsBoth, HsKinds
  <2> QED BY <1>0, <1>5, <1>7, <2>1, <2>3 DEF Fits, FitsBoth
<1>14. Told' /\ MediaAfter' BY <1>0, <1>1, <1>5 DEF Told, MediaAfter, Outcome
<1>15. Acks'
  <2>1. \A i \in 1 .. Len(out) : out[i].t # "ACKNOWLEDGEMENT" BY <1>3 DEF HsKinds
  <2>2. LastAck(In("server"), ackSeen["server"], acked["client"]) =>
            LastAck(In("server")', ackSeen["server"], acked["client"])
    BY <1>3, <1>5, <1>16, <2>1, AckCat
  <2> QED BY <1>0, <1>1, <1>5, <2>2, SidesAre DEF Acks
<1> QED BY <1>8, <1>9, <1>10, <1>11, <1>12, <1>13, <1>14, <1>15 DEF SessionInv

\* The client ends its handshake and begins the exchange of commands.
LEMMA ClientShakenKept ==
    ASSUME SessionAssumption, SessionInv, ClientShaken
    PROVE  SessionInv'
<1> DEFINE s == "client"
           a == Cell("connect", wsize[s], 1)
<1>0. /\ Typed /\ Lines /\ Shaking /\ ChunkSizes /\ OneToken /\ Progress /\ Fits /\ Told /\ MediaAfter /\ Acks
      /\ s \in Sides /\ "server" \in Sides /\ Peer(s) = "server" /\ "server" # s
      /\ HsLen \in Nat \ {0} /\ In(s) \in Seq(Cells) /\ In("server") \in Seq(Cells)
  BY SidesAre, InIs DEF SessionInv, SessionAssumption
<1>1. /\ Ready(s) /\ stage[s] = 2 /\ Filled(s) /\ stage' = [stage EXCEPT ![s] = 3]
      /\ cache' = [cache EXCEPT ![s] = 0] /\ state' = [state EXCEPT ![s] = "CONNECTING"]
      /\ UNCHANGED <<scheme, chunks, flow, role, started, pending, streamId, written, verdict>>
  BY DEF ClientShaken, ChangeState
<1>2. \/ Send(s, <<a>>) /\ last' = [method |-> "CONNECT", tid |-> 1]
      \/ SendFails(s) /\ last' = last
  BY DEF ClientShaken
<1>3. UNCHANGED <<wsize, rsize, peerWnd, recv, acked, ackSeen>> BY <1>1 DEF chunks, flow
<1>4. a \in Cells /\ a.t = "connect" /\ a.size = wsize[s] /\ a.v = 1
  <2>1. 1 \in Values /\ wsize[s] \in Nat BY <1>0, ValuesAre, SizesAre
  <2> QED BY <2>1, CellIs, KindsAre
<1> HIDE DEF a, s
<1>5. PICK out : out = <<a>> OBVIOUS
<1>6. out \in Seq(Cells) /\ Len(out) = 1 /\ out[1] = a /\ Elems(out) = {a} BY <1>4, <1>5, Batch1
<1>7. \A i \in 1 .. Len(out) : i = 1 /\ out[i] = a BY <1>6
<1>8. /\ Does(s, out)
      /\ \/ Send(s, out) /\ last' = [method |-> "CONNECT", tid |-> 1]
         \/ SendFails(s) /\ last' = last
  BY <1>2, <1>5 DEF Does
<1>9. /\ cache'[s] = 0 /\ cache'["server"] = cache["server"] /\ stage'[s] = 3
      /\ stage'["server"] = stage["server"] /\ state'[s] = "CONNECTING"
      /\ state'["server"] = state["server"] /\ cache[s] + 1 = HsLen /\ cache[s] \in Nat
  BY <1>0, <1>1 DEF Typed, Filled
\* Until now it has sent no command.
<1>10. /\ last.tid = 0 /\ last.method = "CONNECT" /\ streamId = 0 /\ verdict = "none" /\ started
       /\ state[s] = "HANDSHAKEING" /\ First(s).t \in HsKinds
  <2>1. started /\ state[s] = "HANDSHAKEING" /\ First(s).t \in HsKinds BY <1>0, <1>1, FirstOfHs
  <2>2. last.tid = 0 BY <1>0, <1>1 DEF Progress, s
  <2> QED BY <1>0, <2>1, <2>2 DEF Progress
<1>11. /\ Lines' /\ (Took(s, out) \/ Dropped(s))
       /\ Send(s, out) => Took(s, out)
       /\ SendFails(s) => Dropped(s)
  <2>1. Lines' /\ (Took(s, out) \/ Dropped(s)) BY <1>0, <1>1, <1>6, <1>8, Sends
  <2>2. Send(s, out) => ~Dropped(s) BY DEF Send, Dropped
  <2>3. SendFails(s) => ~Took(s, out)
    <3>1. ~gone[s] BY <1>0, <1>1, InIs
    <3>2. SendFails(s) => gone'[s] BY <1>0 DEF SendFails, Lines
    <3> QED BY <3>1, <3>2 DEF Took
  <2> QED BY <2>1, <2>2, <2>3
<1>12. Typed'
  <2>1. "CONNECTING" \in Stages BY DEF Stages
  <2>2. cache' \in [Sides -> 0 .. HsLen] /\ state' \in [Sides -> Stages \cup Started \cup Failed]
        /\ stage' \in [Sides -> 0 .. 3]
    BY <1>0, <1>1, <2>1 DEF Typed
  <2>3. last' \in [method : {"CONNECT", "CREATE_STREAM", "GET_STREAM_LENGTH"}, tid : 0 .. 3]
    BY <1>0, <1>8 DEF Typed
  <2>4. gone'["server"] = gone["server"] BY <1>0, <1>11 DEF Took, Dropped, Lines
  <2>5. \A x \in Sides : (~gone'[x] => cache'[x] < HsLen) /\ (stage'[x] \in {0, 3} => cache'[x] = 0)
    BY <1>0, <1>9, <2>4, SidesAre DEF Typed, s
  <2> QED BY <1>0, <1>1, <1>3, <2>2, <2>3, <2>5 DEF Typed
<1>13. Shaking'
  <2>1. HsRead(s)' = HsRead(s) + 1
    <3>1. stage[s] = 2 /\ stage'[s] = 3 /\ cache[s] + 1 = HsLen /\ cache[s] \in Nat /\ HsLen \in Nat
      BY <1>0, <1>1, <1>9
    <3> QED BY <3>1 DEF HsRead, HsAll
  <2>2. HsSent("server") = HsAll /\ HsSent("server")' = HsAll
    <3>1. started' BY <1>1, <1>10
    <3> QED BY <1>1, <1>9, <1>10, <3>1 DEF HsSent, s
  <2>3. \A i \in 1 .. Len(out) : out[i].t \notin HsKinds BY <1>4, <1>7 DEF HsKinds
  <2>4. stage'["server"] >= 2 => scheme'["server"] = scheme'["client"]
    BY <1>0, <1>1, <1>9 DEF Shaking
  <2>5. scheme'["client"] = scheme["client"] /\ stage[s] < 3 /\ started' = started
        /\ (stage'[s] = 3 <=> state'[s] # "HANDSHAKEING")
    BY <1>1, <1>9
  <2> QED BY <1>0, <1>1, <1>6, <1>9, <1>11, <1>12, <2>1, <2>2, <2>3, <2>4, <2>5, ShakingStep
<1>14. First(s).t \notin {"SET_CHUNK_SIZE", "ACKNOWLEDGEMENT", "onStatus"} /\ ~IsStart(First(s))
  BY <1>10 DEF HsKinds, IsStart
<1>15. ChunkSizes'
  <2>1. Sized(out, wsize[s]) /\ EndSize(out, wsize[s]) = wsize[s]
    <3>1. \A i \in 1 .. Len(out) : out[i].size = wsize[s] /\ out[i].t # "SET_CHUNK_SIZE" BY <1>4, <1>7
    <3> QED BY <1>6, <3>1, SizedBatch
  <2> QED BY <1>0, <1>1, <1>3, <1>6, <1>11, <1>14, <2>1, ChunkStep
<1>16. Acks'
  <2>1. recv[s] \in Nat /\ recv'[s] >= recv[s] BY <1>0, <1>3 DEF Typed
  <2>2. \A i \in 1 .. Len(out) : out[i].t # "ACKNOWLEDGEMENT" BY <1>4, <1>7
  <2>3. peerWnd'[s] # 0 => stage'[s] = 3 BY <1>9
  <2> QED BY <1>0, <1>1, <1>3, <1>6, <1>9, <1>11, <1>12, <1>14, <2>1, <2>2, <2>3, AckStep
<1>17. /\ Outcome(role, "start") \in Started /\ "HANDSHAKEING" \notin Started /\ "CONNECTING" \notin Started
       /\ Outcome(role, "start")' = Outcome(role, "start") /\ Outcome(role, verdict)' = Outcome(role, verdict)
  <2>1. role \in {"publish", "play"} BY <1>0 DEF Typed
  <2> QED BY <1>1, <2>1, OutcomesAre DEF Outcome, Started
<1>18. Told' /\ MediaAfter'
  <2>1. \A i \in 1 .. Len(out) : out[i].t # "media" BY <1>4, <1>7
  <2>2. state["client"] # Outcome(role, "start") BY <1>10, <1>17 DEF s
  <2>3. s = "server" => state'["client"] = state["client"] BY <1>0
  <2>4. s = "client" => ~IsStart(First(s)) /\ state["client"] # Outcome(role, "start") BY <1>14, <2>2
  <2> QED BY <1>0, <1>1, <1>6, <1>11, <2>1, <2>3, <2>4, TellStep
<1>19. /\ Elems(In(s)') \subseteq Elems(In(s))
       /\ Elems(In("server")') \subseteq Elems(In("server")) \cup Elems(out)
  BY <1>0, <1>1, <1>6, <1>11, Remaining
<1>20. \A c \in Elems(In(s)) \cup Elems(In("server")) : ~IsToken(c)
  <2>1. ASSUME NEW c \in Elems(In("server")) PROVE ~IsToken(c)
    <3>1. FitsServer(c) BY <1>0, <2>1 DEF Fits
    <3> QED BY <1>10, <3>1 DEF FitsServer, IsToken, Connecting, Creating, Asking, ServerStreamId
  <2>2. ASSUME NEW c \in Elems(In(s)) PROVE ~IsToken(c)
    <3>1. FitsClient(c) BY <1>0, <2>2 DEF Fits, s
    <3> QED BY <1>10, <3>1 DEF FitsClient, IsToken, Connecting, Creating
  <2> QED BY <2>1, <2>2
<1>21. OneToken'
  <2>1. In(s)' \in Seq(Cells) /\ In("server")' \in Seq(Cells) BY <1>0, <1>11 DEF Lines, In
  <2>2. Free(In(s)')
    <3>1. \A i \in 1 .. Len(In(s)') : In(s)'[i] \in Elems(In(s)) BY <1>19, <2>1, ElemsAre
    <3> QED BY <1>20, <3>1 DEF Free
  <2>3. Single(In("server")')
    <3>1. Free(In("server"))
      <4>1. \A i \in 1 .. Len(In("server")) : In("server")[i] \in Elems(In("server")) BY <1>0, ElemsAre
      <4> QED BY <1>20, <4>1 DEF Free
    <3>2. Single(out) BY <1>7 DEF Single
    <3>3. Single(<<>> \o out) /\ Single(In("server") \o out) BY <1>0, <1>6, <3>1, <3>2, TokenCat, CatEmpty
    <3>4. Single(In("server")) BY <3>1 DEF Single, Free
    <3>5. In("server")' = In("server") \o out \/ In("server")' = In("server")
      BY <1>0, <1>11 DEF Took, Dropped
    <3> QED BY <3>3, <3>4, <3>5
  <2> QED BY <2>2, <2>3 DEF OneToken, s
<1>22. Progress'
  <2>1. gone["server"] => gone'["server"] BY <1>0, <1>11 DEF Took, Dropped, Lines
  <2>2. last'.method = "CONNECT" /\ (last'.tid # 0 => stage'["client"] = 3)
        /\ last' \in {[method |-> "CONNECT", tid |-> 0], [method |-> "CONNECT", tid |-> 1],
                      [method |-> "CREATE_STREAM", tid |-> 2], [method |-> "GET_STREAM_LENGTH", tid |-> 3]}
    BY <1>0, <1>8, <1>9, <1>10 DEF Progress, s
  <2>3. state'["client"] \notin Started /\ state'["server"] = state["server"] /\ verdict' = "none"
        /\ streamId' = 0 /\ pending' = pending /\ role' = role
    BY <1>1, <1>9, <1>10, <1>17 DEF s
  <2> QED BY <1>0, <1>10, <1>17, <2>1, <2>2, <2>3 DEF Progress
<1>23. Fits'
  <2>1. ASSUME NEW x \in Elems(In("server")') PROVE FitsServer(x)' /\ FitsBoth(x)'
    <3>1. CASE x \in Elems(In("server"))
      <4>1. FitsServer(x) /\ FitsBoth(x) /\ ~IsToken(x) BY <1>0, <1>20, <3>1 DEF Fits
      <4>2. x.t \notin {"releaseStream", "FCPublish", "getStreamLength", "media"}
        BY <1>10, <4>1 DEF FitsServer, s
      <4> QED BY <4>1, <4>2 DEF FitsServer, FitsBoth, IsToken
    <3>2. CASE x \in Elems(out) /\ Send(s, out)
      <4>1. x = a /\ Connecting'
        <5>1. verdict' = "none" BY <1>1, <1>10
        <5>2. ~SendFails(s) BY <3>2 DEF Send, SendFails
        <5> QED BY <1>6, <1>8, <3>2, <5>1, <5>2 DEF Connecting
      <4> QED BY <1>4, <4>1 DEF FitsServer, FitsBoth
    <3>3. ~Send(s, out) => In("server")' = In("server")
      BY <1>0, <1>8, <1>11 DEF Dropped
    <3> QED BY <1>19, <2>1, <3>1, <3>2, <3>3
  <2>2. ASSUME NEW x \in Elems(In("client")') PROVE FitsClient(x)' /\ FitsBoth(x)'
    <3>1. FitsClient(x) /\ FitsBoth(x) /\ ~IsToken(x) BY <1>0, <1>19, <1>20, <2>2 DEF Fits, s
    <3>2. x.t = "_result" => FALSE
      BY <1>10, <3>1 DEF FitsClient, IsToken
    <3> QED BY <1>1, <1>9, <3>1, <3>2 DEF FitsClient, FitsBoth
  <2> QED BY <2>1, <2>2 DEF Fits
<1> QED BY <1>11, <1>12, <1>13, <1>15, <1>16, <1>18, <1>21, <1>22, <1>23 DEF SessionInv


-------------------------------------------------------------------------------
(* The invariant holds at first and is kept.                                 *)

\* Nothing is under way and nobody has read anything.
LEMMA InitInv ==
    ASSUME SessionAssumption, Init
    PROVE  SessionInv
<1>0. "client" \in Sides /\ "server" \in Sides /\ (\A s \in Sides : Peer(s) \in Sides) BY SidesAre
<1>1. /\ role \in {"publish", "play"} /\ started = FALSE /\ pending = "none" /\ verdict = "none" /\ streamId = 0
      /\ last = [method |-> "CONNECT", tid |-> 0]
      /\ scheme \in [Sides -> {"simple", "schema0", "schema1"}]
  BY DEF Init, SessionAssumption
<1>2. /\ stage = [s \in Sides |-> 0] /\ cache = [s \in Sides |-> 0]
      /\ peerWnd = [s \in Sides |-> 0] /\ recv = [s \in Sides |-> 0]
      /\ acked = [s \in Sides |-> 0] /\ ackSeen = [s \in Sides |-> 0] /\ written = [s \in Sides |-> 0]
      /\ wire = [s \in Sides |-> <<>>] /\ data = [s \in Sides |-> <<>>]
      /\ busy = [s \in Sides |-> FALSE] /\ gone = [s \in Sides |-> FALSE] /\ works = [s \in Sides |-> TRUE]
      /\ state = [s \in Sides |-> "HANDSHAKEING"]
      /\ wsize = [s \in Sides |-> FixSize] /\ rsize = [s \in Sides |-> FixSize]
  BY DEF Init
<1>3. \A s \in Sides : /\ stage[s] = 0 /\ cache[s] = 0 /\ peerWnd[s] = 0 /\ recv[s] = 0 /\ acked[s] = 0
                       /\ ackSeen[s] = 0 /\ wire[s] = <<>> /\ data[s] = <<>> /\ busy[s] = FALSE
                       /\ gone[s] = FALSE /\ works[s] = TRUE /\ state[s] = "HANDSHAKEING"
                       /\ wsize[s] = FixSize /\ rsize[s] = FixSize
  BY <1>2
<1>4. <<>> \in Seq(Cells) /\ Len(<<>>) = 0 /\ Elems(<<>>) = {} BY NothingSent
<1>5. \A s \in Sides : In(s) = <<>> BY <1>3, <1>4, CatEmpty DEF In
<1>6. HsLen \in Nat \ {0} /\ WndAck \in Nat BY DEF SessionAssumption
<1>7. Typed
  <2>1. /\ stage \in [Sides -> 0 .. 3] /\ cache \in [Sides -> 0 .. HsLen]
        /\ state \in [Sides -> Stages \cup Started \cup Failed]
    BY <1>2, <1>6 DEF Stages
  <2>2. /\ wsize \in [Sides -> {FixSize, WriteSize}] /\ rsize \in [Sides -> {FixSize, WriteSize}]
        /\ peerWnd \in [Sides -> {0, WndAck}]
        /\ recv \in [Sides -> Nat] /\ acked \in [Sides -> Nat] /\ ackSeen \in [Sides -> Nat]
        /\ written \in [Sides -> Nat]
    BY <1>2
  <2>3. last \in [method : {"CONNECT", "CREATE_STREAM", "GET_STREAM_LENGTH"}, tid : 0 .. 3] BY <1>1
  <2>4. \A s \in Sides : (~gone[s] => cache[s] < HsLen) /\ (stage[s] \in {0, 3} => cache[s] = 0)
    BY <1>3, <1>6
  <2> QED BY <1>1, <2>1, <2>2, <2>3, <2>4 DEF Typed
<1>8. Lines
  <2>1. data \in [Sides -> Seq(Cells)] /\ wire \in [Sides -> Seq(Cells)] BY <1>2, <1>4
  <2>2. busy \in [Sides -> BOOLEAN] /\ works \in [Sides -> BOOLEAN] /\ gone \in [Sides -> BOOLEAN] BY <1>2
  <2> QED BY <1>3, <2>1, <2>2 DEF Lines
<1>9. Shaking
  <2>1. \A s \in Sides : HsRead(s) = 0 /\ HsSent(s) = 0 BY <1>0, <1>1, <1>3 DEF HsRead, HsSent
  <2>2. \A s \in Sides : HsPart(s, scheme["client"], <<>>, 0, 0)
    <3>1. 1 .. Len(<<>>) = {} BY <1>4
    <3> QED BY <1>4, <3>1 DEF HsPart
  <2>3. \A s \in Sides : stage[s] = 3 <=> state[s] # "HANDSHAKEING" BY <1>3
  <2>4. ~(stage["server"] >= 2) BY <1>0, <1>3
  <2> QED BY <1>3, <1>4, <1>5, <2>1, <2>2, <2>3, <2>4 DEF Shaking
<1>10. ChunkSizes
  <2>1. \A r : Sized(<<>>, r) /\ EndSize(<<>>, r) = r
    <3>1. 1 .. Len(<<>>) = {} BY <1>4
    <3> QED BY <1>4, <3>1 DEF Sized, EndSize, Has
  <2> QED BY <1>0, <1>3, <1>5, <2>1 DEF ChunkSizes
<1>11. OneToken
  <2>1. 1 .. Len(<<>>) = {} BY <1>4
  <2> QED BY <1>0, <1>5, <2>1 DEF OneToken, Single, Free
<1>12. Progress BY <1>0, <1>1, <1>3 DEF Progress, Started, ServerStreamId
<1>13. Fits BY <1>0, <1>4, <1>5 DEF Fits
<1>14. Told /\ MediaAfter
  <2>1. ToldFirst(<<>>) BY <1>4 DEF ToldFirst
  <2> QED BY <1>0, <1>1, <1>5, <2>1 DEF Told, MediaAfter
<1>15. Acks
  <2>1. LastAck(<<>>, 0, 0) BY <1>4 DEF LastAck, Has
  <2> QED BY <1>0, <1>3, <1>5, <2>1 DEF Acks
<1> QED BY <1>7, <1>8, <1>9, <1>10, <1>11, <1>12, <1>13, <1>14, <1>15 DEF SessionInv

\* Every step keeps it.
LEMMA NextInv ==
    ASSUME SessionAssumption, SessionInv, [Next]_vars
    PROVE  SessionInv'
<1>1. CASE Start BY <1>1, StartKept
<1>2. ASSUME NEW s \in Sides, Input(s) PROVE SessionInv' BY <1>2, InputKept
<1>3. ASSUME NEW s \in Sides, Handle(s) PROVE SessionInv'
  BY <1>3, ReadVersionKept, ReadHandshakeKept, AnswerHandshakeKept, HandleSetChunkSizeKept,
     HandleWndAckSizeKept, HandleAckKept, HandleOtherKept, InputEndsKept DEF Handle
<1>4. ASSUME NEW s \in Sides, Break(s) PROVE SessionInv' BY <1>4, BreakKept
<1>5. ASSUME NEW s \in Sides, WriteTag(s) PROVE SessionInv' BY <1>5, WriteTagKept
<1>6. CASE ServerStep
  BY <1>6, ServerShakenKept, HandleConnectKept, HandleCreateStreamKept, HandlePlayKept,
     HandlePublishKept, ServerSettlesKept, ForeignAnswerKept, ForeignRefusalKept DEF ServerStep
<1>7. CASE ClientStep
  BY <1>7, ClientShakenKept, HandleConnectResponseKept, HandleCreateStreamResponseKept,
     IgnoreResultKept, HandleErrorKept, HandleStatusKept DEF ClientStep
<1>8. CASE UNCHANGED vars
  <2>1. UNCHANGED <<wire, data, busy, works, gone, shake, chunks, flow, session>>
    BY <1>8 DEF vars, inputs, ends
  <2>2. Lines' BY <2>1 DEF SessionInv, Lines
  <2>3. \A s \in Sides : In(s)' = In(s) BY <2>1 DEF In
  <2> QED BY <2>1, <2>2, <2>3, SameLines
<1> QED BY <1>1, <1>2, <1>3, <1>4, <1>5, <1>6, <1>7, <1>8 DEF Next

-------------------------------------------------------------------------------
(* What it says of every run.                                                *)

\* In every reachable state what lies between the two sides continues the
\* handshake where its reader stands, ends with the chunk size of its writer,
\* carries at most one command or answer of the exchange, and each message
\* proves of both sides what its handler takes for granted: however
\* clientHandShake, serverHandShake and Input cut it.
THEOREM SessionInvariant ==
    ASSUME SessionAssumption
    PROVE  Spec => []SessionInv
<1>1. Init => SessionInv BY InitInv
<1>2. SessionInv /\ [Next]_vars => SessionInv' BY NextInv
<1> QED BY <1>1, <1>2, PTL DEF Spec

\* Every field keeps its type; the cache of a handshake is full only when the
\* answer could not be sent, and no more than the acknowledged is recorded
\* as received.
THEOREM TypesCorrect ==
    ASSUME SessionAssumption
    PROVE  Spec => []TypeOK
<1>1. SessionInv => TypeOK
  <2> SUFFICES ASSUME SessionInv PROVE TypeOK OBVIOUS
  <2>1. Typed /\ Lines /\ Acks BY DEF SessionInv
  <2>2. HsLen \in Nat BY DEF SessionAssumption
  <2>3. ASSUME NEW s \in Sides
        PROVE  /\ stage[s] \in 0 .. 3 /\ cache[s] \in 0 .. HsLen
               /\ cache[s] = HsLen => gone[s]
               /\ scheme[s] \in {"simple", "schema0", "schema1"}
               /\ state[s] \in Stages \cup Started \cup Failed
               /\ {wsize[s], rsize[s]} \subseteq {FixSize, WriteSize}
               /\ acked[s] <= recv[s] /\ peerWnd[s] \in {0, WndAck}
               /\ busy[s] \/ data[s] = <<>>
    <3>1. cache[s] = HsLen => gone[s] BY <2>1, <2>2 DEF Typed
    <3>2. acked[s] <= recv[s] BY <2>1 DEF Acks
    <3>3. busy[s] \/ data[s] = <<>> BY <2>1 DEF Lines
    <3>4. wsize[s] \in {FixSize, WriteSize} /\ rsize[s] \in {FixSize, WriteSize} BY <2>1 DEF Typed
    <3>5. /\ stage[s] \in 0 .. 3 /\ cache[s] \in 0 .. HsLen /\ scheme[s] \in {"simple", "schema0", "schema1"}
          /\ state[s] \in Stages \cup Started \cup Failed /\ peerWnd[s] \in {0, WndAck}
      BY <2>1 DEF Typed
    <3> QED BY <3>1, <3>2, <3>3, <3>4, <3>5
  <2>4. last.tid \in 0 .. 3 BY <2>1 DEF Typed
  <2>5. /\ role \in {"publish", "play"} /\ started \in BOOLEAN
        /\ pending \in {"none"} \cup Started \cup Failed /\ streamId \in {0, ServerStreamId}
        /\ verdict \in {"none", "start", "error", "other"}
    BY <2>1 DEF Typed
  <2> QED BY <2>3, <2>4, <2>5 DEF TypeOK
<1> QED BY <1>1, SessionInvariant, PTL

\* Wherever Input is cut, a side reads in its handshake the byte it waits for,
\* in the scheme of its own, and after it a message with the chunk size it was
\* written with.
THEOREM ReadsAsWritten ==
    ASSUME SessionAssumption
    PROVE  Spec => []ReadAsWritten
<1>1. SessionInv => ReadAsWritten
  <2> SUFFICES ASSUME SessionInv, NEW s \in Sides, Ready(s)
               PROVE  IF stage[s] < 3
                      THEN /\ First(s).t = Expected(s)[stage[s] + 1]
                           /\ stage[s] = 2 => First(s).v = scheme[s]
                      ELSE First(s).size = rsize[s]
    BY DEF ReadAsWritten
  <2>1. Typed /\ Lines /\ Shaking /\ ChunkSizes BY DEF SessionInv
  <2>2. /\ In(s) \in Seq(Cells) /\ In(s) # <<>> /\ In(s)[1] = First(s) /\ ~gone[s]
    BY <2>1, InIs
  <2>3. HsLen \in Nat \ {0} /\ stage[s] \in 0 .. 3 /\ cache[s] \in 0 .. (HsLen - 1)
        /\ (stage[s] = 0 => cache[s] = 0)
    <3>1. HsLen \in Nat \ {0} BY DEF SessionAssumption
    <3>2. /\ stage[s] \in 0 .. 3 /\ cache[s] \in 0 .. HsLen /\ cache[s] < HsLen
          /\ (stage[s] = 0 => cache[s] = 0)
      BY <2>1, <2>2 DEF Typed
    <3> QED BY <3>1, <3>2
  <2>4. CASE stage[s] < 3
    <3>1. HsCell(s, scheme["client"], First(s), HsRead(s) + 1) BY <2>4, FirstOfHs
    <3>2. PICK p : p = HsRead(s) + 1 OBVIOUS
    <3>3. /\ p # 1 => First(s).v = scheme["client"]
          /\ First(s).t = Expected(s)[IF p = 1 THEN 1 ELSE IF p <= 1 + HsLen THEN 2 ELSE 3]
      BY <3>1, <3>2 DEF HsCell
    <3>4. (IF p = 1 THEN 1 ELSE IF p <= 1 + HsLen THEN 2 ELSE 3) = stage[s] + 1
      BY <2>3, <2>4, <3>2 DEF HsRead
    <3>5. First(s).t = Expected(s)[stage[s] + 1] BY <3>3, <3>4
    <3>6. ASSUME stage[s] = 2 PROVE First(s).v = scheme[s]
      <4>1. p # 1 BY <2>3, <3>2, <3>6 DEF HsRead
      <4>2. s = "server" => scheme[s] = scheme["client"] BY <2>1, <3>6 DEF Shaking
      <4> QED BY <3>3, <4>1, <4>2, SidesAre
    <3> QED BY <2>4, <3>5, <3>6
  <2>5. CASE ~(stage[s] < 3)
    <3>1. HsRead(s) = HsAll /\ HsSent(s) = HsAll /\ HsSent(s) - HsRead(s) = 0 /\ HsAll \in Nat
      <4>1. HsRead(s) = HsAll /\ HsAll \in Nat /\ HsSent(s) \in Nat /\ HsSent(s) <= HsAll
        BY <2>1, <2>2, <2>3, <2>5, HsCounts
      <4>2. HsSent(s) >= HsRead(s) BY <2>1, <2>2 DEF Shaking
      <4> QED BY <4>1, <4>2
    <3>2. HsPart(s, scheme["client"], In(s), HsRead(s), 0) BY <2>1, <2>2, <3>1 DEF Shaking
    <3>3. First(s).t \notin HsKinds
      <4>1. PICK sch, k : sch = scheme["client"] /\ k = HsRead(s) OBVIOUS
      <4>2. k \in Nat /\ 0 \in Nat /\ HsPart(s, sch, In(s), k, 0) BY <3>1, <3>2, <4>1
      <4>3. In(s)[1].t \notin HsKinds BY <2>2, <4>2, HsTail
      <4> QED BY <2>2, <4>3
    <3>4. Sized(In(s), rsize[s]) BY <2>1, <2>2 DEF ChunkSizes
    <3>5. First(s).size = rsize[s] BY <2>2, <3>3, <3>4, SizedTail
    <3> QED BY <2>5, <3>5
  <2> QED BY <2>4, <2>5
<1> QED BY <1>1, SessionInvariant, PTL

\* A side that has started was accepted by OnPublish or OnPlay; media is read
\* only by a side that has started, and carries the id of the stream that
\* handleCreateStream announced, as the command that asks for it does.
THEOREM StartIsAgreed ==
    ASSUME SessionAssumption
    PROVE  Spec => []StartAgreed
<1>1. SessionInv => StartAgreed
  <2> SUFFICES ASSUME SessionInv PROVE StartAgreed OBVIOUS
  <2>1. Typed /\ Lines /\ Progress /\ MediaAfter BY DEF SessionInv
  <2>2. \A s \in Sides : state[s] \in Started => verdict = "start" BY <2>1, SidesAre DEF Progress
  <2>3. ASSUME NEW s \in Sides, Awaits(s, "media") PROVE state[s] = Outcome(role, "start")
    <3>1. Ready(s) /\ First(s).t = "media" BY <2>3 DEF Awaits
    <3>2. CASE s = "server"
      <4>1. state["client"] = "PUBLISH_START" BY <3>1, <3>2, FirstFits DEF FitsServer
      <4>2. verdict = "start" /\ Outcome(role, "start") = "PUBLISH_START"
        BY <2>1, <4>1 DEF Progress, Started
      <4>3. ~gone["server"] /\ pending = "none" BY <2>1, <3>1, <3>2, InIs DEF Ready
      <4>4. pending # Outcome(role, "start") BY <4>2, <4>3
      <4> QED BY <2>1, <3>2, <4>2, <4>3, <4>4 DEF Progress
    <3>3. CASE s = "client"
      <4>1. /\ In("client") \in Seq(Cells) /\ In("client") # <<>> /\ In("client")[1] = First("client")
            /\ ~gone["client"]
        BY <2>1, <3>1, <3>3, InIs
      <4>2. ~ToldFirst(In("client")) BY <3>1, <3>3, <4>1, ToldTail
      <4> QED BY <2>1, <3>3, <4>1, <4>2 DEF MediaAfter
    <3> QED BY <3>2, <3>3, SidesAre
  <2>4. ASSUME NEW t \in {"media", "publish", "play"}, Awaits("server", t)
        PROVE  First("server").v = ServerStreamId
    <3>1. Ready("server") /\ First("server").t = t BY <2>4 DEF Awaits
    <3>2. FitsServer(First("server")) BY <3>1, FirstFits, SidesAre
    <3> QED BY <3>1, <3>2 DEF FitsServer
  <2> QED BY <2>2, <2>3, <2>4 DEF StartAgreed
<1> QED BY <1>1, SessionInvariant, PTL

\* A side that announced a window is told of what it sent: when Input has ended
\* everywhere and nothing is under way, less than a window is without
\* acknowledgement (sendAckIfNeeded).
THEOREM AcksKeepUpAlways ==
    ASSUME SessionAssumption
    PROVE  Spec => []AcksKeepUp
<1>1. SessionInv => AcksKeepUp
  <2> SUFFICES ASSUME SessionInv, NEW s \in Sides, Quiet, peerWnd[s] # 0
               PROVE  recv[s] - ackSeen[Peer(s)] < peerWnd[s]
    BY DEF AcksKeepUp
  <2>1. Lines /\ Acks BY DEF SessionInv
  <2>2. Peer(s) \in Sides /\ wire[Peer(s)] = <<>> /\ ~busy[Peer(s)] /\ ~busy[s] /\ works[s]
        /\ works["client"] /\ works["server"]
    BY SidesAre DEF Quiet
  <2>3. data[Peer(s)] = <<>> BY <2>1, <2>2 DEF Lines
  <2>4. In(Peer(s)) = <<>> BY <2>2, <2>3, NothingSent, CatEmpty DEF In
  <2>5. LastAck(<<>>, ackSeen[Peer(s)], acked[s]) BY <2>1, <2>2, <2>4 DEF Acks
  <2>6. ackSeen[Peer(s)] = acked[s] BY <2>5, NothingSent DEF LastAck, Has
  <2> QED BY <2>1, <2>2, <2>6 DEF Acks
<1> QED BY <1>1, SessionInvariant, PTL

=============================================================================
