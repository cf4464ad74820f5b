------------------------------- MODULE RtmpChunk -------------------------------
(***************************************************************************)
(* RTMP chunk streams (go-rtmp/chunk.go): chunkStreamWriter.writeData,     *)
(* which compresses the headers of the messages of a chunk stream against  *)
(* each other, the byte stream, and chunkStreamReader.readRtmpMessage,     *)
(* which is fed pieces of it of any size.                                  *)
(*                                                                         *)
(* A byte of the stream is a cell [k, v] that stands for one field: the    *)
(* basic header is one or two cells (wide chunk stream ids), the message   *)
(* header the first HeadLen of timestamp, length, type and stream id, the  *)
(* extended timestamp two, the payload one per unit of length.  Input may  *)
(* be cut between any two cells.                                           *)
(*                                                                         *)
(* The writers of this package emit a message in one piece, and nothing    *)
(* for one without payload; the reader must also take other peers, that    *)
(* interleave the chunks of several chunk streams, emit the header of an   *)
(* empty message and send differences across the wrap of the timestamps    *)
(* (peer).                                                                 *)
(***************************************************************************)
EXTENDS Integers, Sequences, FiniteSets

CONSTANTS
    Csids,      \* chunk stream ids
    Wide,       \* those whose basic header takes more than one byte
    Types,      \* message types
    Streams,    \* message stream ids
    Lens,       \* message lengths
    Stamps,     \* message timestamps
    StampMod,   \* timestamps are counted modulo this (2^32)
    ExtStamp,   \* the timestamp field that announces an extended one (0xffffff)
    FixSize,    \* FIX_CHUNK_SIZE, what both ends start with
    Sizes,      \* chunk sizes SET_CHUNK_SIZE may announce
    Ctrl,       \* CHUNK_CHANNEL_USE_CTRL, the chunk stream of SET_CHUNK_SIZE
    SetSize,    \* the type SET_CHUNK_SIZE
    None,       \* no header written or read yet
    Peers,      \* "own", "foreign": the implementations the writer may be
    Empties,    \* those that are given messages without payload
    MaxStreams, \* maxChunkStreams
    MaxBuffered,\* maxBufferedMsgLen
    MaxMsgs,    \* bound: messages written
    MaxWire     \* bound: a chunk is sent while the wire holds fewer cells

ChunkAssumption ==
    /\ Wide \subseteq Csids /\ Ctrl \notin Csids /\ SetSize \notin Types
    /\ None \notin Csids \cup {Ctrl}
    /\ Lens \subseteq Nat /\ Sizes \subseteq Nat \ {0} /\ FixSize \in Nat \ {0}
    /\ StampMod \in Nat \ {0} /\ Stamps \subseteq 0 .. (StampMod - 1)
    /\ ExtStamp \in Nat \ {0}
    /\ Empties \subseteq Peers /\ Peers \subseteq {"own", "foreign"}
    /\ MaxStreams \in Nat /\ MaxBuffered \in Nat /\ MaxMsgs \in Nat /\ MaxWire \in Nat

VARIABLES
    peer,     \* the implementation that writes
    writers,  \* chunk stream -> chunkStreamWriter
    queued,   \* chunk stream -> chunks the peer has not sent yet
    midway,   \* the chunk stream whose message is going out in one piece
    wire,     \* cells in transit
    data,     \* the rest of the input readRtmpMessage is working on
    state,    \* its parser state
    headCache,\* cells of an incomplete basic header
    current,  \* the current chunk stream
    cks,      \* the chunk streams known to the reader
    readSize, \* its chunkSize
    buffered, \* its count of payload in incomplete messages
    failure,  \* the error it returned
    sent, received \* history: chunk stream -> the messages written and handed to onMsg

writerVars == <<peer, writers, queued, midway, sent>>
readerVars == <<data, state, headCache, current, cks, readSize, buffered, failure, received>>
vars == <<writerVars, wire, readerVars>>

AllCsids == Csids \cup {Ctrl}
Cell(k, v) == [k |-> k, v |-> v]
HeadLen == [f \in 0..3 |-> <<4, 3, 1, 0>>[f + 1]]

\* A message; body is what its payload looks like on the wire.
Msg(type, stream, ts, body) ==
    [type |-> type, stream |-> stream, ts |-> ts, body |-> body]

\* newChunkStream
NewStream == [fmt |-> 0, first |-> 0, hdr |-> <<>>, message |-> <<>>, chunkRead |-> 0,
              hasExt |-> FALSE, ts |-> 0, head |-> [ts |-> 0, len |-> 0, type |-> None, stream |-> None]]

Init ==
    /\ peer \in Peers
    /\ writers = [c \in AllCsids |-> [head |-> None, ts |-> 0, size |-> FixSize]]
    /\ queued = [c \in AllCsids |-> <<>>]
    /\ midway = None
    /\ wire = <<>> /\ data = <<>>
    /\ state = "basic" /\ headCache = <<>> /\ current = None
    /\ cks = [c \in {} |-> NewStream]
    /\ readSize = FixSize /\ buffered = 0 /\ failure = "none"
    /\ sent = [c \in AllCsids |-> <<>>] /\ received = sent

\* Mutant: the loop ends with the input.
ParsingOnData == failure = "none" /\ data # <<>>

\* readRtmpMessage's loop goes on.  A message without payload is complete without input.
Parsing ==
    /\ failure = "none"
    /\ data # <<>> \/ (state = "payload" /\ cks[current].head.len = 0)

-----------------------------------------------------------------------------
(* The writer.  It shares only the wire with the reader, so nothing is lost *)
(* when it waits for the reader to finish with its input (~Parsing).        *)

\* Mutant: an equal difference is enough for a header of format 3.
FormatLoose(w, m) ==
    IF w.head = None \/ m.stream # w.head.stream \/ (m.ts < w.ts /\ peer = "own") THEN 0
    ELSE IF m.ts - w.ts = w.head.ts THEN 3
    ELSE IF m.type # w.head.type \/ Len(m.body) # w.head.len THEN 1 ELSE 2

\* The header format: what the message has in common with the last one of
\* its chunk stream is left out.
Format(w, m) ==
    IF w.head = None \/ m.stream # w.head.stream \/ (m.ts < w.ts /\ peer = "own") THEN 0
    ELSE IF m.type # w.head.type \/ Len(m.body) # w.head.len THEN 1
    ELSE IF (m.ts - w.ts) % StampMod # w.head.ts THEN 2
    ELSE 3

\* Formats 1 to 3 carry the time since the last message.
HeadOf(w, m) ==
    [ts |-> IF Format(w, m) = 0 THEN m.ts ELSE (m.ts - w.ts) % StampMod,
     len |-> Len(m.body), type |-> m.type, stream |-> m.stream]

BasicCells(c, f) ==
    IF c \in Wide THEN <<Cell("basic", <<f, None>>), Cell("csid", c)>>
                  ELSE <<Cell("basic", <<f, c>>)>>

\* A timestamp that does not fit its field follows the header, and follows it
\* in every chunk of the message.
ExtCells(f, h) ==
    IF h.ts < ExtStamp THEN <<>>
    ELSE <<Cell("high", h.ts \div ExtStamp), Cell("low", h.ts % ExtStamp)>>

\* encodeHeadTo
HeadCells(c, f, h) ==
    BasicCells(c, f)
    \o SubSeq(<<Cell("ts", IF h.ts < ExtStamp THEN h.ts ELSE ExtStamp), Cell("len", h.len),
                Cell("type", h.type), Cell("stream", h.stream)>>, 1, HeadLen[f])
    \o ExtCells(f, h)

\* The number of chunks of a message.
Count(w, m) == IF m.body = <<>> /\ peer = "foreign" THEN 1 ELSE (Len(m.body) + w.size - 1) \div w.size

\* The chunks of a message; all but the first have format 3.
Chunks(c, w, m) ==
    [i \in 1 .. Count(w, m) |->
        HeadCells(c, IF i = 1 THEN Format(w, m) ELSE 3, HeadOf(w, m))
        \o SubSeq(m.body, (i - 1) * w.size + 1,
                  IF i * w.size <= Len(m.body) THEN i * w.size ELSE Len(m.body))]

\* writeData: the header is remembered also when there are no data and
\* nothing is emitted.
Written(w, m) == [w EXCEPT !.head = HeadOf(w, m), !.ts = m.ts]

Messages == UNION {{c} \X DOMAIN sent[c] : c \in AllCsids}

WriteData(c, type, stream, len, ts) ==
    LET m == Msg(type, stream, ts, [i \in 1 .. len |-> Cell("pay", <<c, Len(sent[c]), i>>)])
    IN  /\ Cardinality(Messages) < MaxMsgs /\ ~Parsing
        /\ queued[c] = <<>>
        /\ len > 0 \/ peer \in Empties
        /\ writers' = [writers EXCEPT ![c] = Written(@, m)]
        /\ queued' = [queued EXCEPT ![c] = Chunks(c, writers[c], m)]
        /\ sent' = IF Count(writers[c], m) = 0 THEN sent ELSE [sent EXCEPT ![c] = Append(@, m)]
        /\ UNCHANGED <<peer, midway, wire, readerVars>>

\* The sessions announce a chunk size with everything before it written, and
\* use it from the next message on.
WriteSetChunkSize(n) ==
    LET m == Msg(SetSize, 0, 0, <<Cell("size", n)>>)
    IN  /\ Cardinality(Messages) < MaxMsgs /\ ~Parsing /\ Len(wire) < MaxWire
        /\ \A c \in AllCsids : queued[c] = <<>>
        /\ wire' = wire \o Chunks(Ctrl, writers[Ctrl], m)[1]
        /\ writers' = [c \in AllCsids |->
              [(IF c = Ctrl THEN Written(writers[c], m) ELSE writers[c]) EXCEPT !.size = n]]
        /\ sent' = [sent EXCEPT ![Ctrl] = Append(@, m)]
        /\ UNCHANGED <<peer, queued, midway, readerVars>>

\* A chunk goes out: the next of the message under way, or of any chunk
\* stream if the peer interleaves.
SendChunk(c) ==
    /\ queued[c] # <<>> /\ ~Parsing /\ Len(wire) < MaxWire
    /\ peer = "foreign" \/ midway \in {None, c}
    /\ wire' = wire \o queued[c][1]
    /\ queued' = [queued EXCEPT ![c] = Tail(@)]
    /\ midway' = IF Len(queued[c]) = 1 THEN None ELSE c
    /\ UNCHANGED <<peer, writers, sent, readerVars>>

-----------------------------------------------------------------------------
(* The reader: readRtmpMessage is a loop over the input; each of its turns *)
(* is an action, and nothing else touches the reader in between.           *)

Take(s, n) == SubSeq(s, 1, n)
Drop(s, n) == SubSeq(s, n + 1, Len(s))
Cut(want, have) == IF have < want THEN have ELSE want

\* readRtmpMessage is called with the next n cells.
Input(n) ==
    /\ ~Parsing /\ failure = "none"
    /\ n <= Len(wire)
    /\ data' = Take(wire, n)
    /\ wire' = Drop(wire, n)
    /\ UNCHANGED <<writerVars, state, headCache, current, cks, readSize, buffered, failure, received>>

\* S_BASIC_HEAD; the first cell of the header tells its length.
BasicLen == LET first == (headCache \o data)[1] IN IF first.v[2] = None THEN 2 ELSE 1

ReadBasicHead ==
    /\ Parsing /\ state = "basic"
    /\ LET want == BasicLen - Len(headCache)
           head == headCache \o Take(data, Cut(want, Len(data)))
           fmt  == head[1].v[1]
           c    == IF Len(head) = 2 THEN head[2].v ELSE head[1].v[2]
           cs   == IF c \in DOMAIN cks THEN cks[c] ELSE NewStream
       IN  IF Len(data) < want
           THEN /\ headCache' = head /\ data' = <<>>
                /\ UNCHANGED <<state, current, cks, failure>>
           ELSE IF c \notin DOMAIN cks /\ Cardinality(DOMAIN cks) >= MaxStreams
           THEN /\ failure' = "streams"
                /\ headCache' = head /\ data' = Drop(data, want)
                /\ UNCHANGED <<state, current, cks>>
           ELSE /\ data' = Drop(data, want) /\ headCache' = <<>>
                /\ current' = c
                /\ cks' = [d \in DOMAIN cks \cup {c} |->
                             IF d = c THEN [cs EXCEPT !.fmt = fmt,
                                                      !.first = IF cs.message = <<>> THEN fmt ELSE @]
                             ELSE cks[d]]
                /\ state' = IF fmt # 3 THEN "head" ELSE IF cs.hasExt THEN "ext" ELSE "payload"
                /\ UNCHANGED failure
    /\ UNCHANGED <<writerVars, wire, readSize, buffered, received>>

\* chunkMsgHead.decode
Decoded(h, cells) ==
    [ts     |-> cells[1].v,
     len    |-> IF Len(cells) >= 3 THEN cells[2].v ELSE h.len,
     type   |-> IF Len(cells) >= 3 THEN cells[3].v ELSE h.type,
     stream |-> IF Len(cells) = 4 THEN cells[4].v ELSE h.stream]

\* S_MSG_HEAD
ReadMsgHead ==
    /\ Parsing /\ state = "head"
    /\ LET cs   == cks[current]
           want == HeadLen[cs.fmt] - Len(cs.hdr)
           hdr  == cs.hdr \o Take(data, Cut(want, Len(data)))
       IN  IF Len(data) < want
           THEN /\ cks' = [cks EXCEPT ![current].hdr = hdr] /\ data' = <<>>
                /\ UNCHANGED state
           ELSE LET h == Decoded(cs.head, hdr) IN
                /\ data' = Drop(data, want)
                /\ cks' = [cks EXCEPT ![current].hdr = <<>>, ![current].head = h,
                                      ![current].hasExt = (h.ts = ExtStamp)]
                /\ state' = IF h.ts = ExtStamp THEN "ext" ELSE "payload"
    /\ UNCHANGED <<writerVars, wire, headCache, current, readSize, buffered, failure, received>>

\* S_EXTEND_TS
ReadExtendTs ==
    /\ Parsing /\ state = "ext"
    /\ LET cs   == cks[current]
           want == 2 - Len(cs.hdr)
           hdr  == cs.hdr \o Take(data, Cut(want, Len(data)))
       IN  IF Len(data) < want
           THEN /\ cks' = [cks EXCEPT ![current].hdr = hdr] /\ data' = <<>>
                /\ UNCHANGED state
           ELSE /\ data' = Drop(data, want)
                /\ cks' = [cks EXCEPT ![current].hdr = <<>>,
                                      ![current].head.ts = hdr[1].v * ExtStamp + hdr[2].v]
                /\ state' = "payload"
    /\ UNCHANGED <<writerVars, wire, headCache, current, readSize, buffered, failure, received>>

\* Mutant: what is left of a chunk after a cut counts as a whole chunk.
NeedLate(cs) == LET rest == cs.head.len - Len(cs.message)
                IN  cs.chunkRead + (IF rest > readSize THEN readSize ELSE rest)

\* The payload of the chunk, of which chunkRead was read before.
Need(cs) == LET rest == cs.head.len - (Len(cs.message) - cs.chunkRead)
            IN  IF rest > readSize THEN readSize ELSE rest

\* Mutant: only what has arrived is compared with the bound.
TooMuchLate(remain) == buffered > MaxBuffered

TooMuch(remain) == buffered + remain > MaxBuffered

\* Mutant: a message made of several chunks takes the format of its last one.
StampLast(cs) == IF cs.fmt = 0 THEN cs.head.ts ELSE (cs.ts + cs.head.ts) % StampMod

\* Mutant: the sum is kept in a wider integer.
StampUnwrapped(cs) == IF cs.first = 0 THEN cs.head.ts ELSE cs.ts + cs.head.ts

\* The timestamp of a message, from the format of its first chunk.
Stamp(cs) == IF cs.first = 0 THEN cs.head.ts ELSE (cs.ts + cs.head.ts) % StampMod

\* The message is complete: it is handed to onMsg, in which the session takes
\* a new chunk size over.
Complete(cs, body) ==
    /\ received' = [received EXCEPT ![current] =
                        Append(@, Msg(cs.head.type, cs.head.stream, Stamp(cs), body))]
    /\ readSize' = IF cs.head.type = SetSize THEN body[1].v ELSE readSize
    /\ cks' = [cks EXCEPT ![current].message = <<>>, ![current].chunkRead = 0, ![current].ts = Stamp(cs)]

\* Mutant: a message that is complete stays in the count.
CountKept(cs, body) == buffered + Len(body) - Len(cs.message)

\* What is counted when a chunk that ends a message is complete.
CountDone(cs, body) == buffered + Len(body) - Len(cs.message) - Len(body)

\* S_PAYLOAD
ReadPayload ==
    /\ Parsing /\ state = "payload"
    /\ LET cs     == cks[current]
           remain == Need(cs) - cs.chunkRead
           got    == Cut(remain, Len(data))
           body   == cs.message \o Take(data, got)
       IN  IF Len(cs.message) > cs.head.len \/ TooMuch(remain)
           THEN /\ failure' = "length"
                /\ UNCHANGED <<data, state, cks, readSize, buffered, received>>
           ELSE /\ data' = Drop(data, got)
                /\ UNCHANGED failure
                /\ IF got < remain
                   THEN /\ cks' = [cks EXCEPT ![current].message = body,
                                              ![current].chunkRead = @ + got]
                        /\ buffered' = buffered + got
                        /\ UNCHANGED <<state, readSize, received>>
                   ELSE /\ state' = "basic"
                        /\ IF cs.head.len <= Len(body)
                           THEN Complete(cs, body) /\ buffered' = CountDone(cs, body)
                           ELSE /\ cks' = [cks EXCEPT ![current].message = body,
                                                      ![current].chunkRead = 0]
                                /\ buffered' = buffered + got
                                /\ UNCHANGED <<readSize, received>>
    /\ UNCHANGED <<writerVars, wire, headCache, current>>

-----------------------------------------------------------------------------
Next ==
    \/ \E c \in Csids, type \in Types, stream \in Streams, len \in Lens, ts \in Stamps :
          WriteData(c, type, stream, len, ts)
    \/ \E n \in Sizes : WriteSetChunkSize(n)
    \/ \E c \in Csids : SendChunk(c)
    \/ \E n \in 1 .. Len(wire) : Input(n)
    \/ ReadBasicHead \/ ReadMsgHead \/ ReadExtendTs \/ ReadPayload

Spec == Init /\ [][Next]_vars

-----------------------------------------------------------------------------
(* Properties.                                                             *)

TotalBuffered == Cardinality(UNION {{c} \X (1 .. Len(cks[c].message)) : c \in DOMAIN cks})

\* The reader's fields are in range: the caches hold less than what they wait
\* for, and no message is longer than announced.
TypeOK ==
    /\ state \in {"basic", "head", "ext", "payload"}
    /\ failure \in {"none", "streams", "length"}
    /\ readSize \in Sizes \cup {FixSize}
    /\ buffered \in Nat
    /\ DOMAIN cks \subseteq AllCsids
    /\ \A c \in DOMAIN cks :
          /\ cks[c].fmt \in 0..3 /\ cks[c].first \in 0..3
          /\ Len(cks[c].hdr) < 4
          /\ Len(cks[c].message) <= cks[c].head.len
          /\ cks[c].ts \in 0 .. (StampMod - 1)
    /\ failure = "none" => Len(headCache) < 2

\* What is read from a chunk stream is what was written to it, in order,
\* with type, stream id, timestamp and payload, however the stream is cut
\* into pieces and its chunks are mixed with those of others.
DeliveredAsWritten ==
    \A c \in AllCsids :
        Len(received[c]) <= Len(sent[c]) /\ received[c] = SubSeq(sent[c], 1, Len(received[c]))

\* Once all the input there is has been parsed every message has been handed
\* over: none waits for the input after it.
NothingHeldBack ==
    (wire = <<>> /\ (\A c \in AllCsids : queued[c] = <<>>) /\ ~Parsing /\ failure = "none") =>
        /\ received = sent
        /\ state = "basic" /\ headCache = <<>>

\* A peer makes the reader keep no more chunk streams and no more payload
\* than allowed.  The running total that decides this equals what the
\* incomplete messages hold, whatever the cuts: a drift would refuse good
\* peers, or let others pass the bound.
LimitsHold ==
    /\ Cardinality(DOMAIN cks) <= MaxStreams
    /\ TotalBuffered <= MaxBuffered
    /\ failure = "none" => buffered = TotalBuffered

===============================================================================
