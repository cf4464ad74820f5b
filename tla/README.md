# Verification of gomediautils

TLA+ models of the protocol engines of this repository, checked with TLC on
small instances, and proofs checked with TLAPS for every size. Paths below are
relative to `src/`.

## 1. Inventory

The repository is a set of independent Go packages for media containers and
streaming protocols. None keeps anything on disk on its own account: the state
is in memory, and hard behaviour comes from networks, concurrent calls,
arbitrarily split input, and bounded integers.

| Part | State | Operations | Hard behaviour | What makes it correct |
|---|---|---|---|---|
| `go-srt` data transfer (`conn.go`, `packet.go`) | send buffer, receive buffer, losses, next/highest number, ready queue, round trip, time base | Write, data, ACK, NAK, drop request, ACKACK, tick, Close, shutdown | lost, repeated, reordered datagrams; timers; 31-bit numbers that wrap | in-order delivery, no silent gap, safe ACKs, justified give-ups, eventual recovery, nothing lost at a clean close |
| `go-srt` calls (`conn.go`) | ready, readyNotify, sendWake, done, deadlines, closing/closed | concurrent Read, Write, Close, SetDeadline | lost wake-ups, closes racing | every call ends when it must, closed once |
| `go-srt` handshake (`dial.go`, `listener.go`, `handshake.go`) | phase, cookie; conns, byCaller, accept | Dial, induction, conclusion, Accept, Close, onClose | retries, duplicates, lock released around Authorize, backlog | both ends agree, one Conn per caller, Close closes all |
| `go-srt` payloads (`crypto.go`, `extendTs`) | salt, key length, two keys; last timestamp and epoch | newCryptoCtx, marshalKM, applyKM, xorPayload, extendTs | key refresh in the stream, a clock of 32 bits that wraps, packets out of order around both | every payload under its key, at its time |
| `go-rtmp` chunks (`chunk.go`) | per chunk stream: last header, timestamp, partial message | writeData, readRtmpMessage | header compression, input split anywhere, chunk size changes, limits | what is read is what was written |
| `go-rtmp` sessions (`client.go`, `server.go`, `handshake.go`) | handshake state, session state, transaction ids, windows | Input, commands, publish, play, acknowledgement | partial input, answers in any order | phases in order, each command answered once |
| `go-rtsp` sessions (`rtsp-client.go`, `rtsp-server.go`) | pending handler, CSeq, session id, tracks, input cache | OPTIONS ... TEARDOWN, keep-alive, authentication retry, interleaved data | requests overlapping with keep-alives, answers without matching | each answer goes to its request |
| `go-rtsp` RTP/RTCP (`rtp/`, `rtcp/`, `rtsp-track.go`) | packet sequence, FU/STAP assembly, reception statistics | pack, unpack, updateSeq, report blocks | loss, reordering, 16-bit wrap | frames in equal frames out; no frame stitched over a loss; extended counters |
| `go-mpeg2` TS/PS | continuity counters, PSI timers, partial PES, resync cache | Write, Input | lost packets, resync, split input | exact packets, no silent stitching |
| `go-flv` | parser state, previous tag size, sequence headers | Input, Write* | input split anywhere | tags out equal tags in |
| `go-mp4` | sample tables, chunks, fragments, index | Write, Flush, ReadPacket, Seek | sizes patched afterwards, edit lists, index reserve | every sample found again with its times |
| `go-mkv` | cluster, cues, dts reorder window | Write, ReadPacket | presentation order to decoding order | dts increasing and never after pts |
| `go-es` | parameter sets, picture order counts, access unit being gathered, reorder window, sample clock | WriteFrame, ReadFrame | counts that wrap, slices before their picture is known to end, bounded look-ahead | access units as written, in the order they are shown, never before they are decoded |
| `go-ogg` | page, partial packet, granule | Input, Write | lost pages, continued packets | packets complete or dropped |
| `go-wav` | sizes in the header, bytes left | Write, Close, ReadFrame | sizes filled in afterwards, or never | all samples, a true duration |
| `go-codec` | bits written and read, a record's sets | Put*, Get*, Update*, Encode, Decode | fields across bytes, sets replaced, truncated records | bits and sets read as written, errors that stay |

Interaction: the packages do not share state. A user wires them with
callbacks: a demuxer's `OnFrame`, the `Output` function of a protocol handle,
`io.Reader`/`io.Writer`. Inside `go-srt` a `Conn` is shared by its `run`
goroutine, the socket's read loop (the listener's, for accepted Conns) and any
number of application calls, all under `Conn.mu`.

## 2. Plan and layout

| Part | Modules | State |
|---|---|---|
| SRT stream over a bad network | `SrtSeq`, `SrtLink`, `SrtLinkProofs` | checked, proved |
| its blocking calls | `SrtConnIO`, `SrtConnIOProofs` | checked, proved |
| caller and listener | `SrtHandshake`, `SrtHandshakeConstants`, `SrtHandshakeProofs` | checked, proved |
| timestamps and keys of the payload | `SrtPayload`, `PacketsProofs` | checked, proved |
| RTMP chunk streams | `RtmpChunk`, `RtmpChunkProofs`; implements `Lanes` | checked, proved |
| RTMP sessions | `RtmpSession`, `RtmpSessionProofs` | checked, proved |
| RTSP sessions | `RtspSession`, `RtspSessionProofs` | checked, proved |
| the sessions and the SRT handshake, side by side | `Sessions`, `SessionsProofs` | checked, proved |
| RTP, RTCP | `RtpStream`, `RtcpContext`, `AnnexB`, `PacketsProofs` | checked; reports and `NeverSpliced` proved |
| MPEG-TS, MPEG-PS | `TsStream`, `PsStream`, `AnnexB` | checked |
| the four kinds of packets, side by side | `Packets`, `PacketsProofs` | checked |
| MP4, fragmented MP4, DASH | `Mp4File`, `Mp4Boxes` | checked |
| FLV, Matroska, Ogg, WAVE | `FlvFile`, `MkvFile`, `Ogg`, `WavFile` | checked |
| elementary streams | `EsStream` | checked |
| bits and configuration records | `BitStream`, `ParamRecords` | checked |

Next, in this order: `LossIsLocal` of `RtpStream`, for which the inductive invariant is at hand
(section 10), and the two small files, `WavFile` and `Ogg`.

`RtcpContext`, `Mp4Boxes` and `AnnexB` have no state of their own: they are the
functions `RtpStream`, `Mp4File`, and `TsStream`, `PsStream` and `RtpStream`
are made of.

### The runs

Parts that do not interact but are asked the same questions share a run: in
`Sessions`, `Packets`, `MCFiles`, `MCSrtLossy` and `MCSrtCalls` the variable `part` picks one module at
the start, the others' variables stay as they are (0, mostly), and a property such as `GivenAsTaken`
is the conjunction of the modules' own. In `MCFiles` the constants of each part are
given where it is instantiated; `Sessions` and `Packets` have them as their own, so
that what is proved of a part is proved for all values of them. `Sessions`
instantiates the modules of proofs, and `SessionsProofs` shows that a
behaviour of it is a behaviour of one of its parts, and thereby that all its
invariants and `ImplementsLanes` hold for all values of the constants (sections 6
and 8 name the two hypotheses). `PacketsProofs` shows the same of two of the four
parts of `Packets` (sections 5 and 10).

| Run | Instance | Distinct states | Shows |
|---|---|---|---|
| `srt_lossy` | `MCSrtLossy`: `SrtLink`, `SrtHandshake` | 1.1 million | the safety of the SRT stream and of the handshake over a bad network |
| `srt_calls` | `MCSrtCalls`: `SrtConnIO`, `SrtLink` | 90 000 | Read, Write, Close: safety and liveness; the liveness of the stream |
| `sessions` | `MCSessions`, of `Sessions`: `RtmpChunk`, `RtmpSession`, `RtspSession`, `SrtHandshake` | 348 000 | sessions and what they carry |
| `packets` | `MCPackets`, of `Packets`: `TsStream`, `PsStream`, `RtpStream`, `SrtPayload` | 947 000 | media in packets that are lost or late |
| `containers` | `MCFiles`: `Mp4File`, `FlvFile`, `MkvFile`, `Ogg`, `WavFile`, `EsStream`, `BitStream`, `ParamRecords` | 686 000 | media in files that are cut, and what their headers are made of |
| `srt_io_readers`, `srt_read_deadline`, `srt_handshake_clock`, `rtmp_chunk_empty`, `rtp_fragments`, `rtsp_keepalive`, `flv_stale_sets` | | | a disagreement each, section 14 |

## 3. SRT: `SrtSeq`, `SrtLink` (`go-srt/conn.go`, `packet.go`)

`SrtSeq` has the circular arithmetic of `packet.go` (`seqAdd`, `seqDiff`,
`seqLess`, the loss list codec) over a modulus `2 * SeqHalf`, which stands for
2^31. `SrtLink` is one direction of a connection: the sending half of a `Conn`,
the receiving half of its peer, and the datagrams between them.

| Model | Code |
|---|---|
| `nextSeq`, `sndBuf`, `sndState` | `Conn.nextSeq`, `sndBuf`, `closing`/`closed` of the sender |
| `rcvNext`, `rcvMax`, `rcvBuf`, `loss`, `ready` | the same fields of the receiver; a skipped number is `Skip` |
| `dataNet`, `ackNet`, `nakNet`, `dropNet`, `finNet` | the packets on their way |
| `old`, `due` | how many packets are too old to resend, or have reached their play time: the two clocks, which only move forward |
| `delivered`, `gaveUp`, `discarded`, `sndDropped`, `fin` | history for the properties |
| `Write`, `HandleACK`, `HandleNAK`, `SenderTick` | `Write` with room in the buffer; `handleACK`; `handleNAK` with drop requests; `dropOldSent` and `resendTail` |
| `handleData`, `IgnoreData`, `HandleDropReq`, `ReceiverTick` | `handleData` with its immediate NAK; its early returns; `handleDropReq`, `skipRange`; `deliver`, `sendACK`, `periodicNAK` |
| `Read` | the pop from `ready` (the waiting is in `SrtConnIO`) |
| `SenderClose`, `...Ends`, `SenderShutdown`, `SenderIdle` and their twins | `Close` with its linger, `handlePacket` of a shutdown, the idle timeout |
| `Lose` | the network |

The network repeats and reorders freely when `DupNet` is set: a packet once
sent may arrive at any time, any number of times, which includes never.
Timing is nondeterministic: a tick may find any timer expired and the clocks
anywhere ahead, so every run loop schedule is included.

*Not in the model:* round-trip estimation, pacing and the ACKACK (they choose
moments, and every moment is allowed). Time stamps and encryption are in
`SrtPayload`.

*Runs.* A part of `srt_lossy`: two writes across the wrap of the number space, both
sides closing, shutting down or falling silent at any moment: enough for a
hole, a late packet behind it, a tail that is lost, and a close that overtakes
data. Longer streams are left to the proofs, which hold for every length.
A part of `srt_calls`: liveness with up to two losses, of any kind of packet, and
a latency that suffices.

*Fairness* (in `srt_calls`). The run loop ticks every 5 ms and its timers
expire, so there are ticks at which all have; what the network does not lose
arrives; the application reads. Nothing is assumed of `Write` or `Close`.

*Proved* (`SrtLinkProofs`, for every modulus, initial number, window, buffer
and number of writes below half the space): `LinkInv` is inductive and implies
`TypeOK`, `InOrder`, `NoSilentGap`, `AckCoversNoLoss`, `GiveUpJustified`. The
argument measures every number by `Idx`, its distance from the initial number:
within half a space circular comparisons are comparisons of naturals
(`IdxDiff`, `IdxNext`, `SpanIdx`). None of the properties is inductive alone:
`InOrder` needs that nothing delivered is at or past `rcvNext` (`StreamInv`);
that needs the buffer to hold each packet under its own number
(`ReceiverInv`), hence the network to carry it so (`NetworkInv`), hence the
send buffer to be a run of consecutive packets (`SenderInv`); and
`GiveUpJustified` needs drop requests on the wire to name only what the sender
let go.

*Proved* (at the end of `SrtLinkProofs`, from the same assumptions): `CleanCloseKeepsAll`, which
relates the two ends after both have gone, and so needs more than either knows.
`CloseInv` adds four parts to `LinkInv`. `AckedArrived`: as long as the sender
let go of nothing for age, what is below its window has been seen by the
receiver, is no loss of a receiver that is alive, and no skip mark stands for it,
since only an ACK moves the window then and an ACK stops at the first loss.
`PassedKept`: under the same condition what the receiver moved past is
delivered, in the ready queue, given up or discarded, except what a shutdown of the
sender cut off, which the sender still holds. `SenderShut`: a clean end is that of
a sender that is not alive and holds nothing, and a shutdown under way to the
receiver comes from one that is not alive. `WindowShut`: a receiver that is
closing holds nothing back. A clean end thus means that everything written is
below the window, passed, and accounted for. `PassedKept` is the part that is not obvious:
a tick may give up a gap and a late copy of the packet may arrive afterwards,
which must not count it twice. *Only model-checked:* the liveness.

## 4. SRT: `SrtConnIO` (`go-srt/conn.go`, the blocking calls)

Any number of goroutines in `Read`, `Write` and `Close`, the deadline setters,
and the run loop's side (`Deliver`, `ReleaseSent`, `HandleShutdown`,
`PeerIdle`). `Conn.mu` makes what happens under it one action; a call is cut
where it unlocks or waits.

| Model | Code |
|---|---|
| `token` | the one slot of `readyNotify` |
| `rpc` = `loop`, `pass`, `arm`, `wait` | `Read`: before the lock; having seen `closing`, before it passes the wake-up on; having copied the deadline, before the timer; in the `select` |
| `wpc`, `woken` | `Write` and whether the `sendWake` it took hold of has been closed |
| `cpc`, `closing`, `closed`, `closeErr`, `shutdowns`, `released` | `Close`, `closeLocked`, the shutdown packet and the `onClose` goroutine |

*Runs.* In `srt_calls` a behaviour of this module has one of four sets of calls: two
Reads and two Closes; one Read, whose deadlines are set, moved and cleared at any
moment, and two Closes; two Writes with deadlines and one Close; one Read, one Write and two
Closes. Two of a kind is the least that lets a wake-up go to the wrong one; Reads and Writes
touch no common state but the close flags, so deadlines of both at once add
nothing. `CallsEnd` says that after a close every call returns, and past a
deadline every Write that waits and a Read *that has no other beside it* (`Alone`);
`SoleReadReturns` and `NoWriteLeftWaiting` that a
call does not sleep on what it waits for. Of two Reads neither holds, since `notify` leaves one
token and only Close's is passed on: `srt_io_readers` and `srt_read_deadline` are expected
to fail, see section 14.

*Fairness.* A runnable goroutine runs, a ready `select` is taken, a timer
fires; only weak fairness, since with two Reads the token may go to the other
one every time. Nothing of the peer or of the application's next calls.

*Proved* (`SrtConnIOProofs`, any number of goroutines): `IOInv` is inductive;
with it `TypeOK`, `NoLostWriteWakeup`, `CloseReachesReads`, `ClosedOnce`, the action
property `NothingAfterClose`, and `SendBufferBounded`, which no run repeats.
*Only model-checked:* the liveness.

## 5. SRT: `SrtHandshake` (`go-srt/dial.go`, `listener.go`)

Callers in `Dial`, and a listener: its read loop, `Accept`, `Close`, and the
life of the Conns it makes. Datagrams are records; the network keeps all of
them, so each may be lost, repeated, delayed. `Listener.mu` makes each
critical section an action; `conclusion` is cut where it unlocks to call
`Authorize` (`lpc`). Cookies are minutes of the clock, and a conclusion may
present one of this or the last minute. Keys and key messages are the
passphrase they come from.

*Runs.* A part of `srt_lossy`: two callers, one of which may have the wrong
passphrase, a backlog of one, `Listener.Close` at any moment.
One part of `sessions`: one caller over three minutes, cookies that expire, a Conn
without a peer; it has the liveness, `SessionDecided` (a Dial ends) and
`HalfOpenReclaimed`. `srt_handshake_clock` is expected to fail, see section 14.
That a refused caller leaves nothing behind is part of `Agreement`; that
the backlog never blocks the read loop, part of `TypeOK`.

*Fairness.* Clock, read timeouts, the peer idle timeout and the `onClose`
goroutine go on; `Listener.Close` goes on once called. Nothing of the network.

The bounds of the runs (two callers, two socket ids, four ticks) are small
because the network never forgets. Socket ids are interchangeable, and `srt_lossy`
treats them so (`SockSymmetry`).

*Proved* (`SrtHandshakeProofs`, any callers, socket ids, backlog, latencies,
passphrases and times): `HInv` is inductive and implies `TypeOK`,
`Agreement`, `OpenIsRegistered` and `CloseClosesAll`. A network that keeps all
it was ever given makes most of the invariant a statement about datagrams
(`Sent`): what each still proves of the one who sent it, however old it is. An
answer to a conclusion names the Conn made for that conclusion, so a caller that
accepts any copy of one agrees with that Conn. A refusal proves that no Conn was
made. The lock released around `Authorize` is the second half: when
`conclusion` takes it again, `lpc` remembers a caller for which `byCaller` had no
entry; no other step of the read loop comes in between, so it has none still,
and a Conn made then is the caller's only open one. `onClose` removes only what still
is its own Conn's entry, hence `OpenIsRegistered`; and as `Close` collects the
Conns of the map after it has set `closed`, which a conclusion checks under the
same lock, none is left out (`CloseClosesAll`). *Only model-checked:* the liveness.

### What a packet carries: `SrtPayload` (`conn.go`, `crypto.go`)

The time a packet was written, in 32 bits of microseconds, and a payload under
one of two keys. A packet is its place in the stream and may arrive at any moment
up to `MaxLate` after it was written. `HandleData` is `handleData` with its
refusals and `extendTs`; `HandleKM` is the user-defined packet with `applyKM` and
its confirmation, which may be lost. This package never makes a second key, so
`MakeKey`, `RepeatKey` and `SwitchKey` are a peer like libsrt. What is decrypted
under a wrong key is recorded, not refused: AES-CTR has no check.

`GivenAsTaken`: what is taken has the time it was written at, whatever came late
over a wrap, and is decrypted with the key it was encrypted with, whichever packets
a key message overtook. *Run.* A part of `packets`: a clock modulo 16 that
wraps within three packets, two refreshes, so that a slot is used again.

*Proved* (`PacketsProofs`, from `PayloadAssumption` alone): `PayloadTakenAsWritten`,
that `GivenAsTaken` holds in every behaviour of `Packets` that is one of this
module, and `PayloadTypes`, the same of `TypeOK`; for every even modulus, lateness,
number of packets and of keys. Neither is inductive. `SrtInvariant` adds three
parts. `ClockOk`: the widened clock is the time of the latest packet that came, and
the sender's is less than half a turn ahead of it, less what a packet may be late;
so whatever arrives is within half a turn of the widened clock, where a 32 bit
time is that of one turn only (`HalfTurn`, `Extends`). `KeysOk`: the receiver has the
sender's keys but for the last one, and as long as it has not that one the slot is
empty, and what comes under it is refused, or nothing under it can arrive, since
the sender has not begun to use it and waited for the last of the old key before
it made it. `TakenOnce`: as many packets were taken as are in `rcvBuf`.

*Assumed, because it does not hold otherwise:* no pause of half a turn (36 minutes)
without a packet that arrives, and one before the first wrap: `extendTs` takes the
first packet for one of the peer's first turn, and `newConn`, which knows the
peer's time from the handshake, does not tell it. A peer switches to a key in a
used slot only once it is confirmed. Not modelled: a key message that is
malformed or wrapped under another passphrase, which `applyKM` refuses after it
has stored its salt (`crypto.go:110`).

## 6. RTMP chunks: `RtmpChunk` (`go-rtmp/chunk.go`)

`chunkStreamWriter.writeData` for several chunk streams, the byte stream, and
`chunkStreamReader.readRtmpMessage`. A byte is a cell that stands for a field;
input may be cut between any two. Each turn of the reader's loop is an action
(`ReadBasicHead`, `ReadMsgHead`, `ReadExtendTs`, `ReadPayload`).
`StampMod` and `ExtStamp` stand for 2^32 and 0xffffff; the bounds put
timestamps on both sides of `ExtStamp` and equal differences next to
unequal ones, so that every header format follows every other. `MaxWire` bounds how much a writer is ahead of the
reader: an input may still span the end of one chunk and the beginning of the
next. `peer` says whose writer it is: this package's, or that of another
implementation, which may interleave chunk streams, send empty messages and
wrap its timestamps, since the reader is written for those too. `Empties` says
which of the two is given empty messages.

*Abstract specification.* `Lanes` is what a connection of several lanes promises:
each message of a lane is given once, in order, whatever the other lanes do. A
chunk stream id is a lane; `sent` and `received` of `RtmpChunk` are the mapping:
the messages a writer has taken, and those the reader's callback has got,
without how either is chunked. `ImplementsLanes` (`Lane!Spec` under it) says
every step of writer, wire and reader takes one message, gives one, or stutters.

*Runs.* A part of `sessions`: either writer, three messages, a change of chunk
size, limits that both respect and exceed. `rtmp_chunk_empty` is expected to fail.
The reader is sequential, and `NothingHeldBack` says what liveness would.

*Proved* (`RtmpChunkProofs`, for all chunk streams and lengths, every chunk size and
timestamp modulus, any limits, chunks mixed and input cut in any way): `RtmpChunk`
implements `Lanes`, and `DeliveredAsWritten`, `NothingHeldBack`, `LimitsHold` and
`TypeOK` hold. Hypotheses: `ChunkAssumption`, and `OwnHasPayload`, that this package's
writer is not given messages without payload (section 14 has what they do to it); any
other writer may be. What `writeData` and `readRtmpMessage` keep does not say where in
the stream each is, so the inductive invariant `IInv` says that there is such a
description (`Sound`): all cells ever sent, `A`, are the concatenation of parts `Q`, each
a piece of one message with the basic, message and extended headers before it.

- Of the messages of each chunk stream, `hd` has the format and header each was
  written with; what a format leaves out agrees with the message before (`HeadsFit`),
  also where the difference wrapped. A reader that has the previous header and time
  therefore completes the right one (`Decoded`, `Stamp`).
- The parts of a chunk stream continue each other, and one begins a message only when
  the last is complete (`NextPart`); how long a part is follows from the number of
  SET_CHUNK_SIZE messages before it (`SizeAfter`). What is still queued cuts the rest of the
  last message in the same way (`QueueFits`), so that a chunk that goes out is the next part.
- The reader is `k` cells behind the `n`-th part (`Reader`). Every chunk stream but the
  current one rests where the parts before left it (`Settled`); in the current part the
  state, the header cache and the payload counters are those of `k` (`AtHead`, `AtExt`,
  `AtPayload`). The chunk size is that of the parts read, which is that of the writer when the
  part was cut. Each turn of the loop moves `k` by what it consumed, and a part's end
  is the next one's beginning.
- `data` and `wire` are the rest of `A` (`Supply`), so a reader with nothing left to
  read is at the end of the last part, where every chunk stream has been
  handed all it was sent. `Counted` says `buffered` is the number of payload cells kept.

Once the reader has failed only what it handed over until then is claimed (`Shown`).

Not modelled: the 24-bit bound on lengths, csids the header cannot encode
(both refused with an error before anything is written).

## 7. RTMP sessions: `RtmpSession` (`go-rtmp/client.go`, `server.go`, `handshake.go`)

An `RtmpClient` that publishes or plays, an `RtmpServerHandle`, and the two
applications. `RtmpChunk` shows that messages come out as they went in
whatever the cuts, if both ends use the same chunk size; here a message is one
cell that remembers the chunk size it was written with, and a byte of the
handshake is a cell too.

| Model | Code |
|---|---|
| `wire`, `data`, `busy` | bytes in transit; what is left of the data of an `Input` call, and whether one goes on |
| `stage`, `cache`, `scheme` | the handshake's `state`, `len(cache)`, `simpleHs` with `schema` |
| `state`, `pending` | `streamState`; the state the server sets once its answer is out |
| `wsize`, `rsize` | `chunkSize` of the control and command channels and of the reader |
| `last`, `streamId` | `lastMethod` with `lastMethodTid`, `streamId` |
| `peerWnd`, `recv`, `acked` | `peerWndAckSize`, `reader.recvBytes`, `lastAckBytes` |
| `works`, `gone` | whether the output takes data; an application that stopped after `Input` failed, as the package's examples do |
| `verdict`, `written`, `ackSeen` | history |

One cell of an `Input` is one action, so that a goroutine writing media comes
in between, also between the server's answer and its change of state. A batch
goes out as a whole (`send` holds `outMu`). The server may be another
implementation, which answers the commands this one ignores, or refuses.

*Run.* A part of `sessions`: both roles, simple and complex handshakes of two bytes
for each 1536, every verdict, two media messages each way and a window of
three, so that acknowledgements fall due inside an exchange. *Fairness:*
`Start` is called, the applications read what arrives and run `Input` to its
end. Nobody has to write media, and the connection may fail at any time.

`SessionDecided` excepts a verdict whose code is neither a start nor of level
`error`: `handleStatus` (`client.go:607-618`) ignores it, and a client waits on.
`StatusCode.Level` gives such a level to every code it does not list.

*Proved* (`RtmpSessionProofs`, for every size of the handshake, of chunks and of
windows, every verdict, any amount of media, every cut of the input, connections
that fail and servers of another make): `SessionInv` is inductive, and implies
`ReadAsWritten`, `StartAgreed`, `AcksKeepUp` and `TypeOK`. None of these says
anything of what is on its way, which is where they could fail; the invariant
is about `In(s)`, all that lies ahead of a side:

- it continues the handshake with the cell its reader waits for, in the scheme of
  the client, and messages come only after the last of its cells (`Shaking`): a
  side sends no message before it has sent and read its own handshake, and the server
  takes its scheme from the C1 that the client wrote in its own;
- a reader that takes all of it ends with the chunk size of the writer
  (`ChunkSizes`), and each message is written with the size in force where it lies
  (`Sized`), which a SET_CHUNK_SIZE changes for what is behind it, in its own batch too;
- at most one command or answer that moves the exchange on is under way, in one of
  the two directions (`OneToken`); it, and everything else under way, proves of
  both sides what its handler takes for granted (`Fits`: a `_result` with id 2 means
  that the client is creating its stream, media from the client that it was
  started), and handling it makes nothing else under way false, since nothing else
  is a token;
- a server's application that said "start" is followed by a client that has started
  or by the word on its way (`Told`), and media is behind that word (`MediaAfter`);
  between its answer and its change of state the server's `pending` says the same (`Progress`);
- the last acknowledgement under way is the last one sent, or the last one seen if
  there is none (`Acks`).

A side whose output failed in `Input` reads no more, so nothing is claimed of what
lies ahead of it. *Only model-checked:* `SessionDecided`.

Not modelled: AMF0, the FLV tags of media, a client that breaks the order of
commands, `_result` for a transaction that was never begun.

## 8. RTSP sessions: `RtspSession` (`go-rtsp/rtsp-client.go`, `rtsp-server.go`, `rtsp-track.go`, `rtsp-transport.go`)

An `RtspClient` that plays or records, an `RtspServer`, their two applications, and
one connection between them for requests, answers and interleaved media.

| Model | Code |
|---|---|
| `up`, `down` | the two directions of the connection, in whole messages; `Input` keeps the beginning of one until the rest arrives |
| `client` | `RtspClient`: state, `reponseHandler`, `sessionId`, the tracks and which of them is being set up, the nonce it answers |
| `server` | `RtspServer`: state, session id, tracks and their transports, whether it asks for a password |
| `over` | why the client's application gave up, if it did |
| `Start`, `ClientHandles`, `ServerHandles` | `Start`; one message of `Input` with the handler that `reponseHandler` names, or the method's branch of `handleRequest`, with everything it sends |
| `KeepAlive`, `ServerWrites`, `ClientWrites` | the calls of the applications: `KeepAlive`, and the packets of the side that streams |

A handler runs to its end inside one `Input`, so a message is one action. A 401
is answered once (`HandleUnAuth`); on 461 a `ClientHandle` switches all tracks to
the other transport, once (`HandleSetupSwitch`); the server may number the channels
otherwise than it was asked (`Channels`), and the client renumbers.

*Run.* A part of `sessions`: both modes, descriptions of one and two medias with a
codec the package does not know among them, open, right and wrong passwords,
either transport preferred and either refused, any one request refused, one
`KeepAlive` and two packets of media. Two tracks are the least that can be
confused; more would repeat the same step. *Fairness:* `Start` is called and
both applications read what arrives. `KeepAlive` begins once the stream has: an
earlier one is `rtsp_keepalive`, which is expected to fail.

*Proved* (`RtspSessionProofs`, for all descriptions, transports, passwords,
refusals, calls of `KeepAlive` and packets): `SessionInv` is inductive, and
implies `StartAgreed`, `MediaRouted` and `TypeOK`. The theorems assume
`AliveFrom = "start"`: an earlier `KeepAlive` breaks the session (section 14),
and the invariant with it. The argument:

- until the stream has started one request or one answer is under way, and it
  belongs to the handler that is set (`AsAsked`, `Stage`); hence an answer, although it
  is not matched by CSeq, still says what is so (`AsAnswered`);
- the medias before the one being set up are set up alike on both sides
  (`SetUp`, `Alike`), which `sendNextSetup` keeps because it takes the first one left;
- all tracks of a session want one transport (`One`), so that a 461 can only come
  before any track is set up, and the switch of all tracks undoes nothing;
- PLAY is accepted only in the session that SETUP made, and only a client with a
  handle sends one (`Begun`); so the side that streams has the server's channels;
- the server gives out channels upwards (`ChannelsApart`); with the same channels
  on both sides a packet on the wire has one track it can go to (`PacketsRight`).

*Only model-checked:* `SessionDecided`.

*Left out of `Undecided`, with the reason:* a client without a `ClientHandle` does
not store the session id of the first answer, gets 454 for its second SETUP and
says nothing to anyone; a description with no medium of a known codec makes the
client stop silently. Not modelled: REDIRECT, PAUSE, TEARDOWN, different
transports for different tracks, the text of messages and descriptions, digests.


## 9. Modules about media: how they are built

The modules of sections 10, 11 and 13 have five variables: `mux`, what writes; `wire`,
the packets or the file, what happened to them, and how far the reader is; `dem`,
what reads; `given` and `got`, what the writer was given and what the reader
gave. The bytes of a frame are *runs* `[n, lo, hi]`, bytes `lo` to `hi - 1` of the
`n`-th frame, so that a frame joined from two, cut short, or given twice can be
told from a whole one. Frames are access units, sequences of NAL units with their
types and lengths, or audio. Headers have the very sizes the code gives them, since
padding, packet boundaries and offsets follow from them; what is scaled down, so
that wraps and limits are met within a few frames, is named in the constants: the
modulus of clocks and of sequence numbers, the longest PES packet, the mtu, 32 and
24 bits of size, the range of a cluster.

Liveness is stated as safety: once the writer is done and all has been read,
everything that can be given has been.


## 10. Media in packets: `TsStream`, `PsStream` (`go-mpeg2`), `RtpStream`, `RtcpContext` (`go-rtsp/rtp`, `rtcp`)

| Module | Actions | Code |
|---|---|---|
| `TsStream` | `AddStream`, `Write`, `Close` | `TSMuxer`: tables, PES header, adaptation fields, stuffing, PCR, counters |
| | `Deliver`, `DeliverTwice`, `Lose`, `Flush` | the way to the reader; `TSDemuxer.Input` with its tables, counter check, `splitH26xFrame` and audio frames |
| `PsStream` | `AddStream`, `Write`, `Close` | `PSMuxer`: pack, system header, stream map, PES packets of at most `PesMax` |
| | `InputPart`, `Input`, `Flush` | `PSDemuxer.Input` with its cache, given a packet in parts or whole |
| | `Lose` | a packet that does not come |
| | `Resync` | `PSDemuxer.Input` on a packet it cannot read: it goes on at the next complete start code of the buffer, or drops the rest of the buffer with what is cached |
| `RtpStream` | `Pack`, `Close` | the `Pack` methods: single NAL units, FU-A, FU, STAP-A, audio, MPEG-TS |
| | `Deliver`, `DeliverTwice`, `Overtake`, `Lose` | the network; `UnPack` and `ReceivedRtp` |
| | `GenerateRR` | `RtcpContext` |

Properties, each the conjunction of the modules' own (`SrtPayload` shares the first):

- `GivenAsTaken`: what nothing happened to is given whole, once, in order, at its time.
- `NeverSpliced`: what is called whole is never made of two. For TS this excepts
  as many losses in a row as the counter takes to come round (`CcMod`); for RTP,
  what `rtp_fragments` shows.
- `LossIsLocal`: what a loss costs. Of TS the frame it hits and the one before it. Of PS a packet
  that does not come costs its frame alone; one that is damaged, or a system header without a pack
  header before it, may cost the next packet too, namely when the buffer ends within that
  packet's start code (`Resync`, `wire.skipped`). Of RTP the NAL
  units and audio frames it hits.
- `WellFormed`: of TS, 188 bytes and the counters; the length in each PES header, 0 only
  when it exceeds 16 bits; a PAT and a PMT before each frame, written with one at most `Period` older;
  a clock with each frame of the stream that has it and with no other, with the frame's
  time, and named by the PMT (`ClockDue`, `ClockOf`). Of PS, the length of each packet, packets that
  cover a frame without a gap and are full but for the last, the system clock at most
  `Lead` before the frame, and a map with the stream right before the first frame and before
  each key frame without a delimiter. Of RTP, markers, numbers and the mtu.
- `ReportsHonest`: as long as numbers do not jump (`Steady`), a report tells the
  highest packet, how many are missing in all, and, in 256ths of what was expected
  since the last report, rounded down, how many more are missing than then.

*Run.* `packets`. TS: three frames of two streams, chosen so that one byte is left
for a last packet and that a delimiter and a clock just fill one; two lost packets
and one repeated; time that wraps after the first frame, a counter modulo 3, so
that it comes round and two losses in a row do not look like none. PS: NAL units
and audio that fill a PES packet, exceed it by a byte, take two; a key frame with and one without
a delimiter; packets that are lost and packets that cannot be read, in buffers that
end anywhere. RTP:
numbers that wrap at 16 after three packets, parameter sets that share a packet or
wait for one, fragments of two and three packets, two faults, two reports.

*Proved* (`PacketsProofs`): `ReportsHonest`, and `NeverSpliced` of H.264, H.265 and audio over
RTP, for every modulus of the sequence numbers,
mtu, windows of `updateSeq`, frames, and number of faults and reports. Besides
`PacketsAssumption`, of which it uses that a number is in one window of `updateSeq`
(`MaxDropout + MaxMisorder <= SeqRange`, 3000 and 100 of 65536 in the code), there are two
hypotheses. `MinSequential = 2` is the constant of `rtcp-context.go`; with another, `Base`, where
the counts begin, would be defined otherwise. `2 * MaxFaults + 2 < SeqRange` says
that the network takes no packet half a circle from its place, without which no
receiver could tell a number from the same number of another turn.

`ReportsHonest` speaks of a log of all that came, the code of six numbers, so its
invariant, `RtpInvariant`, is about how these follow from it. `PackerOk` and
`PacketsOk`: a packet carries the number of its place, and none is farther from it
than packets were moved. `LogOk`: the last packet that came is about where the
reader is. So two packets that come one after the other are less than
a turn apart, and the difference that `updateSeq` computes modulo the turn is the
true one (`NextIsNear`, `NextPlace`). `CountsOk`: the base is that of the first two packets in
sequence, `cycles` and `maxSeq` are the highest number since, through every
wrap, `received` is the length of the log from the base on, and the two prior
numbers are those at the last report. `ReportsOk`: every report made so far is
honest, and stays so as the log grows, since `Base`, `Highest` and `Missing` at its place do not
change (`BaseGrows`, `HighestGrows`). That the packers give sequences at all rests on
folds over NAL units; what a fold computes is proved by the least number of steps for which
it would be wrong. `Fraction` is the arithmetic of the block. It showed that the
fraction may be 0 though packets are missing, when they are fewer than one in 256, so the
property says what the byte is, not whether it is 0.

`NeverSpliced` (`RtpNeverSpliced`) is about the frames. `RtpAssumption` says of them that a NAL
unit is more than its start code: between two start codes in a row there is none to send. The
invariant, `WholeInvariant`, is about three things. `PiecesAre`: a packet
holds whole NAL units, or the fragment of one, and a fragment that is not a first one
begins where the fragment numbered just before it ends, with the same header. This is a lemma
about `Fragments`, whose packets fill the mtu (`FragmentsChain`), carried through the
folds of the packers (`Chains`). `BufferIs`: what the buffer holds ends within a
NAL unit or with it, so that no whole one that comes next is taken for its continuation
(`NalsApart`, `AppendWhole`); and if it is not damaged and the packets that came last are fragments
in a row from a first one on, it holds just those (`Holds`). `FramesGiven`: what was given
stays what it was. The step that matters is a fragment that goes on (`FuTaken`): that its number
is the next one says that it *is* the next fragment only since the network takes no packet
half a circle from its place (`NextComes`). Without a fragment in front, as behind a single NAL
unit, `lastSequence` says nothing, which is why the property asks for fragments in a row;
`rtp_fragments` shows what happens otherwise. MPEG-TS over RTP is left to the run: there a frame
ends with the next timestamp, and the property is about sums over packets.

*What does not hold, and is not claimed.* TS: an access unit that begins with a
slice and no delimiter is joined to the next (`splitH26xFrame`, which counts a unit
from its delimiter); the version of a changed PMT stays; after a loss the next
frame may carry the time of the one that was dropped. The PMT names the clock's stream as of when it was written, so for
up to `Period` an older one, and with two video streams the clock moves between
them. The clock of a frame of decode time 0 is its presentation time. PS: after a
packet it cannot read the demuxer does not go on at the next start code, as the comment has it
(`ps-demuxer.go:167`), if the buffer ends within that start code. A key frame behind a
delimiter gets neither flag nor map (`ps-muxer.go:72-74`), so who joins there does not know
the streams. NAL units that are not
the last of their frame get the time of the frame before; audio of equal times is
joined. RTP: `lastSequence` begins at 0, so that a first packet numbered 1 that is
not the beginning of its unit is not flagged; the MPEG-TS unpacker's first frame
may lack its head; the STAP-A packer holds an SPS back until a PPS comes, though the comment
(`rtp-h264.go:96`) has it sent. RTCP: counts may begin out of sequence
(`rtcp-context.go:192`, against the comment at `:250`).

Not modelled: a PS packet that ends early or whose length is wrong, and payload that looks
like a start code of the program stream; descriptors, MP3 and audio codecs other than AAC in MPEG streams,
SDES and BYE, the NTP clock.


## 11. Media in files: `Mp4File`, `Mp4Boxes` (`go-mp4`), `FlvFile` (`go-flv`), `MkvFile` (`go-mkv`)

| Module | Actions | Code |
|---|---|---|
| `Mp4File` | `Write`, `CallFlush`, `WriteTrailer`, `Crash` | `Movmuxer`, plain, fragmented and DASH: sample tables, fragments and where they are cut, sidx with its reserve, mfra, mehd |
| | `ReadHead`, `ReadPacket`, `SeekTime` | `MovDemuxer` |
| `FlvFile` | `Write`, `Close` | `FlvWriter` and the codec muxers, sequence headers, the frame held back |
| | `PutForeign` | another program's tags in the file |
| | `Input` | `FlvReader.Input`, in pieces |
| `MkvFile` | `Write`, `WriteTrailer`, `Crash` | `Muxer`: frames held until tracks are known, clusters, cues, SeekHead, the head finished at the end |
| | `Rewrite` | the same file as another program writes it: unknown sizes, BlockGroups, the three lacings |
| | `ReadPacket` | `Demuxer` with `dts.go`: the decode times Matroska does not store |

`Mp4Boxes` has the size of every box and what a field gives back once cut to its
width. A writer may stop at any time; the file then ends at any box, or inside
the last.

Properties, each the conjunction of the modules' (those of sections 12 and 13 among them):

- `GivenAsTaken`: what was written is read; Matroska's decode times never go back,
  never pass the presentation time, and rise where the first frames show how deep
  the reordering is (`DecodeTimes`).
- `IndexHonest`: sidx, tfra and mehd; cues, SeekHead, size and duration; granules.
- `CutKeepsWhole`: of a file without its end everything whole is read and nothing
  is joined. Of MP4 the end may not be inside a box that describes samples.
- `KeysDecodable`: who begins at a key frame, or after `SeekTime` in a plain file,
  gets the parameter sets with it. Where a set changes, FLV and Matroska are asked for its
  version: of FLV the one the slices were coded with, for each set that is the
  sequence header's or changed with the key frame itself (`InForce`, `InFront`); of Matroska the one
  of the CodecPrivate. `KeysCurrent` asks it of FLV for every set, and `flv_stale_sets` is
  expected to fail, see section 14.

*Run.* `containers`. MP4: video and audio, or audio alone; sizes of several
hundred bytes against 32 bits that end at 2500, so that a plain file needs the
64-bit forms; a fragment of 30 ms against frames of 40; a reserve of two index
entries, so that it runs out; decode times that are negative against the
presentation; one manual flush. FLV: 24 bits that end at 16, so that a time needs
the extended byte; a parameter set that changes and then stays; SEI behind the slices; tags of other programs. Matroska: a
cluster limit by time, by bytes and by the 16 bits of a relative time; a window of
three for the reordering; tracks whose codec is known late. Four Writes a file, three for
FLV: enough for a fragment, a cluster and an index entry to end and another to begin.

*What does not hold, and is not claimed.*

- MP4: a plain file drops the offset between the starts of its tracks. A sample of
  duration 0 in a fragment is read with the default duration (`Ticking` excepts it).
  After a flush in the middle of a group of pictures the sidx still says the
  fragment starts with an access point. `SeekTime` in a fragmented file without
  stss may lead to a frame that cannot be decoded; past the end it rewinds video to
  the last key frame, though the comment says to its end. Of DASH segments the
  caller flushes the last (`fmp4index_test.go:438`). A track without parameter sets
  makes the whole moov fail. A parameter set repeated under the same id is dropped.
- FLV: any audio tag that is not AAC is taken for a configuration by the AAC
  demuxer; an error in the file header is not left again; all AAC frames of one
  Write share a time; a set that changed is left out of the key frames after the one that brought it,
  and the demuxer puts the sequence header's older one in its place (section 14); a trailing SEI holds its frame back (`flv-muxer.go:238`,
  against the comment at `:113`).
- Matroska: a video track that is left out still counts as video, so that a
  file of audio gets no cues (`mkv-muxer.go:31-34`, `:751`); changed parameter sets are lost;
  after a torn block `ReadPacket` reports an error, and the frames in the reorder
  window are given only if the caller reads on.

Not modelled: encryption (CENC), edit lists other than the muxer's, enhanced FLV
tags and VP6 beyond skipping them, failing writes, EBML laces beyond the three,
Matroska's content encodings.


## 12. Ogg Opus files: `Ogg` (`go-ogg`)

A `Muxer` with several streams, the writer it is given, and a `Demuxer` that
gets the file in buffers cut anywhere, with pages lost on the way. A packet is a
sequence of cells, a segment takes two cells instead of 255 bytes and a page
three segments instead of 255, so that packets end in every place of a page: on
its last segment, on a segment of length 0, several pages later.

| Model | Code |
|---|---|
| `streams`, `pending`, `started`, `finished`, `failed` | the `muxStream`s and the fields of `Muxer`, `writeErr` |
| `file`, `writes`, `failAt` | the pages on the disk; how many were written before the write that fails |
| `Write`, `WriteTrailer` | `WritePadded` with `start` and `addPacket`; `WriteTrailer`, which may follow an error |
| `inHead`, `cached` | `Demuxer.state`, the length of `headCache` or of the page's `cache` |
| `dem` | the `oggStream` and its `opusDemuxer` |
| `Input` | `Input`, up to the end of the buffer or of a page |
| `written`, `out`, `lostPages` | history |

`Input` handles the rest of a buffer as it would the next buffer, so a buffer of
several pages is a sequence of actions. The muxer does not depend on the
demuxer, so the file is read once the muxer is finished or has failed; the
latter leaves any beginning of a file. The first byte of a piece that is not
the beginning of a packet may say any duration.

*Run.* A part of `containers`: three packets over two streams, of one cell, of exactly a page,
and of more than two pages; one page lost; the fourth write failing or none;
streams that begin at 0 and later, with a header of their own and without one,
which waits for its first packet or is left out. A buffer that ends inside a
page ends in its header or after at most one cell of its payload: what counts
is whether anything of it is cached.

*What does not hold*, and is not claimed: after a loss the tail of a packet is
given out as a frame marked `lost`, if it is longer than a segment, in spite of
the comment at `ogg-demuxer.go:103`; if it is not, whole packets up to the next
full segment are dropped (`:146-155`). The page after one with exactly 255
segments says it continues a packet though it does not (`ogg-muxer.go:246-257`).
The first frame of a stream that begins late is at 0 (`ogg-codec.go:132-159`),
and with a pre-skip the first frame of a page is late by it.

Not modelled: VP8 streams, checksums, `AudioParam`.

## 13. Elementary streams, WAVE files and what formats share: `EsStream` (`go-es`), `WavFile` (`go-wav`), `go-codec`

In `EsStream` an encoder, which is not of this repository, makes access units of
H.264 or H.265 with the picture order counts a standard allows; `Write` is
`Writer.WriteFrame` with the parameter sets `annexB` puts in front.
`ReadNal` is `videoReader.step`: it cuts the file into access units
(`StartsAU`, `FinishAU`), parses slices (`H264Slice`, `H265Slice` with `PocFrom` and
`Expected`) and pushes into the `orderer` (`Rank`, `Measure`, `Resolve`).
`ReadAudio` is `aacReader` and `mp3Reader` over frames, junk, tags, an
information frame and a torn end.

- `GivenAsTaken`: each access unit is given whole, with its own decode time and never
  shown before it; and if nothing is reordered beyond the look-ahead, and the first
  pictures are reordered as deeply as any, all are shown in the order the encoder
  meant, at equal distances. Audio is given once and its times do not drift.
- `KeysDecodable`: key frames have every parameter set, if the Writer was given them.

*Run.* A part of `containers`: a look-ahead of 2 for 16, counts modulo 4 that wrap
at every other picture in either direction, frame numbers modulo 2 with a cycle of
two offsets (type 1), CRA pictures with leading pictures and ends of sequence,
parameter sets whole, in part and absent, one or two slices, four access units.

*What does not hold, and is not claimed.* The index of a frame is multiplied by the rate
of the SPS in force when it leaves the window, so a changed rate makes times jump
(`h26x.go:217`). Streams that mix field and frame pictures, or begin in the middle of
a group of pictures, mix counters with counts in one period; the memory
operation that resets a count is not handled. If the sets changed in the
stream, the Writer still puts those of the extra data before a later key frame.

`WavFile`: a `Writer` that may seek or not, whose `Close` fails, or whose program
ends, after any of its writes; another program that appends a chunk; a `Reader`.
`GivenAsTaken`: all whole samples are read, however far `Close` came.
`IndexHonest`: the sizes and the duration of a finished file are true. *Run.* A
part of `containers`: an odd number of bytes, none, and more than fit. *What does not hold:*
where no size is filled in, the pad byte is read as data, though the comment in
`Close` says it is none (`GivenAsTaken` allows for it).

Not modelled: the scanner of start codes, `Probe`, G.711, the Writer's AAC.

### What the formats share: `BitStream`, `ParamRecords` (`go-codec`)

`BitStream`: a `BitStreamWriter` gets fields, bytes, marks, patches and a fill, in
any order that the packages use, then a `BitStream` reads what `Bits` gave.
`given` is the bits that were meant. `GivenAsTaken`: a read of whole fields gives
the bits that were written there, a read past the end gives an error and moves
nothing, and after an error no read moves. Fields may cross one byte or
several, and their values may be too large for them. `IndexHonest`: the distance
from a mark, which PSI sections and PES headers are given as their length, is
the number of bits written since. *Bounds:* bytes of 3 bits, numbers of 5, so that a field
covers a whole byte between two parts of others and an Exp-Golomb prefix can be too long; two
writes, three reads.

*What does not hold, and is not claimed.* `PutByte` within a byte puts the low
bits at the wrong end (`bitstream.go:351-354`) and heeds no error; it is called between bytes
only. `ReadUE` of a prefix whose other bits are missing gives 2^n - 1 besides
the error, where the type promises a zero (`bitstream.go:17`, `:230`).
`ReadSE` of an odd number of at least 2^63 - 1 changes its sign. `UnRead` moves after an error.

`ParamRecords`: a muxer updates an hvcC record set by set and encodes it at any time, a
demuxer decodes all or part of it, and another muxer begins with what it got
(`go-mkv`'s extra data); or a program makes an avcC of the sets it has. `GivenAsTaken`: the
record holds the last set of each kind and id, once, and a demuxer gets these;
of a part of a record it gets an error and keeps its sets. `IndexHonest`: the
head covers every set in the record, in its level (of one tier), profile, flags, temporal layers
and segmentation. *Bounds:* four sets of seven, one SPS replaced by another of a higher
tier and a lower level, five SPSs where the count holds three.

*What does not hold, and is not claimed.* Replaced sets leave their marks on the head, which only
grows. `ParallelismType` is that of the last PPS alone (`h265.go:972-983`). `UpdateVPS` counts
layers (`Vps_max_layers_minus1`, `h265.go:1048`) as temporal layers, and eight of them become
none in three bits. A set of 64 KiB or more is written whole behind a length that wrapped. A
record cut in its head still replaces the head, with zeros where it ended; every
caller drops the record then.

## 14. Disagreements

- `srt_io_readers`: `deliver` (`go-srt/conn.go:855`) queues several messages and
  leaves one token. With two Reads waiting, one returns and the other sleeps
  next to a message, until another packet is delivered. `Conn` says it
  implements `net.Conn`, whose methods may be called concurrently.
- `srt_read_deadline`: `SetReadDeadline` leaves one token too (`go-srt/conn.go:549`). Of two
  Reads that wait, the one that takes it finds the time over and returns without passing it on
  (`:524-526`, `:534-535`); the other copied no deadline, has no timer, and sleeps past it.
  The same claim of `Conn` is at `:174`.
- `srt_handshake_clock`: a conclusion that is answered again gets the first
  answer's bytes, whose timestamp is 0 (`go-srt/listener.go:220`, `:327`); the
  caller takes that for the peer's clock at that moment and plays everything late by the retry.
- `rtmp_chunk_empty`: `writeData` of no data emits nothing but remembers its header
  (`go-rtmp/chunk.go:283-293`); the next message is compressed against it and
  arrives with another timestamp.
- `rtp_fragments`: a NAL unit that follows fragments whose last one was lost is
  given behind them, in one frame not called lost (`go-rtsp/rtp/rtp-h264.go:312`,
  `rtp-h265.go:195`); `rtp.go:14` has a flag for a frame that is not whole.
- `rtsp_keepalive`: `KeepAlive` overwrites `reponseHandler` whatever answer is
  awaited (`go-rtsp/rtsp-client.go:242-253`), and answers are not matched by CSeq.
  `HandleSetup` tells the timeout during the set-up of the first track; a
  `KeepAlive` then takes the answer to the next SETUP and PLAY is never sent,
  although the comment at `:212` says it is sent automatically.


- `flv_stale_sets`: `AVCMuxer` leaves out of a key frame the sets it has written since
  (`go-flv/flv-muxer.go:145-156`) and writes one sequence header (`:180-196`); `AVCTagDemuxer` puts the
  sets of the sequence header in front of a key frame without any
  (`go-flv/flv-demuxer.go:120-133`, `:154-171`). A key frame with a new SPS is read with it, the key frames
  after that with the SPS from before the change. The tests have both halves
  (`flv-muxer_test.go:38-48`, `flv-demuxer_test.go:91`), each without a change.

## 15. What stays with TLC, and what is not modelled

Liveness is model-checked only, and so is what sections 10 to 13 state, but for the
receiver reports and `NeverSpliced` of H.264, H.265 and audio over RTP: `GivenAsTaken`, `NeverSpliced`, `LossIsLocal`, `WellFormed` and
`TypeOK` of `Packets` (its part about SRT excepted, section 5) and the five properties of
`MCFiles`. What is computed by folding over data (sizes
of files, sample tables, runs of bytes) is checked on the bounded inputs of the runs:
an induction over data is out of the provers' reach where it needs an operator as a
parameter, and `SetToSortSeq`, which orders start codes, is a choice whose existence is
such an induction.

*Not modelled.*

- AES, key wrapping and key derivation: the standard library's.
- The scheduling of `Authorize` on the listener's read loop, which delays the
  Conns of the listener: a matter of time, not of order.
- `go-codec`: the syntax of parameter sets and of audio headers, functions of
  bytes without state. What the muxers use of Annex B is in `AnnexB`; fields of parameter
  sets are fields of records in `ParamRecords`, and in `EsStream`, `FlvFile`, `MkvFile` and `Mp4File`.
- `example`: programs that use the packages.
- Bytes of headers whose fields no property tells apart, and logging.
