-------------------------------- MODULE Sessions -------------------------------
(***************************************************************************)
(* What is asked of every protocol that sets something up between two      *)
(* sides: of RTMP sessions and the chunk streams they run on, of RTSP      *)
(* sessions and of the SRT handshake.  These do not interact; a behaviour  *)
(* is one of them (part), and the variables of the others stay 0.          *)
(*                                                                         *)
(* Each is instantiated with the theorems about it, so that SessionsProofs *)
(* can cite them.  A constant that two modules share is one in the code    *)
(* (FIX_CHUNK_SIZE), or a bound.                                           *)
(***************************************************************************)
EXTENDS Naturals, Sequences

CONSTANTS
    \* RtmpChunk
    Csids, Wide, MsgTypes, Streams, Lens, Stamps, StampMod, ExtStamp, Sizes, Ctrl, SetSize, None,
    Peers, Empties, MaxStreams, MaxBuffered, MaxMsgs, MaxWire,
    FixSize,  \* of RtmpSession, too
    \* RtmpSession
    Roles, Schemes, Verdicts, HsLen, WriteSize, WndAck, MayBreak, Foreign,
    MaxMedia, \* of RtspSession, too
    \* RtspSession
    Modes, Handled, Offers, Securities, Prefers, Refusable, AliveFrom, MaxAlive,
    \* SrtHandshake
    Callers, Socks, Backlog, Latency, ListenLatency, Passphrases, ListenPass, NoPass, Verdict,
    MinuteLen, ConnectTimeout, MaxTime, MaxConns

VARIABLES part, wire, data, state,
          peer, writers, queued, midway, headCache, current, cks, readSize, buffered, failure, sent, received,
          role, started, busy, stage, cache, scheme, pending, wsize, rsize, last, streamId, peerWnd, recv, acked,
          works, gone, written, verdict, ackSeen,
          mode, handled, security, takes, up, down, client, server, over, alive, streamed,
          now, net, caller, conn, lpc, made, conns, byCaller, accept, lclosed, closing, udpClosed

bytes  == <<wire, data, state>>
chunks == <<peer, writers, queued, midway, headCache, current, cks, readSize, buffered, failure, sent, received>>
rtmp   == <<role, started, busy, stage, cache, scheme, pending, wsize, rsize, last, streamId, peerWnd, recv, acked,
            works, gone, written, verdict, ackSeen>>
rtsp   == <<mode, handled, security, takes, up, down, client, server, over, alive, streamed>>
srt    == <<now, net, caller, conn, lpc, made, conns, byCaller, accept, lclosed, closing, udpClosed>>
rtmps  == <<bytes, rtmp>>
vars   == <<part, bytes, chunks, rtmp, rtsp, srt>>

Chunk == INSTANCE RtmpChunkProofs WITH Types <- MsgTypes
Rtmp  == INSTANCE RtmpSessionProofs
Rtsp  == INSTANCE RtspSessionProofs WITH Refusals <- Refusable
Srt   == INSTANCE SrtHandshakeProofs

ASSUME SessionsAssumption ==
    /\ Chunk!ChunkAssumption /\ Rtmp!SessionAssumption /\ Rtsp!RtspAssumption /\ Srt!HandshakeAssumption

NoBytes  == wire = 0 /\ data = 0 /\ state = 0
NoChunks ==
    /\ peer = 0 /\ writers = 0 /\ queued = 0 /\ midway = 0 /\ headCache = 0 /\ current = 0 /\ cks = 0
    /\ readSize = 0 /\ buffered = 0 /\ failure = 0 /\ sent = 0 /\ received = 0
NoRtmp   ==
    /\ role = 0 /\ started = 0 /\ busy = 0 /\ stage = 0 /\ cache = 0 /\ scheme = 0 /\ pending = 0 /\ wsize = 0
    /\ rsize = 0 /\ last = 0 /\ streamId = 0 /\ peerWnd = 0 /\ recv = 0 /\ acked = 0 /\ works = 0 /\ gone = 0
    /\ written = 0 /\ verdict = 0 /\ ackSeen = 0
NoRtsp   ==
    /\ mode = 0 /\ handled = 0 /\ security = 0 /\ takes = 0 /\ up = 0 /\ down = 0 /\ client = 0 /\ server = 0
    /\ over = 0 /\ alive = 0 /\ streamed = 0

NoSrt    ==
    /\ now = 0 /\ net = 0 /\ caller = 0 /\ conn = 0 /\ lpc = 0 /\ made = 0 /\ conns = 0 /\ byCaller = 0
    /\ accept = 0 /\ lclosed = 0 /\ closing = 0 /\ udpClosed = 0

InChunk == part = "chunk"
InRtmp  == part = "rtmp"
InRtsp  == part = "rtsp"
InSrt   == part = "srt"

ChunkInit == InChunk /\ Chunk!Init /\ NoRtmp /\ NoRtsp /\ NoSrt
RtmpInit  == InRtmp /\ Rtmp!Init /\ NoChunks /\ NoRtsp /\ NoSrt
RtspInit  == InRtsp /\ Rtsp!Init /\ NoBytes /\ NoChunks /\ NoRtmp /\ NoSrt
SrtInit   == InSrt /\ Srt!Init /\ NoBytes /\ NoChunks /\ NoRtmp /\ NoRtsp

Next ==
    /\ UNCHANGED part
    /\ \/ InChunk /\ Chunk!Next /\ UNCHANGED <<rtmp, rtsp, srt>>
       \/ InRtmp /\ Rtmp!Next /\ UNCHANGED <<chunks, rtsp, srt>>
       \/ InRtsp /\ Rtsp!Next /\ UNCHANGED <<bytes, chunks, rtmp, srt>>
       \/ InSrt /\ Srt!Next /\ UNCHANGED <<bytes, chunks, rtmp, rtsp>>

Spec == (ChunkInit \/ RtmpInit \/ RtspInit \/ SrtInit) /\ [][Next]_vars
RtspSpec == RtspInit /\ [][Next]_vars

\* What the modules assume of the applications.
Fairness ==
    /\ WF_rtmps(InRtmp /\ Rtmp!Start) /\ WF_rtmps(InRtmp /\ Rtmp!ServerStep) /\ WF_rtmps(InRtmp /\ Rtmp!ClientStep)
    /\ \A s \in {"client", "server"} : WF_rtmps(InRtmp /\ Rtmp!Input(s)) /\ WF_rtmps(InRtmp /\ Rtmp!Handle(s))
    /\ WF_rtsp(InRtsp /\ Rtsp!Start) /\ WF_rtsp(InRtsp /\ Rtsp!ServerHandles) /\ WF_rtsp(InRtsp /\ Rtsp!ClientHandles)
    /\ WF_srt(InSrt /\ Srt!Tick)
    /\ \A c \in Callers : /\ WF_srt(InSrt /\ Srt!CallerRetry(c))
                          /\ WF_srt(InSrt /\ (Srt!CallerSend(c) \/ Srt!DialTimeout(c)))
    /\ WF_srt(InSrt /\ Srt!PeerIdle) /\ WF_srt(InSrt /\ Srt!OnClose)
    /\ WF_srt(InSrt /\ Srt!ListenerCloseConn) /\ WF_srt(InSrt /\ Srt!ListenerCloseEnd)

FairSpec == Spec /\ Fairness

\* The type invariants of the modules.
TypeOK ==
    /\ InChunk => Chunk!TypeOK
    /\ InRtmp => Rtmp!TypeOK
    /\ InRtsp => Rtsp!TypeOK
    /\ InSrt => Srt!TypeOK

\* RtmpChunk implements Lanes: whatever the pieces of the input, the messages of
\* a chunk stream are handed over one by one as they were written
\* (writeData, readRtmpMessage).
NoMessages == [c \in Chunk!AllCsids |-> <<>>]
Lane == INSTANCE Lanes WITH
    Lane <- Chunk!AllCsids, taken <- IF InChunk THEN sent ELSE NoMessages,
    given <- IF InChunk THEN received ELSE NoMessages
ImplementsLanes == Lane!Spec

\* NothingHeldBack of RtmpChunk: once the input is parsed every message is out
\* (readRtmpMessage).
NothingHeldBack == InChunk => Chunk!NothingHeldBack

\* LimitsHold of RtmpChunk: maxChunkStreams and maxBufferedMsgLen are kept.
LimitsHold == InChunk => Chunk!LimitsHold

\* Each end reads what the other wrote: ReadAsWritten of RtmpSession, MediaRouted
\* of RtspSession.
ReadAsWritten ==
    /\ InRtmp => Rtmp!ReadAsWritten
    /\ InRtsp => Rtsp!MediaRouted

\* A stream that has started has been accepted, with the same parameters on both
\* sides: StartAgreed of both session modules, Agreement of SrtHandshake.
StartAgreed ==
    /\ InRtmp => Rtmp!StartAgreed
    /\ InRtsp => Rtsp!StartAgreed
    /\ InSrt => Srt!Agreement

\* AcksKeepUp of RtmpSession: the acknowledgements of sendAckIfNeeded.
AcksKeepUp == InRtmp => Rtmp!AcksKeepUp

\* A client that was started learns how it ends: SessionDecided of both session
\* modules, DialEnds of SrtHandshake.
SessionDecided ==
    ~<>[](InRtmp /\ Rtmp!Undecided) /\ ~<>[](InRtsp /\ Rtsp!Undecided) /\ \A c \in Callers : ~<>[](InSrt /\ Srt!Dialing(c))

\* HalfOpenReclaimed of SrtHandshake: the listener does not keep a Conn whose
\* caller is gone (closeLocked, onClose).
HalfOpenReclaimed == \A k \in 1 .. MaxConns : ~<>[](InSrt /\ Srt!HalfOpen(k))

\* PlayAutomatic of RtspSession: Play's comment, "PLAY is sent automatically once
\* every track has been set up."
PlayAutomatic == Rtsp!PlayAutomatic
================================================================================
